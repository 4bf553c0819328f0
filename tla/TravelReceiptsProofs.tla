------------------------ MODULE TravelReceiptsProofs ------------------------
(***************************************************************************)
(* Theorems of TravelReceipts, for every set of documents, workers, parses *)
(* and sources.  The inductive invariant is TypeOK together with the four  *)
(* safety invariants: the keyed lock (ReceiptLockHeld) is independent of   *)
(* the rest; AppliedAtMostOnce and ProvenanceProcessed hold because every  *)
(* write of the itinerary and the final status change are one transaction  *)
(* whose compare-and-swap refuses a settled receipt.  The reminders follow *)
(* because every step that writes a booking writes its reminder.           *)
(***************************************************************************)
EXTENDS TravelReceipts, TLAPS

\* The booking a document may create does not exist while its receipt is
\* open: ids are fresh, so creating never overwrites.
FreshBookingIds ==
  \A d \in Docs : booking[d] # None => receipt[d] = "processed"

IInv ==
  /\ TypeOK
  /\ ReceiptLockHeld
  /\ ProvenanceProcessed
  /\ AppliedAtMostOnce
  /\ NoReviewOfSettled
  /\ FreshBookingIds

LEMMA NoneOutside ==
  /\ None \notin Docs /\ None \notin Workers
  /\ None \notin Codes /\ None \notin Days
BY ReceiptAssumption

\* What the closure writes is a booking row, at a booking id.
LEMMA UpsertType ==
  ASSUME TypeOK, NEW d \in Docs, NEW p \in Parsed
  PROVE  /\ Target(d, Matches(p)) \in BookingIds
         /\ Upserted(d, p, Matches(p)) \in Booking
         /\ Upserted(d, p, Matches(p)).receipt = d
<1>1. CASE Matches(p) = {}
  BY <1>1 DEF Target, Upserted, BookingIds, Booking, Parsed
<1>2. CASE Matches(p) # {}
  <2> DEFINE b == CHOOSE b \in Matches(p) : TRUE
  <2>1. b \in Matches(p)
    BY <1>2
  <2>2. b \in BookingIds /\ booking[b] \in Booking
    BY <2>1 DEF Matches, TypeOK
  <2>3. Target(d, Matches(p)) = b
    BY <1>2 DEF Target
  <2>4. Upserted(d, p, Matches(p)) =
          [code    |-> p.code,
           status  |-> IF p.status = "unknown" THEN booking[b].status
                                               ELSE p.status,
           day     |-> IF p.day = None THEN booking[b].day ELSE p.day,
           receipt |-> d]
    BY <1>2 DEF Upserted
  <2>5. QED
    BY <2>2, <2>3, <2>4 DEF Booking, Parsed
<1>3. QED
  BY <1>1, <1>2

LEMMA ReminderType ==
  ASSUME NEW row \in Booking
  PROVE  ReminderFor(row) \in Days \cup {None}
BY DEF ReminderFor, Booking

\* Returning from the call keeps the types of the task variables.
LEMMA ReturnType ==
  ASSUME TypeOK, NEW w \in Workers, pc[w] # "idle", Return(w)
  PROVE  /\ pc'   \in [Workers -> {"idle", "ingest", "lock"} \cup Guarded]
         /\ call' \in [Workers -> Call \cup {None}]
         /\ \A v \in Workers : pc'[v] # "idle" => call'[v] \in Call
         /\ lock' \in [Docs -> Workers \cup {None}]
BY DEF TypeOK, Return

LEMMA StepType ==
  ASSUME TypeOK, NEW w \in Workers, NEW from, NEW to,
         from # "idle", to \in {"lock"} \cup Guarded, Step(w, from, to)
  PROVE  /\ pc'   \in [Workers -> {"idle", "ingest", "lock"} \cup Guarded]
         /\ call' \in [Workers -> Call \cup {None}]
         /\ \A v \in Workers : pc'[v] # "idle" => call'[v] \in Call
BY DEF TypeOK, Step

LEMMA BeginType ==
  ASSUME TypeOK, NEW w \in Workers, NEW d \in Docs, NEW p \in Parsed,
         NEW m \in BOOLEAN, Begin(w, d, p, m)
  PROVE  TypeOK'
BY DEF TypeOK, Begin, Call

LEMMA ApprovedParse ==
  ASSUME NEW p \in Parsed
  PROVE  [p EXCEPT !.review = TRUE] \in Parsed
BY DEF Parsed

LEMMA ParsedType ==
  ASSUME NEW d \in Docs
  PROVE  ParsedOf[d] \in Parsed
BY ReceiptAssumption

LEMMA CallType ==
  ASSUME TypeOK, NEW w \in Workers, pc[w] # "idle"
  PROVE  /\ call[w] \in Call /\ call[w].doc \in Docs
         /\ call[w].parsed \in Parsed
BY DEF TypeOK, Call

-----------------------------------------------------------------------------
(* Types.                                                                  *)

LEMMA TypeInit == Init => TypeOK
BY ReceiptAssumption DEF Init, TypeOK

LEMMA TypeStart ==
  ASSUME TypeOK, NEW w \in Workers, NEW d \in Docs,
         \/ StartSweep(w, d)
         \/ StartImport(w, d)
         \/ \E p \in apply_receipt_overrides(d) : StartApprove(w, d, p)
  PROVE  TypeOK'
<1>1. ASSUME StartSweep(w, d) PROVE TypeOK'
  BY <1>1, ParsedType, BeginType DEF StartSweep
<1>2. ASSUME StartImport(w, d) PROVE TypeOK'
  BY <1>2, ParsedType, BeginType DEF StartImport
<1>3. ASSUME NEW p \in apply_receipt_overrides(d), StartApprove(w, d, p)
      PROVE  TypeOK'
  <2>1. p \in Parsed
    BY <1>3, ParsedType, ReceiptAssumption DEF apply_receipt_overrides
  <2>2. QED
    BY <1>3, <2>1, ApprovedParse, BeginType DEF StartApprove
<1>4. QED
  BY <1>1, <1>2, <1>3

LEMMA TypeIngest ==
  ASSUME TypeOK, NEW w \in Workers, Ingest(w) PROVE TypeOK'
<1>1. pc[w] # "idle"
  BY DEF Ingest, Step
<1>2. Step(w, "ingest", "lock")
  BY DEF Ingest
<1>3. receipt' \in [Docs -> {"absent"} \cup Open \cup Terminal]
  BY <1>1, CallType DEF Ingest, TypeOK, Open, Terminal
<1>4. QED
  BY <1>2, <1>3, StepType DEF Ingest, TypeOK

LEMMA TypeLock ==
  ASSUME TypeOK, NEW w \in Workers, LockAndReread(w) PROVE TypeOK'
<1>1. pc[w] # "idle"
  BY DEF LockAndReread
<1>2. CASE Step(w, "lock", "precheck") /\ lock' = [lock EXCEPT ![call[w].doc] = w]
  <2>1. lock' \in [Docs -> Workers \cup {None}]
    BY <1>2 DEF TypeOK
  <2>2. QED
    BY <1>2, <2>1, StepType DEF LockAndReread, TypeOK, Guarded
<1>3. CASE Return(w)
  BY <1>1, <1>3, ReturnType DEF LockAndReread, TypeOK
<1>4. QED
  BY <1>2, <1>3 DEF LockAndReread

LEMMA TypePreCheck ==
  ASSUME TypeOK, NEW w \in Workers, PreCheck(w) PROVE TypeOK'
<1>1. Step(w, "precheck", "defer") \/ Step(w, "precheck", "commit")
  BY DEF PreCheck
<1>2. QED
  BY <1>1, StepType DEF PreCheck, TypeOK, Guarded

LEMMA TypeApplyTx ==
  ASSUME TypeOK, NEW d \in Docs, NEW p \in Parsed, ApplyTx(d, p, Matches(p))
  PROVE  /\ receipt'  \in [Docs -> {"absent"} \cup Open \cup Terminal]
         /\ booking'  \in [BookingIds -> Booking \cup {None}]
         /\ reminder' \in [BookingIds -> Days \cup {None}]
         /\ review'   \in [Docs -> {"none", "open", "acknowledged"}]
         /\ applied'  \in [Docs -> Nat]
<1>1. Upserted(d, p, Matches(p)) \in Booking /\ Target(d, Matches(p)) \in BookingIds
  BY UpsertType
<1>2. ReminderFor(Upserted(d, p, Matches(p))) \in Days \cup {None}
  BY <1>1, ReminderType
<1>3. /\ booking'  \in [BookingIds -> Booking \cup {None}]
      /\ reminder' \in [BookingIds -> Days \cup {None}]
  BY <1>1, <1>2 DEF ApplyTx, WriteBooking, TypeOK
<1>4. QED
  BY <1>3 DEF ApplyTx, Acknowledge, TypeOK, Terminal

LEMMA TypeCommit ==
  ASSUME TypeOK, NEW w \in Workers, Commit(w) PROVE TypeOK'
<1> DEFINE d == call[w].doc
           p == call[w].parsed
<1>1. pc[w] # "idle" /\ UNCHANGED <<edits, faults>>
  BY DEF Commit
<1>2. d \in Docs /\ p \in Parsed
  BY <1>1, CallType
<1>3. CASE Return(w) /\ UNCHANGED <<receipt, booking, reminder, review, applied>>
  BY <1>1, <1>3, ReturnType DEF TypeOK
<1>4. CASE /\ Step(w, "commit", "defer")
           /\ UNCHANGED <<receipt, booking, reminder, review, applied, lock>>
  BY <1>1, <1>4, StepType DEF TypeOK, Guarded
<1>5. CASE IgnoreTx(d) /\ Return(w)
  BY <1>1, <1>2, <1>5, ReturnType DEF TypeOK, IgnoreTx, Acknowledge, Terminal
<1>6. CASE ApplyTx(d, p, Matches(p)) /\ Return(w)
  BY <1>1, <1>2, <1>6, ReturnType, TypeApplyTx DEF TypeOK
<1>7. QED
  BY <1>3, <1>4, <1>5, <1>6 DEF Commit

LEMMA TypeDefer ==
  ASSUME TypeOK, NEW w \in Workers, Defer(w) PROVE TypeOK'
<1>1. pc[w] # "idle" /\ Return(w)
  BY DEF Defer
<1>2. /\ receipt' \in [Docs -> {"absent"} \cup Open \cup Terminal]
      /\ review'  \in [Docs -> {"none", "open", "acknowledged"}]
  BY DEF Defer, TypeOK, Open
<1>3. QED
  BY <1>1, <1>2, ReturnType DEF Defer, TypeOK

LEMMA TypeFaults ==
  ASSUME TypeOK, Restart \/ \E w \in Workers : Fail(w) PROVE TypeOK'
<1>1. CASE Restart
  BY <1>1, ReceiptAssumption DEF Restart, TypeOK
<1>2. ASSUME NEW w \in Workers, Fail(w) PROVE TypeOK'
  BY <1>2, ReturnType, ReceiptAssumption DEF Fail, TypeOK
<1>3. QED
  BY <1>1, <1>2

LEMMA TypeOwner ==
  ASSUME TypeOK, Owner PROVE TypeOK'
<1>1. ASSUME NEW d \in Docs, Dismiss(d) PROVE TypeOK'
  BY <1>1 DEF Dismiss, Acknowledge, TypeOK, Terminal
<1>2. ASSUME NEW d \in Docs, AcknowledgeReview(d) PROVE TypeOK'
  BY <1>2 DEF AcknowledgeReview, Acknowledge, TypeOK
<1>3. ASSUME NEW b \in BookingIds, NEW s \in {"confirmed", "changed", "cancelled"},
             NEW day \in Days \cup {None}, EditBooking(b, s, day)
      PROVE  TypeOK'
  <2> DEFINE row == [booking[b] EXCEPT !.status = s, !.day = day]
  <2>1. row \in Booking
    BY ZenonT(20), <1>3 DEF EditBooking, TypeOK, Booking
  <2>2. ReminderFor(row) \in Days \cup {None}
    BY <2>1, ReminderType
  <2>3. QED
    BY <1>3, <2>1, <2>2, ReceiptAssumption DEF EditBooking, WriteBooking, TypeOK
<1>4. ASSUME NEW b \in ManualBookings, NEW c \in Codes \cup {None},
             NEW day \in Days \cup {None}, CreateBooking(b, c, day)
      PROVE  TypeOK'
  <2> DEFINE row == [code |-> c, status |-> "confirmed", day |-> day,
                     receipt |-> None]
  <2>1. row \in Booking /\ b \in BookingIds
    BY DEF Booking, BookingIds
  <2>2. ReminderFor(row) \in Days \cup {None}
    BY <2>1, ReminderType
  <2>3. CASE WriteBooking(b, row) /\ UNCHANGED faults
    BY <1>4, <2>1, <2>2, <2>3, ReceiptAssumption
       DEF CreateBooking, WriteBooking, TypeOK
  <2>4. CASE /\ faults < MaxFaults /\ faults' = faults + 1
             /\ booking' = [booking EXCEPT ![b] = row] /\ UNCHANGED reminder
    BY <1>4, <2>1, <2>4, ReceiptAssumption DEF CreateBooking, TypeOK
  <2>5. QED
    BY <1>4, <2>3, <2>4 DEF CreateBooking
<1>5. QED
  BY <1>1, <1>2, <1>3, <1>4 DEF Owner

LEMMA TypeNext == TypeOK /\ [Next]_vars => TypeOK'
<1> SUFFICES ASSUME TypeOK, [Next]_vars PROVE TypeOK'
  OBVIOUS
<1>1. CASE UNCHANGED vars
  BY <1>1 DEF vars, TypeOK
<1>2. CASE Next
  BY <1>2, TypeStart, TypeIngest, TypeLock, TypePreCheck, TypeCommit,
     TypeDefer, TypeFaults, TypeOwner DEF Next, WorkerStep
<1>3. QED
  BY <1>1, <1>2

\* Every variable keeps its type in every behaviour.
THEOREM TypeCorrect == Spec => []TypeOK
<1>1. QED
  BY TypeInit, TypeNext, PTL DEF Spec

-----------------------------------------------------------------------------
(* Safety.                                                                 *)

\* One task's return never touches the lock another task holds.
LEMMA ReturnKeepsLock ==
  ASSUME TypeOK, ReceiptLockHeld, NEW w \in Workers, pc[w] # "idle", Return(w)
  PROVE  ReceiptLockHeld'
BY NoneOutside DEF TypeOK, ReceiptLockHeld, Return, Guarded, Call

\* Inside the guarded section a task keeps the lock it already holds.
LEMMA StepKeepsLock ==
  ASSUME TypeOK, ReceiptLockHeld, NEW w \in Workers, NEW from, NEW to,
         Step(w, from, to), from \in Guarded \/ to \notin Guarded,
         UNCHANGED lock
  PROVE  ReceiptLockHeld'
BY DEF TypeOK, ReceiptLockHeld, Step, Guarded

LEMMA LockInvariant ==
  ASSUME TypeOK, ReceiptLockHeld, [Next]_vars
  PROVE  ReceiptLockHeld'
<1>1. CASE UNCHANGED <<pc, call, lock>>
  BY <1>1 DEF ReceiptLockHeld
<1>2. ASSUME NEW w \in Workers, NEW d \in Docs, NEW p, NEW m, Begin(w, d, p, m)
      PROVE  ReceiptLockHeld'
  BY <1>2 DEF TypeOK, ReceiptLockHeld, Begin, Guarded
<1>3. ASSUME NEW w \in Workers, Ingest(w)
      PROVE  ReceiptLockHeld'
  BY <1>3, StepKeepsLock DEF Ingest, Guarded
<1>4. ASSUME NEW w \in Workers, LockAndReread(w)
      PROVE  ReceiptLockHeld'
  <2>1. CASE Return(w)
    BY <1>4, <2>1, ReturnKeepsLock DEF LockAndReread
  <2>2. CASE /\ lock[call[w].doc] = None
             /\ Step(w, "lock", "precheck")
             /\ lock' = [lock EXCEPT ![call[w].doc] = w]
    <3>1. call[w].doc \in Docs
      BY <2>2, CallType DEF Step
    <3>2. \A v \in Workers : pc[v] \in Guarded => call[v].doc # call[w].doc
      BY <2>2, NoneOutside DEF ReceiptLockHeld, Guarded
    <3>3. QED
      BY <2>2, <3>1, <3>2 DEF TypeOK, ReceiptLockHeld, Step, Guarded
  <2>3. QED
    BY <1>4, <2>1, <2>2 DEF LockAndReread
<1>5. ASSUME NEW w \in Workers, PreCheck(w)
      PROVE  ReceiptLockHeld'
  BY <1>5, StepKeepsLock DEF PreCheck, Guarded
<1>6. ASSUME NEW w \in Workers, Commit(w)
      PROVE  ReceiptLockHeld'
  BY <1>6, StepKeepsLock, ReturnKeepsLock DEF Commit, Guarded
<1>7. ASSUME NEW w \in Workers, Defer(w) \/ Fail(w)
      PROVE  ReceiptLockHeld'
  BY <1>7, ReturnKeepsLock DEF Defer, Fail
<1>8. CASE Restart
  BY <1>8 DEF ReceiptLockHeld, Restart, Guarded
<1>9. CASE Owner
  BY <1>1, <1>9 DEF Owner, Dismiss, AcknowledgeReview, EditBooking, CreateBooking
<1>10. QED
  BY <1>1, <1>2, <1>3, <1>4, <1>5, <1>6, <1>7, <1>8, <1>9
     DEF Next, WorkerStep, vars, StartSweep, StartImport, StartApprove

\* The invariants about rows, as one formula.
RowInv ==
  /\ ProvenanceProcessed
  /\ AppliedAtMostOnce
  /\ NoReviewOfSettled
  /\ FreshBookingIds

LEMMA RowsUnchanged ==
  ASSUME RowInv, UNCHANGED <<receipt, booking, review, applied>>
  PROVE  RowInv'
BY DEF RowInv, ProvenanceProcessed, AppliedAtMostOnce, NoReviewOfSettled,
       FreshBookingIds

\* A receipt may move between the statuses that are not terminal.
LEMMA RowsOpenStep ==
  ASSUME TypeOK, RowInv, NEW d \in Docs, NEW s \in Open,
         receipt[d] \notin Terminal, receipt' = [receipt EXCEPT ![d] = s],
         NEW a \in {"none", "open", "acknowledged"},
         review' = [review EXCEPT ![d] = a],
         UNCHANGED <<booking, applied>>
  PROVE  RowInv'
<1>1. receipt[d] # "processed"
  BY DEF Terminal
<1>2. ProvenanceProcessed'
  BY <1>1 DEF RowInv, ProvenanceProcessed, TypeOK, Booking
<1>3. AppliedAtMostOnce'
  BY <1>1 DEF RowInv, AppliedAtMostOnce, TypeOK
<1>4. NoReviewOfSettled'
  BY DEF RowInv, NoReviewOfSettled, TypeOK
<1>5. FreshBookingIds'
  BY <1>1 DEF RowInv, FreshBookingIds, TypeOK
<1>6. QED
  BY <1>2, <1>3, <1>4, <1>5 DEF RowInv

\* An open receipt becomes terminal; its review alert is acknowledged.
LEMMA RowsSettle ==
  ASSUME TypeOK, RowInv, NEW d \in Docs, NEW s \in Terminal,
         receipt[d] \in Open, receipt' = [receipt EXCEPT ![d] = s],
         Acknowledge(d), UNCHANGED <<booking, applied>>
  PROVE  RowInv'
<1>1. receipt[d] # "processed"
  BY DEF Open
<1>2. ProvenanceProcessed'
  BY <1>1 DEF RowInv, ProvenanceProcessed, TypeOK, Booking
<1>3. AppliedAtMostOnce'
  BY <1>1 DEF RowInv, AppliedAtMostOnce, TypeOK
<1>4. NoReviewOfSettled'
  BY DEF RowInv, NoReviewOfSettled, TypeOK, Acknowledge
<1>5. FreshBookingIds'
  BY <1>1 DEF RowInv, FreshBookingIds, TypeOK
<1>6. QED
  BY <1>2, <1>3, <1>4, <1>5 DEF RowInv

LEMMA RowsApply ==
  ASSUME TypeOK, RowInv, NEW d \in Docs, NEW p \in Parsed,
         receipt[d] \in Open, ApplyTx(d, p, Matches(p))
  PROVE  RowInv'
<1> DEFINE t   == Target(d, Matches(p))
           row == Upserted(d, p, Matches(p))
<1>1. receipt[d] # "processed"
  BY DEF Open
<1>2. t \in BookingIds /\ row.receipt = d
  BY UpsertType
<1>3. /\ receipt' = [receipt EXCEPT ![d] = "processed"]
      /\ booking' = [booking EXCEPT ![t] = row]
      /\ applied' = [applied EXCEPT ![d] = @ + 1]
      /\ Acknowledge(d)
  BY DEF ApplyTx, WriteBooking
<1> HIDE DEF t, row
<1>4. ProvenanceProcessed'
  <2> SUFFICES ASSUME NEW b \in BookingIds, booking'[b] # None,
                      booking'[b].receipt # None
               PROVE  receipt'[booking'[b].receipt] = "processed"
    BY DEF ProvenanceProcessed
  <2>1. CASE b = t
    BY <1>2, <1>3, <2>1 DEF TypeOK
  <2>2. CASE b # t
    <3>1. booking'[b] = booking[b] /\ booking[b].receipt \in Docs
      BY <1>3, <2>2 DEF TypeOK, Booking
    <3>2. QED
      BY <1>3, <3>1 DEF RowInv, ProvenanceProcessed, TypeOK
  <2>3. QED
    BY <2>1, <2>2
<1>5. AppliedAtMostOnce'
  BY <1>1, <1>3 DEF RowInv, AppliedAtMostOnce, TypeOK
<1>6. NoReviewOfSettled'
  BY <1>3 DEF RowInv, NoReviewOfSettled, TypeOK, Acknowledge
<1>7. FreshBookingIds'
  <2>1. t = d \/ booking[t] # None
    BY <1>2 DEF t, Target, Matches
  <2>2. QED
    BY <1>2, <1>3, <2>1 DEF RowInv, FreshBookingIds, TypeOK
<1>8. QED
  BY <1>4, <1>5, <1>6, <1>7 DEF RowInv

\* Owner edits keep the provenance of a booking; a typed-in one has none.
LEMMA RowsEdit ==
  ASSUME TypeOK, RowInv, UNCHANGED <<receipt, review, applied>>,
         NEW b \in BookingIds, NEW row, booking' = [booking EXCEPT ![b] = row],
         \/ b \in ManualBookings /\ row.receipt = None
         \/ booking[b] # None /\ row.receipt = booking[b].receipt
  PROVE  RowInv'
<1>1. ProvenanceProcessed'
  BY DEF RowInv, ProvenanceProcessed, TypeOK
<1>2. FreshBookingIds'
  BY ReceiptAssumption DEF RowInv, FreshBookingIds, TypeOK
<1>3. QED
  BY <1>1, <1>2 DEF RowInv, AppliedAtMostOnce, NoReviewOfSettled

LEMMA RowInvariant ==
  ASSUME TypeOK, RowInv, [Next]_vars
  PROVE  RowInv'
<1>1. CASE UNCHANGED <<receipt, booking, review, applied>>
  BY <1>1, RowsUnchanged
<1>2. ASSUME NEW w \in Workers, Ingest(w)
      PROVE  RowInv'
  <2> DEFINE d == call[w].doc
  <2>1. d \in Docs
    BY <1>2, CallType DEF Ingest, Step
  <2>2. CASE receipt[d] \in Terminal
    <3>1. receipt' = receipt
      BY <1>2, <2>1, <2>2 DEF Ingest, TypeOK, Terminal
    <3>2. QED
      BY <1>2, <3>1, RowsUnchanged DEF Ingest
  <2>3. CASE receipt[d] \notin Terminal
    <3>1. \E s \in Open : receipt' = [receipt EXCEPT ![d] = s]
      BY <1>2, <2>1, <2>3 DEF Ingest, TypeOK, Open, Terminal
    <3>2. review' = [review EXCEPT ![d] = review[d]]
          /\ review[d] \in {"none", "open", "acknowledged"}
      BY <1>2, <2>1 DEF Ingest, TypeOK
    <3>3. QED
      BY <1>2, <2>1, <2>3, <3>1, <3>2, RowsOpenStep DEF Ingest
  <2>4. QED
    BY <2>2, <2>3
<1>3. ASSUME NEW w \in Workers, Commit(w)
      PROVE  RowInv'
  <2> DEFINE d == call[w].doc
             p == call[w].parsed
  <2>1. d \in Docs /\ p \in Parsed
    BY <1>3, CallType DEF Commit
  <2>2. CASE UNCHANGED <<receipt, booking, reminder, review, applied>>
    BY <2>2, RowsUnchanged
  <2>3. CASE receipt[d] \in Open /\ IgnoreTx(d)
    BY <2>1, <2>3, RowsSettle DEF IgnoreTx, Terminal
  <2>4. CASE receipt[d] \in Open /\ ApplyTx(d, p, Matches(p))
    BY <2>1, <2>4, RowsApply
  <2>5. QED
    BY <1>3, <2>2, <2>3, <2>4 DEF Commit
<1>4. ASSUME NEW w \in Workers, Defer(w)
      PROVE  RowInv'
  <2> DEFINE d == call[w].doc
  <2>1. d \in Docs
    BY <1>4, CallType DEF Defer
  <2>2. CASE receipt[d] \notin Open
    BY <1>4, <2>2, RowsUnchanged DEF Defer
  <2>3. CASE receipt[d] \in Open
    <3>1. receipt' = [receipt EXCEPT ![d] = "quarantined"]
      BY <1>4, <2>3 DEF Defer
    <3>2. \E a \in {"none", "open", "acknowledged"} :
            review' = [review EXCEPT ![d] = a]
      BY <1>4, <2>1, <2>3 DEF Defer, TypeOK
    <3>3. receipt[d] \notin Terminal /\ "quarantined" \in Open
      BY <2>3 DEF Open, Terminal
    <3>4. QED
      BY <1>4, <2>1, <3>1, <3>2, <3>3, RowsOpenStep DEF Defer
  <2>4. QED
    BY <2>2, <2>3
<1>5. ASSUME NEW d \in Docs, Dismiss(d)
      PROVE  RowInv'
  BY <1>5, RowsSettle DEF Dismiss, Terminal
<1>6. ASSUME NEW d \in Docs, AcknowledgeReview(d)
      PROVE  RowInv'
  BY <1>6 DEF AcknowledgeReview, Acknowledge, RowInv, ProvenanceProcessed,
              AppliedAtMostOnce, NoReviewOfSettled, FreshBookingIds, TypeOK
<1>7. ASSUME NEW b \in BookingIds, NEW s, NEW day, EditBooking(b, s, day)
      PROVE  RowInv'
  <2> DEFINE row == [booking[b] EXCEPT !.status = s, !.day = day]
  <2>1. booking[b] \in Booking
    BY <1>7 DEF EditBooking, TypeOK
  <2>2. row.receipt = booking[b].receipt
    BY <2>1 DEF Booking
  <2>3. QED
    BY <1>7, <2>2, RowsEdit DEF EditBooking, WriteBooking
<1>8. ASSUME NEW b \in ManualBookings, NEW c, NEW day, CreateBooking(b, c, day)
      PROVE  RowInv'
  <2> DEFINE row == [code |-> c, status |-> "confirmed", day |-> day,
                     receipt |-> None]
  <2>1. booking' = [booking EXCEPT ![b] = row] /\ UNCHANGED <<receipt, review, applied>>
    BY <1>8 DEF CreateBooking, WriteBooking
  <2>2. QED
    BY <2>1, RowsEdit DEF BookingIds
<1>9. CASE Owner
  BY <1>5, <1>6, <1>7, <1>8, <1>9 DEF Owner
<1>10. QED
  BY <1>1, <1>2, <1>3, <1>4, <1>9
     DEF Next, WorkerStep, vars, StartSweep, StartImport, StartApprove, Begin,
         LockAndReread, PreCheck, Fail, Restart

LEMMA Inductive == Spec => []IInv
<1>1. Init => IInv
  <2> SUFFICES ASSUME Init PROVE IInv
    OBVIOUS
  <2>1. TypeOK
    BY TypeInit
  <2>2. QED
    BY <2>1 DEF Init, IInv, ReceiptLockHeld, ProvenanceProcessed,
                AppliedAtMostOnce, NoReviewOfSettled, FreshBookingIds,
                BookingIds
<1>2. IInv /\ [Next]_vars => IInv'
  BY TypeNext, LockInvariant, RowInvariant DEF IInv, RowInv
<1>3. QED
  BY <1>1, <1>2, PTL DEF Spec

\* No task decides about a receipt without holding that receipt's lock.
THEOREM LockDiscipline == Spec => []ReceiptLockHeld
BY Inductive, PTL DEF IInv

\* A booking's provenance is always a processed receipt: an open or dismissed
\* receipt leaves no trace in the itinerary, whatever races with it.
THEOREM NoTraceOfUnsettled == Spec => []ProvenanceProcessed
BY Inductive, PTL DEF IInv

\* No receipt is ever written into the itinerary twice.
THEOREM AppliedOnce == Spec => []AppliedAtMostOnce
BY Inductive, PTL DEF IInv

\* No review is asked for a settled receipt.
THEOREM ReviewsAreOpen == Spec => []NoReviewOfSettled
BY Inductive, PTL DEF IInv

-----------------------------------------------------------------------------
(* What a step may never do.                                               *)

\* A settled receipt is never reopened or settled differently.
THEOREM SettledIsFinal == Spec => SettledStaysSettled
<1>1. ASSUME TypeOK, [Next]_vars, NEW d \in Docs, receipt[d] \in Terminal
      PROVE  receipt'[d] = receipt[d]
  <2>1. receipt[d] \notin Open
    BY <1>1 DEF Open, Terminal
  <2>2. CASE UNCHANGED receipt
    BY <2>2
  <2>3. ASSUME NEW w \in Workers, Ingest(w)
        PROVE  receipt'[d] = receipt[d]
    BY <1>1, <2>3 DEF Ingest, TypeOK, Terminal
  <2>4. ASSUME NEW w \in Workers, Commit(w)
        PROVE  receipt'[d] = receipt[d]
    BY <1>1, <2>1, <2>4 DEF Commit, IgnoreTx, ApplyTx, TypeOK
  <2>5. ASSUME NEW w \in Workers, Defer(w)
        PROVE  receipt'[d] = receipt[d]
    BY <1>1, <2>1, <2>5 DEF Defer, TypeOK
  <2>6. CASE Owner
    BY <1>1, <2>1, <2>6 DEF Owner, Dismiss, AcknowledgeReview, EditBooking,
                            CreateBooking, TypeOK
  <2>7. QED
    BY <1>1, <2>2, <2>3, <2>4, <2>5, <2>6
       DEF Next, WorkerStep, vars, StartSweep, StartImport, StartApprove,
           Begin, LockAndReread, PreCheck, Fail, Restart
<1>2. TypeOK /\ [Next]_vars =>
        [\A d \in Docs : receipt[d] \in Terminal => receipt'[d] = receipt[d]]_vars
  BY <1>1
<1>3. QED
  BY <1>2, TypeCorrect, PTL DEF Spec, SettledStaysSettled

\* The step formula of NoAutomaticRegression.
AmendsForward ==
  \A b \in BookingIds :
    (booking[b] # None /\ booking'[b] # booking[b]
       /\ booking'[b].receipt # booking[b].receipt) =>
      LET d   == booking'[b].receipt
          old == booking[b].receipt
      IN  \E w \in Workers :
            /\ lock[d] = w /\ call[w].doc = d
            /\ \/ call[w].manual
               \/ /\ old # None
                  /\ SourceOf[d].account = SourceOf[old].account
                  /\ NewerSource(d, old)
                  /\ SameMailbox(d, old)

\* What the transaction writes when the owner did not ask for it.
LEMMA ApplyForward ==
  ASSUME IInv, NEW w \in Workers, pc[w] = "commit",
         receipt[call[w].doc] \in Open,
         Decision(call[w].doc, call[w].parsed, call[w].manual,
                  Matches(call[w].parsed)) = "apply",
         ApplyTx(call[w].doc, call[w].parsed, Matches(call[w].parsed))
  PROVE  AmendsForward
<1> DEFINE d   == call[w].doc
           p   == call[w].parsed
           ids == Matches(p)
           t   == Target(d, ids)
           row == Upserted(d, p, ids)
<1>1. d \in Docs /\ p \in Parsed
  BY CallType DEF IInv
<1>2. t \in BookingIds /\ row.receipt = d
  BY <1>1, UpsertType DEF IInv
<1>3. booking' = [booking EXCEPT ![t] = row]
  BY DEF ApplyTx, WriteBooking
<1>4. lock[d] = w
  BY DEF IInv, ReceiptLockHeld, Guarded
<1>5. SUFFICES ASSUME NEW b \in BookingIds, booking[b] # None,
                      booking'[b] # booking[b],
                      booking'[b].receipt # booking[b].receipt,
                      ~call[w].manual
               PROVE  /\ booking'[b].receipt = d
                      /\ booking[b].receipt # None
                      /\ SourceOf[d].account = SourceOf[booking[b].receipt].account
                      /\ NewerSource(d, booking[b].receipt)
                      /\ SameMailbox(d, booking[b].receipt)
  <2>1. \A b \in BookingIds : booking'[b] # booking[b] => booking'[b].receipt = d
    BY <1>2, <1>3 DEF IInv, TypeOK
  <2>2. QED
    BY <1>4, <2>1 DEF AmendsForward
<1>6. b = t /\ booking'[b] = row
  BY <1>2, <1>3, <1>5 DEF IInv, TypeOK
<1>7. b \in ids
  <2>1. CASE ids = {}
    <3>1. b = d
      BY <1>6, <2>1 DEF Target
    <3>2. receipt[d] = "processed"
      BY <1>1, <1>5, <3>1 DEF IInv, FreshBookingIds
    <3>3. QED
      BY <3>2 DEF Open
  <2>2. CASE ids # {}
    BY <1>6, <2>2 DEF Target
  <2>3. QED
    BY <2>1, <2>2
<1>8. MayAmend(d, booking[b], p)
  BY <1>5, <1>7 DEF Decision
<1>9. d # booking[b].receipt
  BY <1>2, <1>5, <1>6
<1>10. QED
  BY <1>2, <1>5, <1>6, <1>8, <1>9 DEF MayAmend, IsReplay, SameAccount

\* No automatic step moves a booking to an older, foreign or unauthenticated
\* message, whatever other tasks and the owner did since it first looked.
THEOREM AutomaticAmendmentsMoveForward == Spec => NoAutomaticRegression
<1>1. ASSUME IInv, [Next]_vars
      PROVE  [AmendsForward]_vars
  <2>1. CASE UNCHANGED booking
    BY <2>1 DEF AmendsForward
  <2>2. ASSUME NEW w \in Workers, Commit(w)
        PROVE  AmendsForward
    <3>1. CASE UNCHANGED booking
      BY <3>1 DEF AmendsForward
    <3>2. CASE booking' # booking
      BY <1>1, <2>2, <3>2, ApplyForward DEF Commit, IgnoreTx
    <3>3. QED
      BY <3>1, <3>2
  <2>3. ASSUME NEW b \in BookingIds, NEW s, NEW day, EditBooking(b, s, day)
        PROVE  AmendsForward
    <3> DEFINE row == [booking[b] EXCEPT !.status = s, !.day = day]
    <3>1. booking[b] \in Booking /\ booking' = [booking EXCEPT ![b] = row]
      BY <1>1, <2>3 DEF IInv, TypeOK, EditBooking, WriteBooking
    <3>2. row.receipt = booking[b].receipt
      BY <3>1 DEF Booking
    <3>3. QED
      BY <1>1, <3>1, <3>2 DEF AmendsForward, IInv, TypeOK
  <2>4. ASSUME NEW b \in ManualBookings, NEW c, NEW day, CreateBooking(b, c, day)
        PROVE  AmendsForward
    <3>1. booking[b] = None /\ \A x \in BookingIds \ {b} : booking'[x] = booking[x]
      BY <1>1, <2>4 DEF CreateBooking, WriteBooking, IInv, TypeOK
    <3>2. QED
      BY <3>1 DEF AmendsForward
  <2>5. QED
    BY <1>1, <2>1, <2>2, <2>3, <2>4
       DEF Next, WorkerStep, Owner, vars, StartSweep, StartImport, StartApprove,
           Begin, Ingest, LockAndReread, PreCheck, Defer, Fail, Restart,
           Dismiss, AcknowledgeReview
<1>2. QED
  BY <1>1, Inductive, PTL DEF Spec, NoAutomaticRegression, AmendsForward

\* Each receipt is decided by one task at a time, leaves its mark on the
\* itinerary once, by being processed, and is not asked about after.
THEOREM ReceiptsAreHonest == Spec => []ReceiptsHonest
BY Inductive, PTL DEF IInv, ReceiptsHonest

\* No step reopens a settled receipt or moves a booking back to older mail.
THEOREM NothingEverGoesBack == Spec => NothingGoesBack
BY SettledIsFinal, AutomaticAmendmentsMoveForward, PTL DEF NothingGoesBack

-----------------------------------------------------------------------------
(* Reminders.  The invariant is its own strengthening: a booking row and   *)
(* its reminder are written together, except by a hand-made booking whose  *)
(* second write failed, which names no receipt.                            *)

LEMMA RemindersWritten ==
  ASSUME TypeOK, RemindersFollowBookings, NEW b \in BookingIds, NEW row, WriteBooking(b, row)
  PROVE  RemindersFollowBookings'
<1>1. booking' = [booking EXCEPT ![b] = row] /\ reminder' = [reminder EXCEPT ![b] = ReminderFor(row)]
  BY DEF WriteBooking
<1>2. booking'[b] = row /\ reminder'[b] = ReminderFor(row)
  BY <1>1 DEF TypeOK
<1>3. \A c \in BookingIds : c # b => booking'[c] = booking[c] /\ reminder'[c] = reminder[c]
  BY <1>1 DEF TypeOK
<1>4. ASSUME NEW c \in BookingIds, booking'[c] # None, booking'[c].receipt # None
      PROVE  reminder'[c] = ReminderFor(booking'[c])
  <2>1. CASE c = b
    BY <1>2, <2>1
  <2>2. CASE c # b
    BY <1>3, <1>4, <2>2 DEF RemindersFollowBookings
  <2>3. QED
    BY <2>1, <2>2
<1>5. QED
  BY <1>4 DEF RemindersFollowBookings, ReminderFor

LEMMA RemindersStep ==
  ASSUME TypeOK, RemindersFollowBookings, [Next]_vars
  PROVE  RemindersFollowBookings'
<1>1. CASE UNCHANGED <<booking, reminder>>
  BY <1>1 DEF RemindersFollowBookings, ReminderFor
<1>2. ASSUME NEW w \in Workers, Commit(w)
      PROVE  RemindersFollowBookings'
  <2> DEFINE d == call[w].doc
             p == call[w].parsed
  <2>1. d \in Docs /\ p \in Parsed
    BY <1>2, CallType DEF Commit
  <2>2. CASE ApplyTx(d, p, Matches(p))
    BY <2>1, <2>2, UpsertType, RemindersWritten DEF ApplyTx
  <2>3. CASE ~ApplyTx(d, p, Matches(p))
    BY <1>1, <1>2, <2>3 DEF Commit, IgnoreTx
  <2>4. QED
    BY <2>2, <2>3
<1>3. ASSUME NEW b \in BookingIds, NEW s, NEW day, EditBooking(b, s, day)
      PROVE  RemindersFollowBookings'
  BY <1>3, RemindersWritten DEF EditBooking
<1>4. ASSUME NEW b \in ManualBookings, NEW c, NEW day, CreateBooking(b, c, day)
      PROVE  RemindersFollowBookings'
  <2>1. PICK row : row = [code |-> c, status |-> "confirmed", day |-> day, receipt |-> None]
    OBVIOUS
  <2>2. CASE WriteBooking(b, row)
    BY <2>2, RemindersWritten DEF BookingIds
  <2>3. CASE booking' = [booking EXCEPT ![b] = row] /\ UNCHANGED reminder
    <3>1. b \in BookingIds /\ row.receipt = None
      BY <2>1 DEF BookingIds
    <3>2. booking'[b] = row /\ \A e \in BookingIds : e # b => booking'[e] = booking[e]
      BY <2>3, <3>1 DEF TypeOK
    <3>3. ASSUME NEW e \in BookingIds, booking'[e] # None, booking'[e].receipt # None
          PROVE  reminder'[e] = ReminderFor(booking'[e])
      <4>1. e # b
        BY <3>1, <3>2, <3>3
      <4>2. QED
        BY <2>3, <3>2, <3>3, <4>1 DEF RemindersFollowBookings
    <3>4. QED
      BY <3>3 DEF RemindersFollowBookings, ReminderFor
  <2>4. QED
    BY <1>4, <2>1, <2>2, <2>3 DEF CreateBooking
<1>5. CASE Owner
  BY <1>1, <1>3, <1>4, <1>5 DEF Owner, Dismiss, AcknowledgeReview
<1>6. QED
  BY <1>1, <1>2, <1>5
     DEF Next, WorkerStep, vars, StartSweep, StartImport, StartApprove, Begin, Ingest,
         LockAndReread, PreCheck, Defer, Fail, Restart

\* A booking that a receipt wrote has exactly the reminder its date and status
\* call for, after every amendment, edit and cancellation.
THEOREM RemindersFollow == Spec => []RemindersFollowBookings
<1>1. Init => RemindersFollowBookings
  BY DEF Init, RemindersFollowBookings
<1>2. IInv => TypeOK
  BY DEF IInv
<1>3. QED
  BY <1>1, <1>2, RemindersStep, Inductive, PTL DEF Spec
=============================================================================
