# A formal model of Travel

TLA+ models, TLC configurations and TLAPS proofs for the Travel service: a
household travel organiser that reads receipts from mailboxes, keeps trips and
bookings in SQLite, and reminds the family of them. Paths are relative to
`src/`; `handlers/travel.rs` is `crates/dashboard/src/handlers/travel.rs` and
`store/travel.rs` is `crates/store/src/travel.rs`.

    tlc -config Receipts.cfg MCTravelReceipts.tla     # one run
    tlapm TravelReceiptsProofs.tla                    # its proofs

## 1. The system

One `travel serve` process holds one SQLite database behind an async mutex
(`state.rs`), an HTTP API, and a background worker that every 60 seconds runs,
in this order and each error only logged, `push::deliver`, `oauth::synchronize`
and `handlers::travel::background_sync` (`crates/travel/src/main.rs:99`). HTTP
handlers run concurrently with it. The database mutex is held for one statement
or one transaction, never across an `await` of the network, so everything that
takes several steps interleaves with everything else. A restart loses the
in-memory state (keyed receipt locks, the IMAP pool, browser hand-off codes) and
keeps the rows. Two processes may share one database file.

    IMAP folder ──sync_mailbox──┐                         ┌── approve / dismiss
    Gmail API ───synchronize────┼─> persist_parsed_document┤   import (owner)
    upload ──────documents──────┘      │ receipt row        └── edit_booking
                                       │ keyed lock
                                       │ one transaction: booking, segment,
                                       │ trip bounds, reminder, receipt status
                                       v
                     alerts ──trigger_due_alerts──> push outbox ──> devices
                                       │
                  shares, calendar feeds, household members, Mac companion

### Inventory

| Component | State | Operations | What is hard, and what makes it correct |
|---|---|---|---|
| Receipts and itinerary (`handlers/travel.rs`, `store/travel.rs`) | receipts, bookings, segments, trips, alerts; keyed locks | ingest, approve, dismiss, import, amend | decisions on a first read, repeated in a transaction; replays; messages out of order. A message is applied once, never moves a booking back, settled stays settled, everything open reaches the owner |
| Mailbox sweep (`sync_mailbox`) | cursor, failure rows, IMAP pool | sweep, full rescan | partial failure, outages, overlap, new UID epochs. The cursor skips nothing; poison messages do not block for ever |
| Gmail API poll (`oauth.rs`) | pending OAuth states, accounts with a page token, seen ids | start, callback, synchronize | an error aborts the poll of every account; page token against new mail. Each OAuth state is used once; every message is seen in the end |
| Push outbox (`push.rs`) | devices, jobs | subscribe, remove, test, deliver | leases, retries, stale batches, two processes. No double send, bounded sends, nothing after withdrawal |
| Household access (`household.rs`, `browser_handoff.rs`, `auth.rs`, `csrf.rs`) | members, sessions, in-memory codes | invite, enrol, revoke, edit, toggle, hand-off | single use under races, revocation against live sessions, expiry |
| Owner workspace (`workspace.rs`, handlers) | trips, bookings, tasks, links | edit, move, complete, search, project | optimistic concurrency on `updated_at`; multi-row moves |
| Shares and calendar feeds (`store/travel.rs` 1671-1872) | share links (hashes) | create, revoke, look up, public toggle | revocation and expiry at the moment of use |
| Mac companion (`mac/Sources`) | native items, ledger of what was written | pull projection, push completion | edits on both sides, conflicts, restarts half-way |
| Parser (`travel_parser.rs`), learned parsers (`learning.rs`), intelligence (`intelligence.rs`) | parser versions, fixtures, daily call count | classify, parse, promote, restore, propose | thresholds and ambiguity; daily limit under concurrent calls |
| Documents (`documents.rs`) | content-addressed files | preserve, import, download | concurrent writers of one hash |
| Backup, restore, legacy import (`backup.rs`, `migration.rs`) | directory snapshots | export, restore, import | never overwriting, all or nothing |
| Credentials (`store/credential_store.rs`, `accounts.rs`, `oauth.rs`) | credential file, sealed passwords and tokens | unlock, seal, rekey, consent | crashes of a rekey, requests beside it. No secret is left under a key nobody has |
| Address book (`store/address_book.rs`, `contacts.rs`) | contacts, a watermark per account | curate, reconcile in chunks, rebuild, parse headers, suggest | chunks over a cache that is rewritten; quoting; spellings. Every mention counted once, every recipient kept, the best rows offered |
| Events (`store/events.rs`, `event_deliveries.rs`, `email/event_delivery.rs`) | events, routes, deliveries | ingest, route, deliver, retry, reset | answers lost to crashes, operators beside the executor. Every event is tried, a bounded number of times |
| Draft life cycle (`store/drafts.rs`) | draft rows with status, revision, schedule, approval, declaration and claim token | edit, approve, queue, hold, discard; claim, mark sent, park, release, sync | every caller acts on a stale reading; claims are repeated, lost and stranded. A draft leaves at most once, as it was read, under an approval of that text |
| Outbound gate (`email/outbound.rs`, `attribution*.rs`, `agent_policy.rs`, `send_policy.rs`) | agent rows, a draft's declaration and attempts | decide a send's mode, attribute, ask the governor, retry, park | verdicts about an earlier revision; a governor that is gone. Nothing leaves unearned |
| Sent copies (`email/sent_proof.rs`, `folders.rs`, `draft_cleanup.rs`) | detected folders, proofs | look up, append, prove, clean up | late provider copies, lost answers. One copy at most from us, no other's mail removed |
| Threading (`email/threading.rs`, `store/threads.rs`) | threads, watermark and UIDVALIDITY per folder | scan, rebuild | renumbered folders, unreadable messages |
| Bulk mail, reading, archives (`email/bulk.rs`, `imap.rs`, `migrate.rs`, `email/backup.rs`) | restore sidecar | move, copy, delete, read in batches, restore, verify | commands that fail half-way, other sessions, torn lines. Nothing is lost, nothing appended twice |
| Evidence (`email/evidence.rs`) | bundle directories | expand threads, write, verify, export attachments | limits, names that collide, damage |
| Rules (`email/rules.rs`, `sieve.rs`, `managesieve.rs`) | rules, the script on the server | evaluate, export, publish | two evaluators of one rule; a publication whose answer is lost |
| Web client (`crates/dashboard/web`) | view state | calls the API | no authority of its own |

## 2. Modules

| Module | Models |
|---|---|
| `TravelReceipts` | `persist_parsed_document` with all its callers, the owner's actions, failures and restarts |
| `TravelReceiptsProofs` | its invariants proved |
| `MailboxSync` | `sync_mailbox`, the durable cursor, the retry budget and the quarantine |
| `MailboxSyncProofs` | its invariants and step properties proved |
| `PushOutbox` | `deliver`, the device operations, leases and the clock |
| `PushOutboxProofs` | lease exclusion, bounded sends, finality and withdrawal proved |
| `CompanionSync` | the Mac companion's `sync` and `enable`, the server's `complete`, edits on both sides |
| `CompanionProofs` | one mirror, nothing lost on either side, proved |
| `DraftLifecycle` | one draft of `store/drafts.rs`, its editors, approvers, senders and syncs |
| `Outgoing` | what a draft promises, the specification `DraftLifecycle` implements |
| `DraftLifecycleProofs` | its invariants and the refinement proved |
| `HouseholdAccess` | members, sessions, hand-offs and shares; requests between authorization and handler |
| `HouseholdAccessProofs` | single use, revocation and entitlement proved, what `Workspace` shows the family, and where `TripMatching` files |
| `Workspace` | booking entry, edits and moves row by row, and the family's feed and reminders |
| `TripMatching` | the trip a reservation is filed under, its bounds, amendments, `import_snapshot` |
| `Credentials` | the credential file, its master keys, `rekey`, what is sealed, Google's consent |
| `GmailPoll` | `oauth::synchronize`: newest page, backfill page, seen set |
| `TravelParser` | `parse_travel_document`: scores, labels, structured data, verdict |
| `LearnedParsers` | `learning.rs` and `intelligence.rs`: proposals, fixtures, promotion, rollback, budget |
| `Snapshots` | `documents::preserve`, `backup::export`, `backup::restore` |
| `AddressHistory`, `AddressLists` | contacts counted from cached mail; headers taken apart, suggestions |
| `EventDelivery` | events, routes, deliveries and their executors |
| `ThreadScan` | a folder scan above its watermark, conversations, rebuild |
| `FolderReads` | a folder read in batches or by its newest messages, while others deliver and expunge |
| `MailMoves` | move, copy and delete as IMAP commands, one message or in bulk |
| `MailRestore` | `email/backup.rs`: archive, plan, sidecar, rerun, audit |
| `GovernedSend` | policies, attribution, the governor, retries and parking of a send |
| `SentCopy` | provider and folder detection, the Sent copy and its proof, removal of the draft's copy |
| `EvidenceBundle` | thread expansion, bundle writing and verification, attachment export |
| `MailRules` | evaluation of rules here and, exported to Sieve, on the server |
| `MailProofs` | proofs about `Credentials`, `GmailPoll`, `GovernedSend`, `MailMoves`, `EventDelivery`, `MailRules`, `TravelParser`, `LearnedParsers`, `AddressHistory` |
| `Backups` | what `FolderReads`, `MailRestore` and `Snapshots` promise together |
| `FolderProofs` | proofs about `ThreadScan`, `SentCopy`, `EvidenceBundle` and the three of `Backups` |
| `FamilyBase`, `Rows` | constants the modules share: trips, the absent row |
| `MCFamily`, `MCMail` | the family's and the mail product's modules side by side (below) |
| other `MC*` | instances of these for TLC: documents, mailboxes, devices, symmetry |

### TravelReceipts

State: `receipt` is `travel_receipts.status`; `booking` the booking rows with
the receipt that last wrote them; `reminder` and `review` the two kinds of alert
rows that matter; `lock` the keyed lock table of `state.rs`; `pc` and `call`
each task inside the function. One action per atomic section of the function:
`Ingest` (insert or replay, its own transaction), `LockAndReread`, `PreCheck`
(identity, amendment decision and review gate on a first read), `Commit` (the
transaction, which decides again), `Defer` (quarantine with review alert).
`Fail` and `Restart` may happen anywhere. The decision operators (`Matches`,
`Decision`, `MustWait`) translate `automatic_amendment_decision_on` and the gate
condition by condition, on documents that carry a source position and a parsed
status, day and confirmation code.

Abstractions: trips are left out (they group bookings and lend them dates when a
message has none), a booking's end defaults to its start, provider and
confirmation code are one value, the booking status `pending` behaves as any
other status and is left out, `unknown` stands for a status the parser did not
find. Store functions no handler calls (`delete_trip`, `delete_travel_booking`,
`delete_travel_receipt`, `release_travel_receipt`,
`mark_travel_receipt_processed`) are not actions. The keyed lock is one
process's: two processes would each have their own.

### MailboxSync

One action per section of `sync_mailbox` between two acquisitions of the
database: `Begin` (EXAMINE, handled sources), `ReadCursor`, `List`, then per
message `Read`, `PersistFails` or `Unreadable` (with `Finalize` in a section of
its own), `Outage` for what a broken session loses, `Finish` for the cursor.
Sweeps of a mailbox are serialised by the lock of the pooled connection, except
that a sweep with errors evicts the connection while another may wait for it;
the model lets two sweeps overlap freely, which allows more than the code does.
A message's UID is its number in every epoch, the per-sweep deduplication by
Message-ID and expunged messages are left out, and which error texts count as a
broken session is abstracted to a choice.

### PushOutbox

One action per database section of `deliver`: `Begin` reads clock and devices,
`ReadScope` the member of one device, `Enqueue` inserts, expires, requeues and
takes a batch, `Check` re-checks and leases one job, `Answer` records the result.
Time is a counter in units of 60 s; a send lasts at most `SendLimit`, database
work between sends at most `DbLimit`. The lease of 120 s is a constant scaled so
that a few sends fill it. A failed `Enqueue` is covered by `Abort` before it:
its statements are idempotent, and each starts from the same rows.
An acknowledgment also stands for a reminder row that was deleted: the check
before a send finds no row in either case.

### CompanionSync

State: `row` is the projection of `workspace.rs` as the server holds it, with
`revision` for `updated_at`; `native` is Calendar and Reminders; `mapping` and
`connection` are the app's defaults; `proposed` is the app waiting for a
permission (`configuring`); `pc` and `sync` a run of `sync` and what it has
fetched. `written` and `heard` are history: what the companion itself put into a
native item, and what the server was told of it.

`sync` runs on the main actor and gives it up only at the network, so an item is
one action (`Handle`, with the branches of the loop in their order: not wanted,
conflict, cancelled, completion to send, up to date, undatable, save). The native
save and the save of the mapping are two actions because the app may quit
between them. A completion takes three: `Submit`, `Complete` on the server
(compare `updated_at` and update, one statement), `Answer`. `Fail` and `Quit`
may come anywhere between.

Abstractions: a content is everything `fingerprint` covers, and reads back as it
was saved; `completed` of a mapping is always present (mappings of the first
version lack it until their next save); alarms outside their range and dates
that do not parse are both `Undatable`; a request the client gave up on reaches
the server before the next one or not at all; the request for a CSRF token and
the one for the completion are one step, the reminder being the object read at
its beginning. A native item deleted by the user is restored by the next sync
that finds its row changed or its item missing: the code repairs deletions, it
does not respect them, so `LocalEditsPreserved` is about edits only.

### DraftLifecycle

State: `row` is the draft's row, with `schedule` for `send_after` against the
clock and the two revisions stamped into its metadata; `human` and `bot` are what
a person's page and a declaring program have last read; `pc` and `actor` are the
senders and syncs, with what they read and the token of their claim. `delivered`,
`approved`, `declared` and `held` are history. Each store method is one guarded
statement or one transaction, so each is one action; the races are between what a
caller has read and the row it finds.

The protocol around the calls (read, claim, transmit, mark, or release) is the
callers', which this repository does not hold: it is taken from the
documentation of the methods, with every deviation a process can be forced to.
`Dies` leaves a claim behind; `Returns` may lose the answer, after which the owner
calls again, or another of its exits, however late. A sender transmits once per
claim. `set_draft_attribution`, which stamps without comparing the revision, has
no caller but tests and is not an action; neither is `record_draft_human_approval`
outside the two transactions that call it. `Outgoing` has three variables, the
text, what was delivered and whether the draft was thrown away; they are
`row.content`, `delivered` and `row.status = "discarded"`. A row that is
`delivery_uncertain` may still be discarded, which in `Outgoing` is a `Drop` after
the delivery.

### The family: HouseholdAccess, Workspace, TripMatching

`HouseholdAccess` has the rows of `household_members` and `household_sessions`,
the hand-off codes in memory, share links, tasks and trips. A request takes two
steps: `authorize` admits it under the database lock, with the member it resolved
to, and a handler acts later under the lock taken again, so revocation, expiry
and other edits come in between; what a handler reads again and what it takes
from the admission is as in the code. Enrolment (`session`) and `consume` are one
transaction each. `Restart` forgets the codes and keeps the rows.

`Workspace` writes a booking entered by hand as the sequence `Writes` of the
handler's statements, any prefix of which a crash may leave; edits and moves are
transactions. `public_calendar` and `ViewBookings` are what the share view and
the calendar feed select from the rows at any time. `TripMatching` scores a
reservation against every trip as `trip_match_score` does (places by identity,
words and airport codes; dates by distance in half days), files it, widens the
trip, amends it, and imports an older product's tables, dangling ids included.

`MCFamily` runs the three in one instance: they share no row that one decides by,
so a behaviour exercises one of them, chosen at the start (`focus`).

### Mail and files

`MCMail` does the same for sixteen machines that own disjoint tables, folders or
files. Composing them step by step would only multiply states. Each is
a state machine of its own with its own type invariant and property:

- `Credentials`: `file` is what the file says (the DB passphrase, the key it is
  wrapped under, the verifier), `sealed` the key each secret of the database was
  encrypted with. Writes of the file are in two parts, truncation and content, or
  atomic, as in the function that makes them. The environments are the sources of
  a master key: environment, file, prompt, machine.
- `GmailPoll`: messages are numbers, new ones greater; a page token names where
  its page begins. One action per database section or request of the loop.
- `TravelParser`: a letter is the set of expressions that match it and the
  structured data it carries. Operators follow the functions of the file; the
  state machine reads any letter of `Texts` once.
- `LearnedParsers`: a package reads layouts; `promote` checks it against fixtures
  read before its transaction; two processes share the tables. Readers go from
  known parsers to a proposal, under a lock per process and a budget per day.
- `Snapshots`: a file is a version, a flag whether it is whole, and one for its
  mode. Export and restore take one step per file and may stop at any.
- `AddressHistory`: `cached` are the rows of `thread_messages` by row id; the chunk
  reads up to `ChunkRows` above the watermark in one transaction, as the code does.
  `AddressLists` has headers as sequences of the characters that matter.
- `EventDelivery`, `ThreadScan`, `MailMoves`, `MailRestore`, `FolderReads`,
  `SentCopy`, `EvidenceBundle`: one action per statement, IMAP command, file or
  line written; failures before and after each.
- `GovernedSend`: an attempt walks the gates in the code's order; the governor is an
  external program with every outcome it may have. `MailRules` compares `evaluate`
  with `ServerHolds`, the meaning of the exported Sieve tests.

The command line and the tool server that call these libraries are not in the
repository: the order of calls is taken from the documentation of the functions.

## 3. Runs

| Run | Instance | Shows |
|---|---|---|
| `receipts` | two messages and a pasted import of one booking, two tasks, owner edits, approvals with corrections, a manual booking, a fault | the safety properties of receipts, with the owner in every race |
| `receipts_live` | the mail of two accounts, fairness, a fault | every mailed receipt is resolved |
| `receipts_learned` | a document that needs review, one owner edit | finding 1 |
| `sync` | two overlapping sweeps, two epochs, a rescan, a poison message, a fault | cursor and sweep safety |
| `sync_live` | one sweep with fairness, poison, noise, a rescan, three faults | the retry budget is charged fairly; backfill completes |
| `push` | two processes, runs shorter than the lease, an alert and a test push | lease exclusion, finality, withdrawal |
| `push_live` | a guest's device, one process, fairness | jobs settle |
| `push_two_services` | two processes, runs longer than the lease | finding 2 |
| `companion` | items of two servers, two triggers, settings saved once, edits on both sides, two faults, fairness | no lost edit, no reverted row, no duplicate, nothing diverges in silence |
| `drafts` | two texts, two senders or syncs, three claims, one edit, a death or a lost answer | one owner, approvals and declarations of the text, held drafts stay, the promise of `Outgoing` |
| `family` | one member, two trips, two concurrent requests, a code, a share, two bookings, reservations in five spellings | access, what the family sees, where reservations are filed |
| `mail` | one small instance of each mail and file module | the property of each |

Properties with several parts join named invariants of one machine that stand or
fall together:

| Property | Parts |
|---|---|
| `ReceiptsHonest` | `ProvenanceProcessed`, `AppliedAtMostOnce`, `NoReviewOfSettled`, `ReceiptLockHeld` |
| `NothingGoesBack` | `SettledStaysSettled`, `NoAutomaticRegression` |
| `CursorHonest`, `CursorAdvances`, `HistoryResolved` | `CursorNeverSkips` and the reason for it `SweepKeepsPromise`; `NewestResolved`, `CursorMovesForward`; `EventuallyResolved`, `BackfillCompletes` |
| `SendsOwned`, `NothingStale` | `NoConcurrentSend`, `LeaseOwnsRow`, `SendsBounded`; `SettledIsFinal`, `NothingAfterWithdrawal` |
| `MirroredOnce`, `NeitherSideLost` | `NoDuplicates`, `PairedOnly`; `LocalEditsPreserved`, `RemoteChangeKept` |
| `SendsPermitted` | `OneOwner`, `ApprovalCoversContent`, `DeclarationCoversContent` |
| `ItinerarySound` | `FeedShowsBookings` and `RemindersMatch` of `Workspace`; `BookingsWithinTrips`, `OrderDecidesNothing` of `TripMatching` |
| `AddressesServed` | `HistoryCounts`, `HeaderUnderstood`, `SuggestionsRight` |
| `BackupsRestore` | `FolderReadWhole`, `NoneLeftOut` with `AppendedOnce`, `BackupsHold` |
| `ReadHonestly` | `AcceptedOnEvidence`, `LearnedUnderSupervision` |

Each is stated in words above its definition.

Bounds. Two tasks, sweeps, requests or processes are enough for every race of a
pair, and no step of the code involves three. Three documents contain every order
of an older and a newer source, with a common epoch (`receipts`) and without
(`receipts_live`). One fault reaches every section; `sync_live` takes three
because a budget of two must be seen half spent by two outages. Three clock units
exceed the lease and the life of a job. Numbers of edits, faults, rescans, epochs
and messages are named constants (`Max...`) that only appear in guards. In
`companion` two contents, one change of a row and two native edits meet in one
sync, which is what a conflict takes; `MaxNative` is enough for every item, every
deletion and the duplicate a fault allows. Three claims let an actor release
another's claim and a third be taken before the second has ended; one edit makes a
reading stale. In `mail`, two cached rows and chunks of one cut a reconciliation in
the middle; pages of two and five messages give a backfill three pages; batches of
two and three messages make a full and a partial batch; UIDs up to four end a range
at the last UID there is, with batches of three; three stops interrupt a restore and
its rerun; three attempts are the code's own limit. Deadlock is checked in the receipt and sweep
runs, in `companion` and in `drafts`; the push runs stop when their bounded clock
does, `family` and `mail` when their bounds on edits and mishaps are used up.

Fairness. The worker returns every minute for as long as the process lives, so
`Begin` of a sweep and `Deliver` are weakly fair, and time passes between two
runs; a task that runs keeps running; tokio's mutex is handed over in order, so
the lock step is strongly fair. A receipt that is open and not in review has kept
the cursor from passing its message, so the next sweep meets it again: that is
the strong fairness of `StartSweep` in `TravelReceipts`, and what `MailboxSync`
shows from the other side. The companion's timer starts a sync every minute, a sync
that runs goes on, and macOS answers a permission request, with a grant, a refusal
or an error. Nothing is assumed of owners, members, the server or the push service,
and faults are finite in number. The runs `family` and `mail` check safety only:
what drives those machines (a person, a command line) promises no schedule.

## 4. Proofs

Every theorem is for all values of the constants and rests on the assumption named
in its module (`ReceiptAssumption`, `SyncAssumption`, ...), which types them and says
that `None` is no value it stands beside. Whatever else a theorem assumes is in its
statement. Each inductive invariant was checked by TLC on the run before it was proved.

`TravelReceiptsProofs` proves, for arbitrary documents, tasks, bookings and
bounds, `TypeOK`, `ReceiptsHonest` (theorem `ReceiptsAreHonest`),
`NothingGoesBack` (`NothingEverGoesBack`) and each of their parts, and
`RemindersFollowBookings`.

The inductive invariant joins them with two facts the code relies on and never
states. A task past the lock holds it (`ReceiptLockHeld`), which makes `lock`,
not `pc`, the witness of who may act. And a booking whose identifier is that of a
document exists only if that document was processed (`FreshBookingIds`): without
it a step that creates a booking could overwrite one. Provenance is preserved
because a receipt becomes `processed` in the same step that writes a booking, and
`SettledStaysSettled` keeps it there. `AppliedAtMostOnce` needs the open check
inside the transaction and not the lock. `NoAutomaticRegression` follows from the
decision being taken on the rows of the step that writes. `RemindersFollowBookings`
needs nothing beside the types: every step that writes a booking writes its reminder.

`PushOutboxProofs` proves, for arbitrary devices, members, processes, clocks and
batch limits, `TypeOK`, `SendsOwned` with its three parts (`NoConcurrentSend`,
`LeaseOwnsRow`, `SendsBounded`) and `NothingStale` with its two parts. It assumes
`RunsEndInTime`: a run is shorter than the lease it takes. The code
does not guarantee it (finding 2 is a run that breaks it), so the
theorems say precisely what the missing bound costs: with it, everything below
holds for any number of processes.

The inductive invariant adds to the typing and to lease exclusion two facts.
`RunOK`: a run's clock reading is not in the future and, while the run lasts, not
older than `RunLimit`, and every row it holds is still in the table. `Leased`: the job a run is sending is `sending` in the
table with a lease counted from that reading. From the two and
`RunsEndInTime` the lease of a job being sent has not expired, so no statement of
another run requeues, expires or leases it; from that, exclusion and ownership of
the row. `SettledIsFinal` and `NothingAfterWithdrawal` follow step by step.
`SendsBounded` needs a count: `Counted` charges each send to an attempt of the row, to
a run that died, or to another run whose reading still has attempts left. As rows
gain attempts those readings only become stale, so that their number does not
grow (`SomeProcs`: the processes are finitely many).

`DraftLifecycleProofs` proves, for arbitrary contents, actors and bounds, `TypeOK`,
`SendsPermitted` (`SendsArePermitted`) and its parts, `HeldNotSwept` and
`KeepsPromise`, from `DraftAssumption`, which says that `None` is none of the
values it stands in for and that the bounds are numbers. The inductive invariant
has a part about text and one about claims. Text: whatever anyone has read is
either the row's content or of an earlier revision (`ViewsCurrent`), and no stamp
is of a revision to come, so an edit outdates them all. Claims: live claims have
distinct tokens; a sender that has not transmitted owns the row at the revision it
read (`SenderOwnsRow`); and once a text was accepted, nobody who could give up the
claim owns the row (`DeliveredIsFinal`), which is why no repeated release can make
it editable again. Two frames keep the proof short: what people do leaves claims
alone, and what claims do, short of a synced edit, leaves text and stamps alone.
`PromiseKept` is the refinement: transmissions, edits and discards are the three
actions of `Outgoing`, every other step a stutter.

`MailboxSyncProofs` proves `TypeOK`, `CursorHonest`, `CursorAdvances` and
`QuarantineEarned` for any number of overlapping sweeps. The key is `ResolvedStays`: no
step makes a resolved message unresolved. `SweepHonest` says for each part of what a
sweep remembers (the boundary it read, the sources it found handled, the messages
behind it) that all of it is resolved, which then stays true while others write. The
bound on quarantines is a count, `PaidByFaults`: the failures on record and those of
the messages given up are each paid for by one fault.

`CompanionProofs` proves `TypeOK`, `MirroredOnce` and `NeitherSideLost` for any items,
servers and triggers. One sync runs at a time (`OneSync`). Revisions tell the states of a
row apart, so a request whose revision matches is about the row as read. A native item that is
mapped is its item's own and holds what the companion wrote or the server heard of
(`MappingsSound`), and so does one between its write and its record
(`ProposedSound`). Native items of an item that are in neither are orphans, and only an
exit of the app makes one (`OrphansCounted`), hence the bound of `NoDuplicates`.

`HouseholdAccessProofs` proves `CapabilitySpentOnce`, `RevokedStaysOut` and
`ChangesAreEntitled`. `Spent` says of every session opened by a link or a code that
this capability opens nothing any more; that it is useless is recorded in the step
that opens the session or before it. The other two are step properties over the tables'
types. Versions are any numbers there: their bounds in `AccessTypeOK` come from sums over
the tables, which would need induction. `FamilySeesBookings`, of `Workspace`, is about
rows written one after the other: whatever has been written of a booking agrees with the
row that came first, in trip, status and date (`RowsAgree`), so the feed has it once or
once a leg, and no reminder is left over. `TripsTakeInBookings`, of `TripMatching`, needs
of the weighing loop what it has found out after each trip: the best so far, its score,
and whether another has that score (`FoundOut`). That the loop computes a function at all,
and that this holds at its end, is argued from a least counterexample, since the provers
have no induction. The bounds of trips only widen, so what was within them stays so
(`ExpandedTakesIn`); an import shifts trips and bookings alike, and leaves none without
its trip because the check before it did not (`CheckedFits`). `MatchingAssumption` says of
older databases that their bookings lie within their trips: the import looks at no date.
`ItineraryStaysSound` joins the two for the specification of `MCFamily`.

`MailProofs` has nine machines.
- `SecretsOpen`: while no two first setups collided, everybody agrees with one file. A task
  that holds a passphrase holds the file's, a file about to be renamed holds
  it too, a torn one belongs to the one task that writes it, and what is sealed is
  sealed under it (`CredentialInv`).
- `TokenNeverSkips`: the pages of the newest mail and the backfill overlap or touch,
  and a token names a page behind which all was handed on (`PollInv`).
- `SendsAreEarned` and the bounds in `GovernedTypeOK`: a declaration is of a revision
  that existed and was cleared by every edit of its text.
- `NothingLost`: where each message stands in the sequence of commands (`InCommand`), and
  how often it can still be copied (`CopiesBounded`).
- `RequestsBounded`, if `OneExecutor`: what the executor read of a row still
  holds when it writes it (`ReadsHold`), so that a request is paid for by a counted
  attempt, a mishap or the answer outstanding (`Paid`). With two executors the bound is false.
- `LearnsUnderSupervision`: each version was shown, and reads, its examples, and a name
  has one in force (`OneInForce`). The one in force has every example that was taught
  (`LessonsKept`) unless another process promoted between a replay and its transaction:
  a replay records what stood for the name, and if that still stands nothing is lost.
- `ReadHonestly` (`ReadsHonestly`) adds the parser's verdict, `AcceptsOnEvidence`: by
  cases of the labels and of the score, what is written without a person is structured and
  complete, and a structured cancellation is not read as a confirmation.
- `ServerFiltersAsHere` (`FiltersStayRight`): a rule that is exported asks nothing the
  server lacks and keeps its condition as it is (`AsHere`), and from the upload to the
  activation the script is that of the publication under way (`PublishInv`).
- `HistoryCounts` (`HistoryCountsOnce`): between rebuilds each contact has counted the
  rows at or below the watermark (`Folded`), at most its largest recount more. A chunk adds
  the rows it passes, which are disjoint from those.

`FolderProofs` proves `WatermarkHonest`, if every mail has a Message-ID
(`EveryMailNamed`; without it the property is false, section 6): every UID of the
folder has its row, was given up, is on the list of the scan, or lies above all the scan
will write as its watermark (`ScanReaches`). And `SentCopyOnce`, of any folders: mail
on the server only grows but for drafts, so what a search found stays true, and the
append comes only between a first lookup that found nothing, with no copy there when
it began, and a second (`CopyTaskSound`). And `BackupsAreWhole`: until the manifest is
written, what an export has copied is the file as it was read, whole (`ExportSound`);
from then on the backup does not change but for the medium (`BackupSound`), and a
restore puts the database last, after all files that it names (`RestoreSound`).
`EvidenceAccounted` (`EvidenceIsAccounted`): the two walks of an expansion owe neighbours
only for what is still in their queue, unless the limit was reported (`WalksOwe`), and
what the downward walk does leaves the upward one paid; what a record says of a file holds
until something of that name is written (`RecordsHold`). It assumes of names that none is
itself with `.txt` appended, a fact about strings the provers do not know.
And `NoneLeftOut` (`RestoresLeaveNoneOut`): a line of the sidecar counts from its newline
on. Each malformed line pays for one copy of the message it holds, the lines that can be
read pay for one together (`PaidByLines`), since what they hold is not planned again; a
message is paid for when the newline of its pending record is written, and so before its
APPEND, whatever a crash leaves of the record (`RestoreRunSound`).
And `FolderReadWhole` (`FoldersAreReadWhole`): the pieces a range of UIDs or a list of
them is cut into are within the batch size, do not overlap and leave nothing out
(`PiecesPartition`), and the maximal runs of a piece denote its UIDs (`CompactDenotes`);
so whatever stayed is in an answer or in one batch to come (`BatchRead`), or, of the newest,
older than all that was asked for (`WindowRead`). `BackupsRestored` joins this with the
archive and the backup.

Some theorems state a part of what a run checks, as `HistoryCounts` of `AddressesServed`.
Theorems that name several machines, like `ReadsHonestly` and `BackupsRestored`, assume
the specification of each.

Only model-checked: liveness (`EventuallyResolved`, `EventuallySettled`, `HistoryResolved`,
`EventuallyMirroredOrReported`), which is out of the prover's reach; the headers and
suggestions in `AddressesServed`, which are folds over sequences of characters and of rows;
and the types of the family's and the mail's modules together, where bounds come from sums
over tables.

## 5. Findings

1. `receipts_learned`. The review gate runs before the transaction and is not
   repeated in it. If the first verdict is *ignore* (the message is not newer than
   the booking), the gate is skipped; an owner's edit before the transaction can
   turn the verdict into *apply*, and a learned document changes the itinerary
   without review, which `learning.rs:114` and `README.md` rule out.
2. `push_two_services`. The lease is counted from the start of the run. With 20 s
   per send, the seventh job of a run is leased for less time than its send may
   take, and a second process requeues and sends it, against the comment at
   `push.rs:263`.

## 6. Deviations the models carve out

Where the code breaks a sentence of its own in a case that a property would
otherwise exclude, the model has the case, and the property names it as an
exception, stated in its comment:

- Two first-time set-ups of credentials at once each write a passphrase; what was
  sealed under the replaced one is lost (`credential_store.rs`,
  `file_get_or_create_passphrase`; `collided` in `SecretsOpen`).
- A header entry whose quoted name contains `<` is lost (`parse_address` looks for
  the first bracket of the whole entry; `HeaderUnderstood`). SQLite's `lower` folds
  ASCII only, so a name with upper-case letters outside it is not suggested
  (`SuggestionsRight`). A contact deleted by hand loses its counts until the next
  rebuild (`HistoryCounts`).
- `backup::export` copies `intelligence.json` and then digests the service's file: a
  configuration replaced in between gives a backup that restore refuses
  (`replaced` in `BackupsHold`).
- A torn line in the restore sidecar hides a pending record, and the next line glued
  to it, so that a rerun appends again (`AppendedOnce`); `load_restore_state` warns.
- `promote` reads the fixtures in force before its transaction, so two processes may
  drop examples (`crossed` in `LearnedUnderSupervision`).
- An amendment with a new start and no end keeps the old end: the booking may end
  before it starts and lie outside its trip (`BookingsWithinTrips`).
- An attachment may overwrite an earlier one of that name in an export, and the notes
  written last an attachment named `SOURCE_NOTE.md` or `attachment_provenance.json`
  (`EvidenceAccounted`). The expansion of threads does not follow `References` of
  two or more ids, which `references_header` and `extract_message_ids` join to one.
- A message that cannot be fetched, parsed or stored is skipped by the scan that
  advances the watermark (`skipped` in `WatermarkHonest`).
- Messages without a Message-ID: after a rebuild under a new UIDVALIDITY the rows of the
  old epoch remain, and `upsert_thread_message` (`store/threads.rs:165`) looks for a
  row of such a message by UID, folder and thread only. It may overwrite the row of
  another message, which takes it back when it is scanned: the first is lost below the
  watermark. The mail of `MCMail` all has ids, and `NothingBelowWatermark` assumes so.
- A bulk retry may copy a message twice (`NothingLost` bounds it by two), and EXPUNGE
  without UIDPLUS removes what another session marked.
- A reset keeps the count of attempts, and two executors may mark one delivery both
  delivered and dead; the run has one executor (`RequestsBounded`).
- Any calendar invitation counts as an activity; a structured cancellation becomes
  "changed" when the words mention a schedule change (`AcceptedOnEvidence` excludes
  only that it reads as confirmed). A letter of score three is put in review, where a
  comment of `travel_parser.rs` says that a score below four stays out.

## 7. Not modelled, and why

`PROJECT.json` lists every component with its status. Left out for good: regular
expressions and the dates they read, calendar and MIME text, the wire formats of
IMAP, SMTP and ManageSieve, autodiscovery and IDLE, the ciphers, HTTP and
rendering, the web client (no authority of its own), and tables whose methods are
single statements without a protocol: snoozed mail (nothing in the repository moves
it), agent cockpit, action log, operations, licence. `reply.rs` has no caller here;
it builds a reply to all from a message of which `imap.rs` keeps the first address
only. Of the owner's pages, search and the assembled views only display.

Not covered by a property: a toggle that carries no expected value
(`household.rs:307`), and a message whose persistence fails for ever
(`handlers/travel.rs:1992`), which holds the cursor without a retry budget, as an
unreadable Gmail message aborts every later pass of the poll.

## 8. Next

1. Proofs: headers and suggestions of `AddressesServed`, and the types of the mail's
   modules together.
2. An abstract ingestion (every message is settled or in front of the owner, once)
   that `MailboxSync` composed with `TravelReceipts` implements.
