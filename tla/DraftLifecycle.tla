--------------------------- MODULE DraftLifecycle ---------------------------
(***************************************************************************)
(* One row of the drafts table (store/drafts.rs) and the actors that       *)
(* compete for it: people who edit, approve, queue, hold and discard it,   *)
(* a program that queues it with an attribution declaration, sweeps and    *)
(* immediate sends that transmit it, and the sync that replaces its copy   *)
(* at the provider.                                                        *)
(*                                                                         *)
(* Every store method is one guarded UPDATE or one transaction, hence one  *)
(* action; the processes that call them share nothing but the row.  What   *)
(* an actor has read is in its view, and may be stale when it calls.  A    *)
(* claim writes a fresh token into the row; mark-sent, release and park    *)
(* match it.  An actor may die at any time, and may repeat a call whose    *)
(* answer it did not get.                                                  *)
(*                                                                         *)
(* A content is everything that is transmitted: recipients, subject, body, *)
(* attachments and threading metadata.  What the store keeps of the        *)
(* provider (UID, Message-ID, Sent copy, recipient history) is left out.   *)
(***************************************************************************)
EXTENDS Integers, FiniteSets

CONSTANTS
  Contents,
  Actors,       \* processes that send or sync the draft
  None,
  MaxRevision,  \* bound: edits
  MaxClaims,    \* bound: claims
  MaxFaults     \* bound: deaths of an actor and answers lost

ASSUME DraftAssumption ==
  /\ None \notin Contents \cup Nat
  /\ None \notin {"draft", "pending_review", "blocked"}
  /\ None \notin [content : Contents, revision : Nat]
  /\ {MaxRevision, MaxClaims, MaxFaults} \subseteq Nat

VARIABLES
  row,         \* the draft
  claims,      \* tokens drawn so far
  human, bot,  \* what a person and the declaring program last read of it
  pc, actor,   \* where a sender or sync is, and what it holds
  delivered,   \* history: the content SMTP accepted
  approved,    \* history: the content a person saw when it was approved
  declared,    \* history: the content a declaration was validated for
  held,        \* history: taken out of the outbox and not queued since
  faults

vars == <<row, claims, human, bot, pc, actor, delivered, approved, declared,
          held, faults>>
history == <<delivered, approved, declared, held>>
reading == <<human, bot>>

Editable  == {"draft", "pending_review", "blocked"}
Queueable == {"draft", "pending_review"}
Status    == Editable \cup
             {"sending", "syncing", "delivery_uncertain", "sent", "discarded"}
Revisions == 0 .. MaxRevision
Tokens    == 1 .. MaxClaims

\* schedule is send_after: absent, in the future, or due.  approval and
\* declaration are the revisions stamped into the metadata.
Draft ==
  [status : Status, content : Contents, revision : Revisions,
   schedule : {"none", "later", "due"},
   approval : Revisions \cup {None}, declaration : Revisions \cup {None},
   token : Tokens \cup {None}]

View == [content : Contents, revision : Revisions]

Places == {"idle", "listed", "read", "modify", "sending", "accepted", "refused", "syncing"}

TypeOK ==
  /\ row \in Draft
  /\ claims \in 0 .. MaxClaims
  /\ human \in View \cup {None} /\ bot \in View \cup {None}
  /\ pc \in [Actors -> Places]
  /\ actor \in [Actors -> [view : View \cup {None}, token : Tokens \cup {None},
                           prior : Editable \cup {None}]]
  /\ delivered \in Contents \cup {None}
  /\ approved \in Contents \cup {None} /\ declared \in Contents \cup {None}
  /\ held \in BOOLEAN
  /\ faults \in 0 .. MaxFaults

Nobody == [view |-> None, token |-> None, prior |-> None]

Init ==
  /\ row \in [status : {"draft"}, content : Contents, revision : {0},
              schedule : {"none"}, approval : {None}, declaration : {None},
              token : {None}]
  /\ claims = 0
  /\ human = None /\ bot = None
  /\ pc = [a \in Actors |-> "idle"]
  /\ actor = [a \in Actors |-> Nobody]
  /\ delivered = None /\ approved = None /\ declared = None
  /\ held = FALSE
  /\ faults = 0

Seen == [content |-> row.content, revision |-> row.revision]

-----------------------------------------------------------------------------
(* Edits and the queue.                                                    *)

\* A new content, a new revision, no approval; a declaration stays behind.
Revised(c) ==
  [row EXCEPT !.content = c, !.revision = @ + 1, !.approval = None]

\* update_draft_content and update_draft_attachments; the variants bound to
\* a revision do the same or nothing.
Edit(c) ==
  /\ row.status \in Editable
  /\ row.revision < MaxRevision
  /\ row' = Revised(c)
  /\ UNCHANGED <<claims, reading, pc, actor, history, faults>>

\* set_draft_metadata replaces the blob: the declaration is the caller's.
SetMetadata(c) ==
  /\ row.status \in Editable
  /\ row.revision < MaxRevision
  /\ \E d \in {row.declaration, None} : row' = [Revised(c) EXCEPT !.declaration = d]
  /\ UNCHANGED <<claims, reading, pc, actor, history, faults>>

UpdateStatus(s) ==
  /\ row.status \in Editable
  /\ row' = [row EXCEPT !.status = s]
  /\ UNCHANGED <<claims, reading, pc, actor, history, faults>>

\* update_draft_send_after
Schedule(t) ==
  /\ row.status \in Editable
  /\ row' = [row EXCEPT !.schedule = t]
  /\ held' = FALSE
  /\ UNCHANGED <<claims, reading, pc, actor, delivered, approved, declared, faults>>

ScheduleComesDue ==
  /\ row.schedule = "later"
  /\ row' = [row EXCEPT !.schedule = "due"]
  /\ UNCHANGED <<claims, reading, pc, actor, history, faults>>

\* Out of the outbox, with the approval of this send; the revision stays.
Hold ==
  /\ row.status = "draft" /\ row.schedule # "none"
  /\ row' = [row EXCEPT !.schedule = "none", !.approval = None]
  /\ held' = TRUE
  /\ UNCHANGED <<claims, reading, pc, actor, delivered, approved, declared, faults>>

Discard ==
  /\ row.status \in Editable \cup {"delivery_uncertain"}
  /\ row' = [row EXCEPT !.status = "discarded"]
  /\ UNCHANGED <<claims, reading, pc, actor, history, faults>>

-----------------------------------------------------------------------------
(* Approval and declaration, both bound to what their maker has read.      *)

HumanReads ==
  /\ human' = Seen
  /\ UNCHANGED <<row, claims, bot, pc, actor, history, faults>>

BotReads ==
  /\ bot' = Seen
  /\ UNCHANGED <<row, claims, human, pc, actor, history, faults>>

HumanApproved == row.approval = row.revision

\* Mutant: the stamp is for the revision that the next edit makes.
AttestedAhead ==
  [row EXCEPT !.status = "draft", !.approval = human.revision + 1]

\* record_draft_human_approval: the first approval of a revision stays.
Attested == [row EXCEPT !.status = "draft", !.approval = human.revision]

Approving ==
  /\ human # None /\ human.revision = row.revision
  /\ approved' = IF HumanApproved THEN approved ELSE human.content

\* approve_draft_revision
Approve ==
  /\ row.status \in Editable
  /\ Approving
  /\ row' = Attested
  /\ UNCHANGED <<claims, reading, pc, actor, delivered, declared, held, faults>>

\* queue_draft_with_human_approval
QueueApproved(t) ==
  /\ row.status \in Queueable
  /\ Approving
  /\ row' = [Attested EXCEPT !.schedule = t]
  /\ held' = FALSE
  /\ UNCHANGED <<claims, reading, pc, actor, delivered, declared, faults>>

\* Mutant: the declaration is stamped on whatever revision the row has.
StillReadAnyway == bot # None

StillRead == bot # None /\ bot.revision = row.revision

\* queue_draft_for_send
QueueDeclared(t) ==
  /\ row.status \in Queueable
  /\ StillRead
  /\ row' = [row EXCEPT !.status = "draft", !.schedule = t,
                        !.declaration = row.revision]
  /\ declared' = bot.content
  /\ held' = FALSE
  /\ UNCHANGED <<claims, reading, pc, actor, delivered, approved, faults>>

-----------------------------------------------------------------------------
(* Claims.                                                                 *)

Moves(a, from, to) == pc[a] = from /\ pc' = [pc EXCEPT ![a] = to]

Due == row.status = "draft" /\ row.schedule = "due"

\* list_drafts_due_for_send, or get_draft before an immediate send or a sync
Reads(a, to) ==
  /\ Moves(a, "idle", to)
  /\ to = "listed" => Due
  /\ actor' = [actor EXCEPT ![a] = [Nobody EXCEPT !.view = Seen]]
  /\ UNCHANGED <<row, claims, reading, history, faults>>

Claimed(a, status) ==
  /\ claims < MaxClaims
  /\ claims' = claims + 1
  /\ row' = [row EXCEPT !.status = status, !.token = claims + 1]

Loses(a) ==
  /\ pc' = [pc EXCEPT ![a] = "idle"]
  /\ actor' = [actor EXCEPT ![a] = Nobody]
  /\ UNCHANGED <<row, claims>>

\* Mutants of the two guards of a claim.
UnrevisedAnyway(a) == TRUE
StillDueAsListed(a) == row.status = "draft"

Unrevised(a) == row.revision = actor[a].view.revision
StillDue(a) == Due

\* claim_draft_for_sending and claim_draft_for_immediate_send
ClaimToSend(a) ==
  LET mine == /\ row.status = "draft" /\ Unrevised(a)
              /\ pc[a] = "listed" => StillDue(a)
  IN  /\ pc[a] \in {"listed", "read"}
      /\ \/ /\ mine /\ Claimed(a, "sending")
            /\ pc' = [pc EXCEPT ![a] = "sending"]
            /\ actor' = [actor EXCEPT ![a].token = claims + 1]
         \/ ~mine /\ Loses(a)
      /\ UNCHANGED <<reading, history, faults>>

\* claim_draft_for_sync
ClaimToSync(a) ==
  LET mine == row.status \in Editable /\ Unrevised(a)
  IN  /\ pc[a] = "modify"
      /\ \/ /\ mine /\ Claimed(a, "syncing")
            /\ pc' = [pc EXCEPT ![a] = "syncing"]
            /\ actor' = [actor EXCEPT ![a].token = claims + 1, ![a].prior = row.status]
         \/ ~mine /\ Loses(a)
      /\ UNCHANGED <<reading, history, faults>>

\* SMTP takes the content the sender has read, or refuses it.
Transmit(a) ==
  /\ \/ /\ Moves(a, "sending", "accepted")
        /\ delivered' = actor[a].view.content
     \/ Moves(a, "sending", "refused") /\ UNCHANGED delivered
  /\ UNCHANGED <<row, claims, reading, actor, approved, declared, held, faults>>

-----------------------------------------------------------------------------
(* The calls of a claim's owner.  One that no longer owns it changes       *)
(* nothing.                                                                *)

Owned(a, status) == row.status = status /\ row.token = actor[a].token

\* The owner gets its answer and is done, or does not get it and will call
\* again; one that gave up its claim does not transmit in between.
Returns(a) ==
  \/ /\ pc' = [pc EXCEPT ![a] = "idle"]
     /\ actor' = [actor EXCEPT ![a] = Nobody]
     /\ UNCHANGED faults
  \/ /\ faults < MaxFaults /\ faults' = faults + 1
     /\ pc' = [pc EXCEPT ![a] = IF @ = "sending" THEN "refused" ELSE @]
     /\ UNCHANGED actor

Leaves(a, new) ==
  /\ row' = IF Owned(a, "sending") THEN [new EXCEPT !.token = None] ELSE row
  /\ Returns(a)
  /\ UNCHANGED <<claims, reading, history>>

\* mark_draft_sent
MarkSent(a) ==
  /\ pc[a] = "accepted"
  /\ Leaves(a, [row EXCEPT !.status = "sent", !.schedule = "none"])

\* park_delivery_uncertain
ParkUncertain(a) ==
  /\ pc[a] = "accepted"
  /\ Leaves(a, [row EXCEPT !.status = "delivery_uncertain", !.schedule = "none"])

\* release_sending_draft, before a transmission or after a refusal
Release(a, to) ==
  /\ pc[a] \in {"sending", "refused"}
  /\ Leaves(a, [row EXCEPT !.status = to])

\* defer_attribution_retry: still due, the declaration stamped again
Defer(a) ==
  /\ pc[a] = "sending"
  /\ row.declaration = row.revision
  /\ Leaves(a, [row EXCEPT !.status = "draft", !.declaration = row.revision])

\* park_for_review, and park_attribution_exhausted, which stamps a declaration
\* that the claim has kept current
Park(a) ==
  /\ pc[a] \in {"sending", "refused"}
  /\ Leaves(a, [row EXCEPT !.status = "pending_review", !.schedule = "none"])

\* apply_synced_draft_edit
ApplySynced(a, c) ==
  /\ pc[a] = "syncing"
  /\ Owned(a, "syncing")
  /\ row.revision < MaxRevision
  /\ \E d \in {row.declaration, None} : row' = [Revised(c) EXCEPT !.declaration = d]
  /\ UNCHANGED <<claims, reading, pc, actor, history, faults>>

\* release_syncing_draft
ReleaseSynced(a) ==
  /\ pc[a] = "syncing"
  /\ row' = IF Owned(a, "syncing")
            THEN [row EXCEPT !.status = actor[a].prior, !.token = None] ELSE row
  /\ Returns(a)
  /\ UNCHANGED <<claims, reading, history>>

\* The actor's process ends; a row it has claimed stays as it is.
Dies(a) ==
  /\ pc[a] # "idle"
  /\ faults < MaxFaults /\ faults' = faults + 1
  /\ pc' = [pc EXCEPT ![a] = "idle"]
  /\ actor' = [actor EXCEPT ![a] = Nobody]
  /\ UNCHANGED <<row, claims, reading, history>>

-----------------------------------------------------------------------------
People ==
  \/ \E c \in Contents : Edit(c) \/ SetMetadata(c)
  \/ \E s \in Editable : UpdateStatus(s)
  \/ \E t \in {"later", "due"} : Schedule(t) \/ QueueApproved(t) \/ QueueDeclared(t)
  \/ Hold \/ Discard \/ HumanReads \/ BotReads \/ Approve

Act(a) ==
  \/ \E to \in {"listed", "read", "modify"} : Reads(a, to)
  \/ ClaimToSend(a) \/ ClaimToSync(a) \/ Transmit(a)
  \/ MarkSent(a) \/ ParkUncertain(a) \/ Defer(a) \/ Park(a)
  \/ \E to \in Editable : Release(a, to)
  \/ \E c \in Contents : ApplySynced(a, c)
  \/ ReleaseSynced(a) \/ Dies(a)

Next == People \/ ScheduleComesDue \/ \E a \in Actors : Act(a)

Spec == Init /\ [][Next]_vars

-----------------------------------------------------------------------------
(* What must hold.                                                         *)

\* Nobody transmits or replaces the provider's copy while another actor
\* transmits, also when an old owner repeats its release late.
OneOwner ==
  \A a, b \in Actors :
    (a # b /\ pc[a] = "sending") => ~(pc[b] \in {"sending", "accepted"})

\* models.rs:92, an approval never outlives the exact content the person saw.
ApprovalCoversContent == HumanApproved => approved = row.content

\* The declaration a sweep would transmit under was validated for the very
\* content of the row.
DeclarationCoversContent ==
  row.declaration = row.revision => declared = row.content

\* Together: whatever is transmitted has one sender, and the approval or the
\* declaration it leaves under is for the content it has.
SendsPermitted == OneOwner /\ ApprovalCoversContent /\ DeclarationCoversContent

\* drafts.rs:496: a sweep that listed a draft before it was held never sends
\* it.
HeldNotSwept ==
  [][\A a \in Actors :
       (pc[a] = "listed" /\ pc'[a] = "sending") => ~held]_vars

\* The row keeps the promise of Outgoing: delivered at most once, as it then
\* reads, and never rewritten or delivered after.
Promise == INSTANCE Outgoing WITH
  text <- row.content, dropped <- (row.status = "discarded")

KeepsPromise == Promise!Spec
=============================================================================
