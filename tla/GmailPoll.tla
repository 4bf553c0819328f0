------------------------------- MODULE GmailPoll -------------------------------
(***************************************************************************)
(* The Gmail API poll: each pass lists the newest page of messages and, if *)
(* a backfill is under way, one page of it; messages already seen are      *)
(* skipped, the others fetched, preserved and handed to the receipts, and  *)
(* only after all of a page is its next token stored.  Anything that fails *)
(* ends the pass.  Mail arrives meanwhile.  A page token names the message *)
(* before which its page begins.                                           *)
(***************************************************************************)
EXTENDS Naturals, FiniteSets, FiniteSetsExt, Rows

CONSTANTS
  PageSize,      \* messages of a page
  MaxMessages    \* bound on the messages that arrive

ASSUME PollAssumption == {PageSize, MaxMessages} \subseteq Nat \ {0} /\ None \notin Nat

VARIABLES
  arrived,       \* messages in the mailbox, the newest has this number
  account,       \* gmail_oauth_accounts: page_token
  seen,          \* gmail_oauth_seen
  documents,     \* originals preserved
  receipts,      \* messages handed to ingest_external, successfully
  poll,          \* synchronize, under way
  top            \* history: the message the backfill began below

poll_vars == <<arrived, account, seen, documents, receipts, poll, top>>

-----------------------------------------------------------------------------
(* A page: the newest messages below a token, and the token of the next.   *)
Below(cursor) == IF cursor = None THEN 1..arrived ELSE 1..(cursor - 1)
Page(cursor) == {m \in Below(cursor) : Cardinality({n \in Below(cursor) : n > m}) < PageSize}
nextPageToken(cursor) == IF Page(cursor) = Below(cursor) THEN None ELSE Min(Page(cursor))

Resting == [cursors |-> {}, cursor |-> None, batch |-> {}, next |-> None, step |-> "rest", page |-> None]

PollTypeOK ==
  /\ arrived \in 0..MaxMessages /\ account \in 1..MaxMessages \cup {None}
  /\ UNION {seen, receipts, documents} \subseteq 1..arrived
  /\ poll.step \in {"rest", "list", "messages", "fetched", "preserved", "ingested"}
       /\ poll.batch \subseteq 1..arrived
  /\ poll.cursors \subseteq {"newest", "backfill"}

(* The mailbox has mail when the account is connected.                     *)
PollInit ==
  /\ arrived \in 0..MaxMessages /\ account = None /\ seen = {} /\ documents = {} /\ receipts = {}
       /\ poll = Resting /\ top = None

MailComes ==
  /\ arrived < MaxMessages /\ arrived' = arrived + 1
  /\ UNCHANGED <<account, seen, documents, receipts, poll, top>>

(* The token is read once; the newest messages come first.                 *)
synchronize ==
  /\ poll = Resting
  /\ poll' = [Resting EXCEPT !.step = "list", !.page = account, !.cursors = {"newest"}
       \cup (IF account = None THEN {} ELSE {"backfill"})]
  /\ UNCHANGED <<arrived, account, seen, documents, receipts, top>>

ListPage ==
  /\ poll.step = "list" /\ poll.cursors # {}
  /\ LET cursor == IF "newest" \in poll.cursors THEN None ELSE poll.page
     IN poll' = [poll EXCEPT !.step = "messages", !.cursor = cursor, !.batch = Page(cursor),
          !.next = nextPageToken(cursor),
                   !.cursors = IF "newest" \in @ THEN @ \ {"newest"} ELSE {}]
  /\ UNCHANGED <<arrived, account, seen, documents, receipts, top>>

(* From the newest of the page down; one that was seen is passed over.     *)
Current == Max(poll.batch)

(* Mutant: whatever the batch holds next may be passed over.               *)
pass_over ==
  /\ poll.step = "messages" /\ poll.batch # {} /\ poll' = [poll EXCEPT !.batch = @ \ {Current}]
  /\ UNCHANGED <<arrived, account, seen, documents, receipts, top>>

Skip ==
  /\ poll.step = "messages" /\ poll.batch # {} /\ Current \in seen /\ poll' = [poll EXCEPT !.batch = @ \ {Current}]
  /\ UNCHANGED <<arrived, account, seen, documents, receipts, top>>

preserve ==
  /\ poll.step = "messages" /\ poll.batch # {} /\ Current \notin seen /\ poll' = [poll EXCEPT !.step = "preserved"]
  /\ documents' = documents \cup {Current}
  /\ UNCHANGED <<arrived, account, seen, receipts, top>>

(* A receipt of the same source, Message-ID or content is found again.     *)
find_receipt_duplicate(m) == m \in receipts

ingest_external ==
  /\ poll.step = "preserved" /\ poll' = [poll EXCEPT !.step = "ingested"] /\ receipts' = IF find_receipt_duplicate(Current) THEN receipts ELSE receipts \cup {Current}
  /\ UNCHANGED <<arrived, account, seen, documents, top>>

MarkSeen ==
  /\ poll.step = "ingested" /\ seen' = seen \cup {Current}
  /\ poll' = [poll EXCEPT !.step = "messages", !.batch = @ \ {Current}]
  /\ UNCHANGED <<arrived, account, documents, receipts, top>>

(* The newest page starts a backfill only if none is under way.            *)
StoresToken == poll.cursor # None \/ poll.page = None

FinishPage ==
  /\ poll.step = "messages" /\ poll.batch = {}
  /\ IF StoresToken
       THEN account' = poll.next /\ top' = IF poll.cursor = None THEN poll.next ELSE top
       ELSE UNCHANGED <<account, top>>
  /\ poll' = IF poll.cursors = {} THEN Resting ELSE [poll EXCEPT !.step = "list"]
  /\ UNCHANGED <<arrived, seen, documents, receipts>>

(* A page, a message or its ingestion fails, or the service stops.         *)
PollFails ==
  /\ poll # Resting /\ poll' = Resting
  /\ UNCHANGED <<arrived, account, seen, documents, receipts, top>>

PollNext ==
  \/ MailComes \/ synchronize \/ ListPage \/ Skip \/ preserve \/ ingest_external \/ MarkSeen
       \/ FinishPage \/ PollFails

PollSpec == PollInit /\ [][PollNext]_poll_vars

-----------------------------------------------------------------------------
(* The backfill leaves no hole behind: every message between where it      *)
(* began and the stored token - or the oldest, once the token is used up - *)
(* has been handed to the receipts, however passes fail and mail arrives;  *)
(* and nothing counts as seen that was not (oauth.rs synchronize).         *)
TokenNeverSkips ==
  /\ top # None => \A m \in (IF account = None THEN 1 ELSE account)..(top - 1) : m \in receipts
  /\ seen \subseteq receipts
=============================================================================
