---------------------------- MODULE AddressHistory ----------------------------
(***************************************************************************)
(* The address book of compose: contacts counted from cached mail.         *)
(* Reconciling folds the thread cache above a watermark, chunk by chunk,   *)
(* and recounts the inbox snapshot and the sent drafts when it has caught  *)
(* up; rewriting a cached row, or dropping a folder's rows after a         *)
(* UIDVALIDITY change, marks the account dirty, and the next pass starts   *)
(* over.  Contacts somebody curated belong to them.                        *)
(***************************************************************************)
EXTENDS Naturals, FiniteSets, FiniteSetsExt, Rows

CONSTANTS
  Addresses, Own,   \* correspondents, and the account's own address
  Headers,          \* the address headers a cached message may have
  ChunkRows,        \* thread rows folded in one pass
  MaxRows,          \* bound on the ids of thread_messages
  MaxSends          \* bound on the sent drafts of an address

(* Cc and Bcc count as To.                                                 *)
ThreadMessage == [out : BOOLEAN, from : Addresses \cup {Own}, to : SUBSET (Addresses \cup {Own})]

ContactRow == [derived : BOOLEAN, count : 0..1, history_count : Nat, history_sent_count : 0..MaxSends]

ASSUME HistoryAssumption ==
  /\ Own \notin Addresses
  /\ Headers \subseteq ThreadMessage /\ None \notin Headers /\ None \notin ContactRow
  /\ {ChunkRows, MaxRows} \subseteq Nat \ {0} /\ MaxSends \in Nat

VARIABLES
  cached,        \* thread_messages by id; ids are never used again
  lastId,
  indexed,     \* mentions in the inbox snapshot
  sent,        \* sent drafts to each address
  contacts,    \* contacts of the account
  history,     \* address_history_state: watermark, dirty; no row before the first pass
  settled,     \* the last pass caught up
  highest,     \* the largest recount each address saw since the last rebuild
  forgotten    \* addresses deleted by hand since then

history_vars == <<cached, lastId, indexed, sent, contacts, history, settled, highest, forgotten>>

Larger(a, b) == IF a >= b THEN a ELSE b

(* The snapshot replaces a row, so a sender counts once.                   *)
IndexedMentions == [Addresses -> 0..1]

HistoryTypeOK ==
  /\ lastId \in 0..MaxRows /\ cached \in [1..MaxRows -> Headers \cup {None}]
  /\ \A id \in 1..MaxRows : id > lastId => cached[id] = None
  /\ indexed \in IndexedMentions /\ sent \in [Addresses -> 0..MaxSends]
  /\ contacts \in [Addresses -> ContactRow \cup {None}]
  /\ history \in [known : BOOLEAN, watermark : 0..MaxRows, dirty : BOOLEAN]
  /\ settled \in BOOLEAN /\ highest \in [Addresses -> Nat] /\ forgotten \subseteq Addresses

HistoryInit ==
  /\ cached = [id \in 1..MaxRows |-> None] /\ lastId = 0
  /\ indexed = [a \in Addresses |-> 0] /\ sent = [a \in Addresses |-> 0]
  /\ contacts = [a \in Addresses |-> None]
  /\ history = [known |-> FALSE, watermark |-> 0, dirty |-> FALSE]
  /\ settled = FALSE /\ highest = [a \in Addresses |-> 0] /\ forgotten = {}

-----------------------------------------------------------------------------
(* The thread cache.                                                       *)

(* Mutant: a rewritten row leaves the derived history as it is.            *)
invalidate_nothing == history

invalidate_address_history == [history EXCEPT !.dirty = @ \/ history.known]

(* The first half of upsert_thread_message: a message not cached before.   *)
InsertRow ==
  /\ lastId < MaxRows /\ lastId' = lastId + 1
  /\ \E h \in Headers : cached' = [cached EXCEPT ![lastId'] = h]
  /\ UNCHANGED <<indexed, sent, contacts, history, settled, highest, forgotten>>

(* The second: a cached row rewritten in place, with the same headers or   *)
(* with corrected ones.                                                    *)
RewriteRow ==
  /\ \E id \in 1..lastId, h \in Headers :
       /\ cached[id] # None
       /\ cached' = [cached EXCEPT ![id] = h]
       /\ history' = IF cached[id] # h THEN invalidate_address_history ELSE history
  /\ UNCHANGED <<lastId, indexed, sent, contacts, settled, highest, forgotten>>

(* The folder's rows go; the rescan inserts them again under fresh ids.    *)
drop_folder_rows ==
  /\ \E id \in 1..lastId : cached[id] # None
  /\ cached' = [id \in 1..MaxRows |-> None]
  /\ history' = invalidate_address_history
  /\ UNCHANGED <<lastId, indexed, sent, contacts, settled, highest, forgotten>>

-----------------------------------------------------------------------------
(* Folding.                                                                *)

(* A sender who is also a recipient of the message counts twice.           *)
Mention(h, a) == {role \in {"from", "to"} : a # Own /\ IF role = "from" THEN ~h.out /\ h.from = a ELSE a \in h.to}
Mentions(a, ids) == Cardinality({m \in ids \X {"from", "to"} : m[2] \in Mention(cached[m[1]], a)})

(* New mentions add, recounted ones are a floor; whose row it is stays.    *)
merge_observation(c, delta, recount, sentCount) ==
  IF c = None
    THEN [derived |-> TRUE, count |-> 0, history_count |-> Larger(delta, recount), history_sent_count |-> sentCount]
    ELSE [c EXCEPT !.history_count = Larger(@ + delta, recount), !.history_sent_count = Larger(@, sentCount)]

Signal(c) == Larger(c.count, Larger(c.history_count, c.history_sent_count))

(* Derived rows without any signal are deleted.                            *)
Sweep(c) == IF c # None /\ c.derived /\ Signal(c) = 0 THEN None ELSE c

Rebuilding == ~history.known \/ history.dirty

reconcile_address_history_chunk ==
  LET from == IF Rebuilding THEN 0 ELSE history.watermark
      above == {id \in 1..lastId : id > from /\ cached[id] # None}
      chunk == {id \in above : Cardinality({k \in above : k <= id}) <= ChunkRows}
      pending == Cardinality(chunk) = ChunkRows
      recount(a) == IF pending THEN 0 ELSE indexed[a] + sent[a]
      sentCount(a) == IF pending THEN 0 ELSE sent[a]
      start(a) == IF Rebuilding /\ contacts[a] # None
                    THEN [contacts[a] EXCEPT !.history_count = 0, !.history_sent_count = 0]
                    ELSE contacts[a]
      folded(a) == IF Mentions(a, chunk) + recount(a) = 0 THEN start(a)
                   ELSE merge_observation(start(a), Mentions(a, chunk), recount(a), sentCount(a))
  IN /\ contacts' = [a \in Addresses |-> IF pending THEN folded(a) ELSE Sweep(folded(a))]
     /\ history' = [known |-> TRUE, watermark |-> Max(chunk \cup {from}), dirty |-> FALSE]
     /\ settled' = ~pending
     /\ highest' = [a \in Addresses |-> IF Rebuilding THEN recount(a) ELSE Larger(highest[a], recount(a))]
     /\ forgotten' = IF Rebuilding THEN {} ELSE forgotten
     /\ UNCHANGED <<cached, lastId, indexed, sent>>

(* A draft was sent: mark_draft_sent, then its recipients at once.         *)
record_sent_draft_recipients ==
  /\ \E to \in (SUBSET Addresses) \ {{}} :
       /\ \A a \in to : sent[a] < MaxSends
       /\ sent' = [a \in Addresses |-> IF a \in to THEN sent[a] + 1 ELSE sent[a]]
       /\ contacts' = [a \in Addresses |->
            IF a \in to THEN merge_observation(contacts[a], 0, 0, sent'[a]) ELSE contacts[a]]
  /\ UNCHANGED <<cached, lastId, indexed, history, settled, highest, forgotten>>

(* The dashboard replaced its inbox snapshot.                              *)
upsert_indexed_message_summaries ==
  /\ indexed' \in [Addresses -> 0..1] /\ indexed' # indexed
  /\ UNCHANGED <<cached, lastId, sent, contacts, history, settled, highest, forgotten>>

-----------------------------------------------------------------------------
(* Curating.                                                               *)

upsert_contact(a) ==
  /\ \E n \in 0..1 :
       contacts' = [contacts EXCEPT ![a] =
         IF @ = None THEN [derived |-> FALSE, count |-> n, history_count |-> 0, history_sent_count |-> 0]
                      ELSE [@ EXCEPT !.derived = FALSE, !.count = n]]
  /\ UNCHANGED <<cached, lastId, indexed, sent, history, settled, highest, forgotten>>

take_contact_ownership(a) ==
  /\ contacts[a] # None
  /\ contacts' = [contacts EXCEPT ![a].derived = FALSE]
  /\ UNCHANGED <<cached, lastId, indexed, sent, history, settled, highest, forgotten>>

delete_contact(a) ==
  /\ contacts[a] # None
  /\ contacts' = [contacts EXCEPT ![a] = None]
  /\ forgotten' = forgotten \cup {a}
  /\ UNCHANGED <<cached, lastId, indexed, sent, history, settled, highest>>

Curate == \E a \in Addresses : upsert_contact(a) \/ take_contact_ownership(a) \/ delete_contact(a)

Derive ==
  \/ InsertRow \/ RewriteRow \/ drop_folder_rows \/ upsert_indexed_message_summaries
  \/ reconcile_address_history_chunk \/ record_sent_draft_recipients

HistoryNext == Curate \/ Derive

HistorySpec == HistoryInit /\ [][HistoryNext]_history_vars

-----------------------------------------------------------------------------
Live == {id \in 1..lastId : cached[id] # None}
CaughtUp == settled /\ ~Rebuilding /\ \A id \in Live : id <= history.watermark
Counted(a) == IF contacts[a] = None THEN 0 ELSE contacts[a].history_count

(* However rescans, corrections, UIDVALIDITY resets, sends and chunked     *)
(* passes come in between: once a reconcile has caught up, every mention   *)
(* in the thread cache is counted, none twice (what is above it is the     *)
(* recount), and no derived row outlives its last source - unless the      *)
(* contact was deleted by hand since the last rebuild                      *)
(* (address_book.rs reconcile_address_history_chunk).                      *)
HistoryCounts ==
  CaughtUp => \A a \in Addresses :
    /\ a \in forgotten \/ Mentions(a, Live) <= Counted(a)
    /\ Counted(a) <= Mentions(a, Live) + highest[a]
    /\ contacts[a] # None /\ contacts[a].derived => Signal(contacts[a]) > 0

=============================================================================
