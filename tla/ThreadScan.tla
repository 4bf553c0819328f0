------------------------------ MODULE ThreadScan ------------------------------
(***************************************************************************)
(* Threading a mail folder: a scan fetches what arrived above its          *)
(* watermark, finds or creates each message's conversation, and upserts a  *)
(* row for it.  The server renumbers the folder when its UIDVALIDITY       *)
(* changes; a rebuild forgets the watermark; a message may fail to be      *)
(* fetched, parsed or stored, and the program may stop at any point.       *)
(***************************************************************************)
EXTENDS Naturals, FiniteSets, FiniteSetsExt, Rows

CONSTANTS
  Mails,
  Header,        \* of each mail: Message-ID or not, whom it answers, subject, people
  Window,        \* max_messages
  MaxUid,        \* bound on the UIDs of an epoch
  MaxEpoch,      \* bound on the UIDVALIDITY values
  MaxThreads,    \* bound on the conversations
  MaxFaults      \* bound on crashes, failures and rebuilds, together

ASSUME ScanAssumption ==
  /\ {Window, MaxUid, MaxEpoch, MaxThreads} \subseteq Nat \ {0} /\ MaxFaults \in Nat
  /\ \A m \in Mails : Header[m].refs \subseteq Mails /\ Header[m].parent \in Mails \cup {None}

VARIABLES
  box,          \* the server's folder: UIDVALIDITY (0: not reported), mail by UID
  rows,         \* thread_messages of the folder
  threads,      \* threads of the account
  sync,         \* thread_sync_state of the folder
  scan,         \* the scan under way
  skipped,      \* messages given up on, or older than the first window
  faults

scan_vars == <<box, rows, threads, sync, scan, skipped, faults>>

Uids == 1..MaxUid
NoScan == [step |-> "idle", todo |-> {}, max_uid |-> 0, dirty |-> {}]
NoSync == [known |-> FALSE, last_uid |-> 0, uidvalidity |-> 0]

ScanTypeOK ==
  /\ box \in [uidvalidity : 0..MaxEpoch, mail : [Uids -> Mails \cup {None}], top : 0..MaxUid]
  /\ rows \subseteq [id : Nat, message_id : Mails \cup {None}, mail : Mails, uid : Uids, thread : 1..MaxThreads]
  /\ \A r, s \in rows : r.id = s.id => r = s
  /\ \A r \in rows : threads[r.thread].subject # None
  /\ sync \in [known : BOOLEAN, last_uid : 0..MaxUid, uidvalidity : 0..MaxEpoch]
  /\ scan \in [step : {"idle", "fetching"}, todo : SUBSET Uids, max_uid : 0..MaxUid, dirty : SUBSET (1..MaxThreads)]
  /\ skipped \subseteq Uids /\ faults \in 0..MaxFaults

ScanInit ==
  /\ \E v \in {0, 1} : box = [uidvalidity |-> v, mail |-> [u \in Uids |-> None], top |-> 0]
  /\ rows = {} /\ threads = [t \in 1..MaxThreads |-> [subject |-> None, message_count |-> 0]]
  /\ sync = NoSync /\ scan = NoScan /\ skipped = {} /\ faults = 0

Held == {u \in Uids : box.mail[u] # None}

-----------------------------------------------------------------------------
(* The server.                                                             *)

Arrive ==
  /\ box.top < MaxUid
  /\ \E m \in Mails : /\ \A u \in Held : box.mail[u] # m
                      /\ box' = [box EXCEPT !.mail[box.top + 1] = m, !.top = @ + 1]
  /\ UNCHANGED <<rows, threads, sync, scan, skipped, faults>>

Expunge ==
  /\ \E u \in Held \ scan.todo : box' = [box EXCEPT !.mail[u] = None]
  /\ UNCHANGED <<rows, threads, sync, scan, skipped, faults>>

(* The folder is renumbered from 1.                                        *)
Renumber ==
  /\ scan = NoScan /\ box.uidvalidity \in 1..MaxEpoch - 1
  /\ LET kept == {box.mail[u] : u \in Held}
     IN \E order \in [1..Cardinality(kept) -> kept] :
          /\ \A i, j \in DOMAIN order : order[i] = order[j] => i = j
          /\ box' = [uidvalidity |-> box.uidvalidity + 1, top |-> Cardinality(kept),
                     mail |-> [u \in Uids |-> IF u \in DOMAIN order THEN order[u] ELSE None]]
  /\ skipped' = {}
  /\ UNCHANGED <<rows, threads, sync, scan, faults>>

-----------------------------------------------------------------------------
(* Selecting the folder.                                                   *)

(* Every row of the folder goes, and the threads left without one.         *)
reset_folder_sync ==
  /\ rows' = {}
  /\ threads' = [t \in DOMAIN threads |-> [subject |-> None, message_count |-> 0]]
  /\ sync' = [known |-> TRUE, last_uid |-> 0, uidvalidity |-> box.uidvalidity]

set_uidvalidity(s) == [s EXCEPT !.known = TRUE, !.uidvalidity = box.uidvalidity]

(* UIDVALIDITY is compared only when the server reports one; an unknown    *)
(* folder gets a row whose watermark is 0.                                 *)
Reconciled ==
  IF box.uidvalidity = 0 \/ (sync.known /\ sync.uidvalidity = box.uidvalidity)
    THEN UNCHANGED <<rows, threads, sync>>
    ELSE IF sync.known /\ sync.uidvalidity # 0
           THEN reset_folder_sync
           ELSE sync' = set_uidvalidity(sync) /\ UNCHANGED <<rows, threads>>

(* `n:*' names the newest message even when its UID is below n.            *)
FetchQuery(s) ==
  IF s.known
    THEN {u \in Held : u > s.last_uid} \cup {Max(Held)}
    ELSE {u \in Held : Cardinality({v \in Held : v >= u}) <= Window}

scan_folder_for_threads ==
  /\ scan = NoScan /\ Held # {}
  /\ Reconciled
  /\ scan' = [NoScan EXCEPT !.step = "fetching", !.todo = FetchQuery(sync')]
  /\ skipped' = IF sync'.known THEN skipped ELSE skipped \cup (Held \ FetchQuery(sync'))
  /\ UNCHANGED <<box, faults>>

(* A rebuild drops the folder's sync state, UIDVALIDITY included.          *)
clear_last_synced_uid ==
  /\ scan = NoScan /\ sync.known
  /\ faults < MaxFaults /\ faults' = faults + 1
  /\ sync' = NoSync
  /\ UNCHANGED <<box, rows, threads, scan, skipped>>

-----------------------------------------------------------------------------
(* Threading one message.                                                  *)

find_thread_by_references(ids) == {r.thread : r \in {x \in rows : x.message_id \in ids \ {None}}}

addresses_overlap(m, t) == \E r \in rows : r.thread = t /\ Header[r.mail].people \cap Header[m].people # {}

(* Any thread of the subject may come first; the others are not tried.     *)
BySubject(m) ==
  LET same == {t \in DOMAIN threads : threads[t].subject = Header[m].subject}
  IN {t \in same : addresses_overlap(m, t)}
     \cup (IF same = {} \/ \E t \in same : ~addresses_overlap(m, t) THEN {None} ELSE {})

OwnId(m) == IF Header[m].id THEN m ELSE None

(* The threads a message may be put in; None is a new one.                 *)
ThreadOf(m) ==
  LET answered == find_thread_by_references({Header[m].parent})
      referred == find_thread_by_references(Header[m].refs)
      own      == find_thread_by_references({OwnId(m)})
  IN IF answered # {} THEN answered
     ELSE IF referred # {} THEN referred
     ELSE IF own # {} THEN own ELSE BySubject(m)

(* By Message-ID, or for a message without one by UID within its thread.   *)
upsert_thread_message(m, u, t) ==
  LET known == IF Header[m].id THEN {r \in rows : r.message_id = m}
               ELSE {r \in rows : r.uid = u /\ r.thread = t}
  IN IF known = {}
       THEN rows' = rows \cup {[id |-> Max({r.id : r \in rows} \cup {0}) + 1, message_id |-> OwnId(m),
              mail |-> m, uid |-> u, thread |-> t]}
       ELSE \E r \in known : rows' = (rows \ {r}) \cup {[r EXCEPT !.mail = m, !.uid = u, !.thread = t]}

(* Messages come in the order of their UIDs.                               *)
process_fetched_message ==
  /\ scan.todo # {}
  /\ LET u == Min(scan.todo)
         m == box.mail[u]
     IN \/ \E found \in ThreadOf(m), t \in DOMAIN threads :
             /\ IF found # None THEN t = found /\ UNCHANGED threads
                ELSE /\ threads[t].subject = None
                     /\ threads' = [threads EXCEPT ![t].subject = Header[m].subject]
             /\ upsert_thread_message(m, u, t)
             /\ scan' = [scan EXCEPT !.todo = @ \ {u}, !.max_uid = Max({@, u}), !.dirty = @ \cup {t}]
             /\ UNCHANGED <<skipped, faults>>
        \/ /\ faults < MaxFaults /\ faults' = faults + 1
           /\ scan' = [scan EXCEPT !.todo = @ \ {u}, !.max_uid = Max({@, u})]
           /\ skipped' = skipped \cup {u}
           /\ UNCHANGED <<rows, threads>>
  /\ UNCHANGED <<box, sync>>

refresh_thread_stats(dirty) ==
  [t \in DOMAIN threads |->
     IF t \in dirty THEN [threads[t] EXCEPT !.message_count = Cardinality({r \in rows : r.thread = t})]
                            ELSE threads[t]]

(* Mutant: the watermark jumps to the server's highest UID.                *)
WatermarkAtTop == [sync EXCEPT !.known = TRUE, !.last_uid = box.top]

(* The watermark is the highest UID of the stream.                         *)
set_last_synced_uid == [sync EXCEPT !.known = TRUE, !.last_uid = scan.max_uid]

Scanned ==
  /\ scan.step = "fetching" /\ scan.todo = {}
  /\ threads' = refresh_thread_stats(scan.dirty)
  /\ sync' = IF box.uidvalidity > 0 THEN set_uidvalidity(set_last_synced_uid) ELSE set_last_synced_uid
  /\ scan' = NoScan
  /\ UNCHANGED <<box, rows, skipped, faults>>

(* The program stops, or the connection is lost and the scan fails.        *)
ScanLost ==
  /\ scan # NoScan /\ faults < MaxFaults /\ faults' = faults + 1
  /\ scan' = NoScan
  /\ UNCHANGED <<box, rows, threads, sync, skipped>>

build_threads == scan_folder_for_threads \/ process_fetched_message \/ Scanned \/ ScanLost \/ clear_last_synced_uid

ScanNext == Arrive \/ Expunge \/ Renumber \/ build_threads

ScanSpec == ScanInit /\ [][ScanNext]_scan_vars

-----------------------------------------------------------------------------
(* No message falls below the watermark without having been threaded,      *)
(* except one the scan gave up on: whatever arrives while a folder is      *)
(* scanned, across lost scans, rebuilds and renumbered folders, the next   *)
(* scan reads it (threading.rs scan_folder_for_threads).                   *)
WatermarkHonest ==
  sync.known /\ sync.uidvalidity = box.uidvalidity =>
    \A u \in Held \ skipped : u <= sync.last_uid => \E r \in rows : r.uid = u /\ r.mail = box.mail[u]
=============================================================================
