------------------------------ MODULE FolderReads ------------------------------
(***************************************************************************)
(* Reading an IMAP folder: all of it, batch by batch, or its newest        *)
(* messages.  Other sessions deliver and expunge between two commands.  A  *)
(* message is its UID; a batch is a set of ranges of UIDs.                 *)
(***************************************************************************)
EXTENDS Naturals, Sequences, FiniteSets, Functions, Rows

CONSTANTS
  GreatestUid,          \* u32::MAX
  DEFAULT_BATCH_SIZE, PEEK_LIMIT,
  Limits                \* how many of the newest are asked for

ASSUME ReadsAssumption ==
  /\ {GreatestUid, DEFAULT_BATCH_SIZE, PEEK_LIMIT} \subseteq Nat \ {0} /\ Limits \subseteq Nat
  /\ None \notin Limits \cup {PEEK_LIMIT}

VARIABLES
  folder,       \* UIDs of the messages in it
  next,         \* the UID the next one gets
  announces,    \* whether the server says so
  read,         \* the read under way: what it still asks for, and what it has
  kept,         \* messages it is about, there from its beginning until now
  fetched       \* what it returned, and how many were asked for

reads_vars == <<folder, next, announces, read, kept, fetched>>

Ascending(uids) ==
  CHOOSE list \in [1..Cardinality(uids) -> uids] : \A i, j \in DOMAIN list : i < j => list[i] < list[j]

-----------------------------------------------------------------------------
(* Batches.                                                                *)
least(a, b) == IF b < a THEN b ELSE a
saturating_add(a, b) == least(a + b, GreatestUid)

(* The pieces of first..last, each beginning after the one before it.     *)
(* Positions in a list of UIDs are counted like UIDs: there are no more of *)
(* them.                                                                   *)
Pieces(first, last, batch_size) ==
  LET start(i) == first + (i - 1) * batch_size
  IN [i \in {k \in 1..last : start(k) <= last} |->
        <<start(i), least(saturating_add(start(i), batch_size - 1), last)>>]

uid_range_batches(first_uid, last_uid, batch_size) ==
  IF first_uid = 0 \/ first_uid > last_uid THEN <<>>
  ELSE LET pieces == Pieces(first_uid, last_uid, batch_size)
       IN [i \in DOMAIN pieces |-> {pieces[i]}]

(* Neighbours become one range.                                            *)
compact_uid_sequence_set(uids) ==
  {r \in uids \X uids : /\ r[1] <= r[2] /\ r[1]..r[2] \subseteq uids
                        /\ \A u \in uids : (u < r[1] => r[1] # saturating_add(u, 1))
                                        /\ (u > r[2] => u # saturating_add(r[2], 1))}

(* No UID is 0, so that no batch of some UIDs is empty.                    *)
uid_sequence_set_batches(uids, batch_size) ==
  LET pieces == Pieces(1, Len(uids), batch_size)
  IN [i \in DOMAIN pieces |-> compact_uid_sequence_set({uids[j] : j \in pieces[i][1]..pieces[i][2]})]

Denotes(ranges) == UNION {r[1]..r[2] : r \in ranges}

-----------------------------------------------------------------------------
(* Other sessions.                                                         *)
Delivered ==
  /\ next <= GreatestUid
  /\ folder' = folder \cup {next} /\ next' = next + 1
  /\ UNCHANGED <<announces, read, kept, fetched>>

ExpungedElsewhere ==
  /\ \E u \in folder : folder' = folder \ {u} /\ kept' = kept \ {u}
  /\ UNCHANGED <<next, announces, read, fetched>>

-----------------------------------------------------------------------------
(* The whole folder.                                                       *)
last_uid == IF announces /\ next <= GreatestUid THEN next - 1 ELSE None
Listing == [step |-> "list"]
Batches(sets, out) == [step |-> "batches", sets |-> sets, out |-> out]

fetch_raw_messages ==
  /\ read = None /\ fetched = None /\ kept' = folder
  /\ \/ folder = {} /\ fetched' = [limit |-> None, uids |-> <<>>] /\ UNCHANGED read
     \/ /\ folder # {} /\ last_uid # None
        /\ read' = Batches(uid_range_batches(1, last_uid, DEFAULT_BATCH_SIZE), <<>>) /\ UNCHANGED fetched
     \/ folder # {} /\ last_uid = None /\ read' = Listing /\ UNCHANGED fetched
  /\ UNCHANGED <<folder, next, announces>>

list_selected_uids ==
  /\ read = Listing
  /\ read' = Batches(uid_sequence_set_batches(Ascending(folder), DEFAULT_BATCH_SIZE), <<>>)
  /\ UNCHANGED <<folder, next, announces, kept, fetched>>

Reading(step) == read # None /\ read.step = step

(* The server answers with those of the set that are still there.          *)
fetch_raw_messages_selected_uid_set ==
  /\ Reading("batches") /\ read.sets # <<>>
  /\ read' = Batches(Tail(read.sets), read.out \o Ascending(folder \cap Denotes(Head(read.sets))))
  /\ UNCHANGED <<folder, next, announces, kept, fetched>>

Return ==
  /\ Reading("batches") /\ read.sets = <<>>
  /\ read' = None /\ fetched' = [limit |-> None, uids |-> read.out]
  /\ UNCHANGED <<folder, next, announces, kept>>

(* Any command may fail, or an answer lack its message: nothing is         *)
(* returned then, and the caller may begin again.                          *)
Fails ==
  /\ read # None
  /\ read' = None
  /\ UNCHANGED <<folder, next, announces, kept, fetched>>

-----------------------------------------------------------------------------
(* The newest of some messages, as they were on opening: of a folder, by   *)
(* sequence numbers, or of those a query finds, by UIDs.                   *)
OpenWindow(uids, limit, step) ==
  /\ read = None /\ fetched = None /\ kept' = uids
  /\ IF uids = {} \/ limit = 0
       THEN fetched' = [limit |-> limit, uids |-> <<>>] /\ UNCHANGED read
       ELSE LET exists == Cardinality(uids)
                start == IF exists > limit THEN exists - limit + 1 ELSE 1
            IN /\ read' = [step |-> step, limit |-> limit,
                           asked |-> {Ascending(uids)[i] : i \in start..exists}]
               /\ UNCHANGED fetched
  /\ UNCHANGED <<folder, next, announces>>

fetch_inbox == \E limit \in Limits : OpenWindow(folder, limit, "summaries")
fetch_folder_summaries_read_only == fetch_inbox
peek_folder_headers_read_only == \E limit \in Limits : OpenWindow(folder, least(limit, PEEK_LIMIT), "peek")
search == \E limit \in Limits, hits \in SUBSET folder : OpenWindow(hits, limit, "summaries")

Still == Ascending(read.asked \cap folder)
NewestFirst(uids) == [i \in DOMAIN uids |-> uids[Len(uids) - i + 1]]

FetchWindow ==
  /\ \/ Reading("summaries") /\ fetched' = [limit |-> read.limit, uids |-> Still]
     \/ Reading("peek") /\ fetched' = [limit |-> read.limit, uids |-> NewestFirst(Still)]
  /\ read' = None /\ UNCHANGED <<folder, next, announces, kept>>

-----------------------------------------------------------------------------

ReadsTypeOK ==
  /\ folder \subseteq 1..GreatestUid /\ next \in 1..(GreatestUid + 1) /\ announces \in BOOLEAN
  /\ kept \subseteq folder
  /\ read = None \/ read.step \in {"list", "batches", "summaries", "peek"}
  /\ fetched = None \/ Range(fetched.uids) \subseteq 1..GreatestUid

ReadsInit ==
  /\ folder = {} /\ next = 1 /\ announces \in BOOLEAN
  /\ read = None /\ kept = {} /\ fetched = None

ReadsNext ==
  \/ Delivered \/ ExpungedElsewhere
  \/ fetch_raw_messages \/ list_selected_uids \/ fetch_raw_messages_selected_uid_set \/ Return
  \/ fetch_inbox \/ fetch_folder_summaries_read_only \/ peek_folder_headers_read_only \/ search
  \/ FetchWindow \/ Fails

ReadsSpec == ReadsInit /\ [][ReadsNext]_reads_vars

-----------------------------------------------------------------------------
(* Whatever others deliver and expunge meanwhile, with UIDs up to the last *)
(* one there is, and whether the server announces the next one or not: a   *)
(* read of the folder returns every message that stayed, each once; one of *)
(* the newest, or of the newest a query found, returns no older message in *)
(* place of one that stayed; and no batch asks for nothing or for more     *)
(* than a batch (imap.rs fetch_raw_messages, search, migrate.rs            *)
(* uid_sequence_set_batches).                                              *)
FolderReadWhole ==
  /\ fetched # None =>
       LET got == Range(fetched.uids)
       IN /\ Cardinality(got) = Len(fetched.uids)
          /\ IF fetched.limit = None THEN kept \subseteq got
             ELSE Cardinality(got) <= fetched.limit /\ \A u \in kept \ got, v \in got : u < v
  /\ Reading("batches") =>
       \A i \in DOMAIN read.sets : Cardinality(Denotes(read.sets[i])) \in 1..DEFAULT_BATCH_SIZE
=============================================================================
