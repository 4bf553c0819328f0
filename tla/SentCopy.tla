------------------------------- MODULE SentCopy -------------------------------
(***************************************************************************)
(* After SMTP accepted a message: is there a copy of it in the Sent        *)
(* folder, who put it there, and what becomes of the draft's own copy in   *)
(* the Drafts folder.  The mail provider may file a copy of its own, at    *)
(* its own time; the client appends one only if it found none.  Folders    *)
(* are found by a detection that caches its answers, every IMAP command    *)
(* may fail, and the answer to an APPEND may be lost after the server      *)
(* stored the copy.                                                        *)
(***************************************************************************)
EXTENDS Naturals, Sequences, FiniteSets, FiniteSetsExt, Functions, Rows

CONSTANTS
  Servers,      \* folder inventories a server may have
  MaxCopies     \* bound on the messages ever put in a folder

VARIABLES
  folders,      \* the folders on the server
  provider,     \* accounts.provider_type
  detected,     \* detected_folders, by canonical type
  stored,       \* the messages on the server
  autosaves,    \* provider_auto_saves_sent, of the account
  copying,      \* resolve_sent_copy_after_send, under way
  proof,        \* metadata.sent_copy of the sent draft
  cleaning,     \* delete_provider_draft_exact, under way
  removed       \* history: what cleanup deleted

sentcopy_vars == <<folders, provider, detected, stored, autosaves, copying, proof, cleaning, removed>>

-----------------------------------------------------------------------------
(* Providers and their folders (drafts and sent stand for the five types). *)

ProviderType == {"gmail", "standard", "dovecot", "exchange"}
Canonical == {"drafts", "sent"}

detect_provider(fs) ==
  CASE fs \cap {"[Gmail]/Sent Mail", "[Gmail]/Drafts"} # {} -> "gmail"
    [] fs \cap {"INBOX.Sent", "INBOX.Drafts"} # {} -> "dovecot"
    [] "Deleted Items" \in fs -> "exchange"
    [] OTHER -> "standard"

resolve_folder(p, type) ==
  CASE p = "gmail"    -> [sent |-> "[Gmail]/Sent Mail", drafts |-> "[Gmail]/Drafts"][type]
    [] p = "dovecot"  -> [sent |-> "INBOX.Sent", drafts |-> "INBOX.Drafts"][type]
    [] p = "exchange" -> [sent |-> "Sent Items", drafts |-> "Drafts"][type]
    [] OTHER          -> [sent |-> "Sent", drafts |-> "Drafts"][type]

all_candidates_for(type) ==
  IF type = "sent" THEN <<"Sent", "Sent Mail", "Sent Items", "[Gmail]/Sent Mail", "INBOX.Sent">>
                   ELSE <<"Drafts", "[Gmail]/Drafts", "INBOX.Drafts">>

(* Heuristics for names no list has, localized ones among them.            *)
looks_like(type) == IF type = "sent" THEN {"Mail sent"} ELSE {"Brouillons"}

classify_folder(name) ==
  IF \E t \in Canonical : \E i \in DOMAIN all_candidates_for(t) : all_candidates_for(t)[i] = name
    THEN CHOOSE t \in Canonical : \E i \in DOMAIN all_candidates_for(t) : all_candidates_for(t)[i] = name
    ELSE "other"

(* The cached row, which nothing checks again; the provider's folder; the  *)
(* first candidate; or none.                                               *)
detect_folder(type) ==
  LET p     == IF provider = None THEN detect_provider(folders) ELSE provider
      known == {i \in DOMAIN all_candidates_for(type) : all_candidates_for(type)[i] \in folders}
  IN CASE detected[type] # None -> detected[type]
       [] detected[type] = None /\ resolve_folder(p, type) \in folders -> resolve_folder(p, type)
       [] detected[type] = None /\ resolve_folder(p, type) \notin folders /\ known # {} ->
            all_candidates_for(type)[Min(known)]
       [] OTHER -> None

(* The folder the server says has that role.                               *)
drafts_special_use_folder == IF "Brouillons" \in folders THEN "Brouillons" ELSE None

LookAlikes(type) == IF looks_like(type) \cap folders = {} THEN {None} ELSE looks_like(type) \cap folders

(* The answers detection may give; any of the look-alikes comes last.      *)
detect_sent_folder ==
  IF detect_folder("sent") # None THEN {detect_folder("sent")} ELSE LookAlikes("sent")

detect_drafts_folder ==
  CASE detected["drafts"] = None /\ drafts_special_use_folder # None -> {drafts_special_use_folder}
    [] detected["drafts"] # None \/ (drafts_special_use_folder = None /\ detect_folder("drafts") # None) ->
         {detect_folder("drafts")}
    [] OTHER -> LookAlikes("drafts")

(* Detecting the provider fills the cache of every folder it resolves to.  *)
FolderFound(type, name) ==
  LET p == detect_provider(folders)
      asked == detected[type] = None /\ ~(type = "drafts" /\ name = drafts_special_use_folder)
      learnt == IF asked /\ provider = None THEN {t \in Canonical : resolve_folder(p, t) \in folders} ELSE {}
  IN /\ provider' = IF asked /\ provider = None THEN p ELSE provider
     /\ detected' = [t \in Canonical |->
          IF t = type /\ name # None THEN name
          ELSE IF t \in learnt THEN resolve_folder(p, t) ELSE detected[t]]

-----------------------------------------------------------------------------
(* Messages: the one sent, its draft, and one whose id contains both ids.  *)

MessageId == {"ours", "draft", "longer"}
Copy == [uid : 1..MaxCopies, folder : UNION Servers, id : MessageId, by : {"provider", "client", "other"},
    bcc : BOOLEAN]

(* Only the sender's own archive keeps the Bcc header.                     *)
build_message(id, keep_bcc) == [id |-> id, bcc |-> keep_bcc]

Put(folder, by, message) ==
  stored \cup {[uid |-> Cardinality(stored \cup removed) + 1, folder |-> folder, by |-> by,
    id |-> message.id, bcc |-> message.bcc]}

HasRoom == Cardinality(stored \cup removed) < MaxCopies

(* SEARCH HEADER matches substrings; its first hit is any of them.         *)
message_id_search(folder, id) == {m \in stored : m.folder = folder /\ m.id \in {id, "longer"}}

(* Its hits are only candidates: their headers are fetched and compared.   *)
find_exact_message_id_match(folder, id) == {m \in message_id_search(folder, id) : m.id = id}

classify_exact_message_id_match(matches) ==
  CASE matches = {} -> "none" [] Cardinality(matches) = 1 -> "unique" [] OTHER -> "ambiguous"

-----------------------------------------------------------------------------
LookupStatus == {"found", "ambiguous", "not_found", "lookup_failed",
                 "imap_connect_failed", "sent_folder_not_found", "sent_folder_detection_failed"}

SentMailProof == [folder : {None} \cup UNION Servers, uid : 1..MaxCopies \cup {None}, lookup_status : LookupStatus,
                  copy_source : {"provider", "client_appended", "unresolved"}]

SentCopyTypeOK ==
  /\ folders \in Servers /\ provider \in ProviderType \cup {None}
  /\ \A t \in Canonical : detected[t] = None \/ detected[t] \in UNION Servers
  /\ stored \subseteq Copy /\ removed \subseteq Copy /\ autosaves \in BOOLEAN
  /\ copying.step \in {"idle", "lookup", "trying", "append", "resolved", "recorded", "lost"}
       /\ copying.tries \in 0..2
  /\ proof \in SentMailProof \cup {None}
  /\ cleaning = None \/ cleaning.uid \in 1..MaxCopies

SentCopyInit ==
  /\ folders \in Servers /\ provider = None /\ detected = [t \in Canonical |-> None]
  /\ stored = {} /\ autosaves \in BOOLEAN /\ proof = None /\ cleaning = None /\ removed = {}
  /\ copying = [step |-> "idle", again |-> FALSE, folder |-> None, tries |-> 0, status |-> None, uid |-> None,
                attempted |-> FALSE, appended |-> FALSE, early |-> FALSE]

(* Other mail.                                                             *)
MailArrives ==
  /\ copying.step = "idle" /\ HasRoom
  /\ \E f \in folders : stored' = Put(f, "other", build_message("longer", FALSE))
  /\ UNCHANGED <<folders, provider, detected, autosaves, copying, proof, cleaning, removed>>

(* A copy of the draft is appended where drafts are; perhaps twice.        *)
DraftAppended ==
  /\ copying.step = "idle" /\ HasRoom
  /\ \E f \in detect_drafts_folder \cap folders :
       /\ FolderFound("drafts", f) /\ stored' = Put(f, "other", build_message("draft", TRUE))
  /\ UNCHANGED <<folders, autosaves, copying, proof, cleaning, removed>>

(* Bound: folders are renamed while they are empty.                        *)
FoldersChange ==
  /\ stored = {} /\ folders' \in Servers
  /\ UNCHANGED <<provider, detected, stored, autosaves, copying, proof, cleaning, removed>>

(* The last listed folder of a type takes its row.                         *)
classify_folders ==
  /\ provider' = IF provider = None THEN detect_provider(folders) ELSE provider
  /\ detected' \in {d \in [Canonical -> folders \cup Range(detected)] :
       \A t \in Canonical : LET named == {f \in folders : classify_folder(f) = t}
                            IN d[t] \in (IF named = {} THEN {detected[t]} ELSE named)}
  /\ UNCHANGED <<folders, stored, autosaves, copying, proof, cleaning, removed>>

-----------------------------------------------------------------------------
(* The copy in the Sent folder.                                            *)

provider_auto_saves_sent == autosaves

(* SMTP accepted the message.                                              *)
send ==
  /\ copying.step = "idle" /\ copying' = [copying EXCEPT !.step = "lookup"]
  /\ UNCHANGED <<folders, provider, detected, stored, autosaves, proof, cleaning, removed>>

(* Providers not known to file a copy may do so.                           *)
ProviderFiles ==
  /\ copying.step \notin {"idle", "recorded", "lost"} /\ HasRoom /\ ~\E m \in stored : m.by = "provider"
  /\ \E f \in folders : /\ classify_folder(f) = "sent" \/ f \in looks_like("sent")
                        /\ stored' = Put(f, "provider", build_message("ours", FALSE))
  /\ UNCHANGED <<folders, provider, detected, autosaves, copying, proof, cleaning, removed>>

(* Mutant: a lookup that failed counts as an absence.                      *)
decide_on_any_miss(status) ==
  IF status \in {"not_found", "lookup_failed"} /\ ~provider_auto_saves_sent THEN "append" ELSE "resolved"

(* Only a definitive absence, from a provider not known to file copies.    *)
decide_sent_copy_action(status) ==
  IF status = "not_found" /\ ~provider_auto_saves_sent THEN "append" ELSE "resolved"

determine_copy_source(c) ==
  CASE c.appended -> "client_appended" [] c.status = "found" -> "provider" [] OTHER -> "unresolved"

(* The first lookup decides whether to append; the second is the proof.    *)
Answer(c, status, uid) ==
  [c EXCEPT !.status = status, !.uid = uid, !.tries = 0,
            !.step = IF c.again THEN "resolved" ELSE decide_sent_copy_action(status)]

(* Connect and detect the folder; then up to three searches.               *)
find_sent_mail_by_message_id ==
  /\ copying.step = "lookup"
  /\ \/ /\ \E status \in {"imap_connect_failed", "sent_folder_detection_failed"} :
              copying' = Answer([copying EXCEPT !.folder = None], status, None)
        /\ UNCHANGED <<provider, detected>>
     \/ \E f \in detect_sent_folder :
          /\ FolderFound("sent", f)
          /\ copying' = IF f = None THEN Answer([copying EXCEPT !.folder = None], "sent_folder_not_found", None)
                        ELSE [copying EXCEPT !.step = "trying", !.folder = f,
                                !.early = IF copying.again THEN @ ELSE find_exact_message_id_match(f, "ours") # {}]
  /\ UNCHANGED <<folders, stored, autosaves, proof, cleaning, removed>>

(* A search may fail, and does in a folder that is gone.  If none found a  *)
(* copy, the last of them tells absence from failure.                      *)
Search ==
  /\ copying.step = "trying"
  /\ LET matches == find_exact_message_id_match(copying.folder, "ours")
         Missed(status) == IF copying.tries = 2 THEN Answer(copying, status, None)
           ELSE [copying EXCEPT !.tries = @ + 1]
     IN \/ copying' = Missed("lookup_failed")
        \/ /\ copying.folder \in folders
           /\ copying' = CASE classify_exact_message_id_match(matches) = "none" -> Missed("not_found")
                           [] classify_exact_message_id_match(matches) = "unique" ->
                                Answer(copying, "found", (CHOOSE m \in matches : TRUE).uid)
                           [] OTHER -> Answer(copying, "ambiguous", None)
  /\ UNCHANGED <<folders, provider, detected, stored, autosaves, proof, cleaning, removed>>

(* Whatever its answer, a failed APPEND may have stored the copy.          *)
append_sent_copy ==
  /\ copying.step = "append"
  /\ \E answered, kept \in BOOLEAN :
       /\ answered => kept
       /\ copying' = [copying EXCEPT !.step = "lookup", !.again = TRUE, !.attempted = TRUE, !.appended = answered]
       /\ IF kept THEN \E f \in detect_sent_folder \cap folders :
                         /\ FolderFound("sent", f) /\ HasRoom
                              /\ stored' = Put(f, "client", build_message("ours", TRUE))
                  ELSE UNCHANGED <<provider, detected, stored>>
  /\ UNCHANGED <<folders, autosaves, proof, cleaning, removed>>

record_sent_copy_proof ==
  /\ copying.step = "resolved" /\ copying' = [copying EXCEPT !.step = "recorded"]
  /\ proof' = [folder |-> copying.folder, uid |-> copying.uid, lookup_status |-> copying.status,
               copy_source |-> determine_copy_source(copying)]
  /\ UNCHANGED <<folders, provider, detected, stored, autosaves, cleaning, removed>>

(* The process stops: the message is sent, and no proof is ever recorded.  *)
CopyLost ==
  /\ copying.step \notin {"idle", "recorded", "lost"} /\ copying' = [copying EXCEPT !.step = "lost"]
  /\ UNCHANGED <<folders, provider, detected, stored, autosaves, proof, cleaning, removed>>

-----------------------------------------------------------------------------
(* The copy in the Drafts folder.                                          *)

(* The folder is the cached one, never a guess.                            *)
resolve_draft_cleanup_target == detected["drafts"]

LocateDraft ==
  /\ copying.step # "idle" /\ cleaning = None /\ resolve_draft_cleanup_target # None
  /\ LET matches == find_exact_message_id_match(resolve_draft_cleanup_target, "draft")
     IN Cardinality(matches) = 1 /\ cleaning' = CHOOSE m \in matches : TRUE
  /\ UNCHANGED <<folders, provider, detected, stored, autosaves, copying, proof, removed>>

delete_provider_draft_exact ==
  /\ cleaning # None /\ cleaning' = None
  /\ stored' = {m \in stored : m.folder # cleaning.folder \/ m.uid # cleaning.uid}
  /\ removed' = removed \cup (stored \ stored')
  /\ UNCHANGED <<folders, provider, detected, autosaves, copying, proof>>

SentCopyNext ==
  \/ MailArrives \/ DraftAppended \/ FoldersChange \/ classify_folders \/ send \/ ProviderFiles
  \/ find_sent_mail_by_message_id \/ Search \/ append_sent_copy \/ record_sent_copy_proof \/ CopyLost
  \/ LocateDraft \/ delete_provider_draft_exact

SentCopySpec == SentCopyInit /\ [][SentCopyNext]_sentcopy_vars

-----------------------------------------------------------------------------
(* A copy that was in the Sent folder before the lookup is never doubled   *)
(* by the client, whatever fails; a recorded UID is that of a copy of this *)
(* message and the client appends one at most; and cleanup removes nothing *)
(* but the draft's own copy                                                *)
(* (sent_proof.rs resolve_sent_copy_after_send, draft_cleanup.rs).         *)
SentCopyOnce ==
  /\ ~(copying.early /\ copying.attempted)
  /\ Cardinality({m \in stored : m.by = "client"}) <= 1
  /\ proof # None => /\ proof.uid # None =>
                          \E m \in stored : m.uid = proof.uid /\ m.folder = proof.folder /\ m.id = "ours"
                     /\ proof.copy_source = "client_appended" => \E m \in stored : m.by = "client"
  /\ \A m \in removed : m.id = "draft"
=============================================================================
