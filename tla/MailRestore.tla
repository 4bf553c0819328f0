----------------------------- MODULE MailRestore -----------------------------
(***************************************************************************)
(* Restoring a mail archive into another account.  A sidecar file records  *)
(* every message twice, before and after its IMAP APPEND, so that a rerun  *)
(* after a crash appends nothing again.  A line of the sidecar reaches the *)
(* disk in pieces: its text, then its newline.  The loop that restores is  *)
(* the command line's, which is not in this repository: it follows the     *)
(* protocol backup.rs documents.                                           *)
(***************************************************************************)
EXTENDS Naturals, Sequences, FiniteSets, SequencesExt

CONSTANTS
  Archived,     \* messages of the manifest
  Folder,       \* the folder of each
  Identified,   \* those with a Message-ID
  MaxStops,     \* bound on crashes
  MaxLines      \* bound on the sidecar

ASSUME RestoreAssumption ==
  /\ Identified \subseteq Archived /\ {MaxStops, MaxLines} \subseteq Nat

VARIABLES
  files,        \* what the archive directory holds for each message
  manifest,     \* manifest.json: none, its temporary file, or in place
  sidecar,      \* lines, each the entries run together on it
  unended,      \* whether the last line lacks its newline
  run,          \* the restore under way
  appended,     \* copies of each message in the destination
  stops

restore_vars == <<files, manifest, sidecar, unended, run, appended, stops>>

RestoreStateRecord == [message : Archived, status : {"pending", "done", "torn"}]
(* Written to a temporary name, then renamed.                              *)
ArchiveManifest == {"none", "temporary", "in place"}
NoRun == [step |-> "idle", plan |-> {}, message |-> {}]

RestoreTypeOK ==
  /\ files \in [Archived -> {"absent", "whole", "resized", "altered", "symlink"}]
  /\ manifest \in ArchiveManifest
  /\ sidecar \in Seq(Seq(RestoreStateRecord)) /\ unended \in BOOLEAN
  /\ run.step \in {"idle", "next", "append", "done", "newline before", "newline after"}
  /\ run.plan \subseteq Archived /\ run.message \subseteq Archived /\ Cardinality(run.message) <= 1
  /\ appended \in [Archived -> Nat] /\ stops \in 0..MaxStops

RestoreInit ==
  /\ files = [m \in Archived |-> "absent"] /\ manifest = "none"
  /\ sidecar = <<>> /\ unended = FALSE /\ run = NoRun
  /\ appended = [m \in Archived |-> 0] /\ stops = 0

-----------------------------------------------------------------------------
(* The archive.                                                            *)

Export ==
  /\ manifest = "none" /\ \E m \in Archived : files[m] = "absent" /\ files' = [files EXCEPT ![m] = "whole"]
  /\ UNCHANGED <<manifest, sidecar, unended, run, appended, stops>>

(* The manifest is the last file, and appears by a rename.                 *)
write_atomic ==
  /\ \A m \in Archived : files[m] # "absent" \/ manifest # "none"
  /\ manifest' = IF manifest = "none" THEN "temporary" ELSE "in place"
  /\ manifest # "in place"
  /\ UNCHANGED <<files, sidecar, unended, run, appended, stops>>

Damage ==
  /\ manifest = "in place" /\ stops < MaxStops /\ stops' = stops + 1
  /\ \E m \in Archived, to \in {"absent", "resized", "altered", "symlink"} : files' = [files EXCEPT ![m] = to]
  /\ UNCHANGED <<manifest, sidecar, unended, run, appended>>

read_manifest == IF manifest = "in place" THEN Archived ELSE {}

validate_materialized_message_path(m) == files[m] \notin {"absent", "symlink"}

(* Whole: every message is there, of its size and with its digest.         *)
verify_archive ==
  LET missing == {m \in read_manifest : ~validate_materialized_message_path(m)}
      corrupt == {m \in read_manifest \ missing : files[m] \in {"resized", "altered"}}
  IN [ok |-> manifest = "in place" /\ missing = {} /\ corrupt = {}, missing |-> missing, corrupt |-> corrupt]

-----------------------------------------------------------------------------
(* The sidecar.                                                            *)

(* A line that a crash cut short, or that was written onto such a line.    *)
Malformed == {i \in DOMAIN sidecar : Len(sidecar[i]) > 1 \/ sidecar[i][1].status = "torn"}

Parsed == {sidecar[i][1] : i \in DOMAIN sidecar \ Malformed}
Marked(status) == {e.message : e \in {x \in Parsed : x.status = status}}

(* Mutant: a pending message counts as restored, in silence.               *)
load_without_warnings == [records |-> Marked("done") \cup Marked("pending"), warnings |-> {}]

(* A pending message counts as restored, and is reported.                  *)
load_restore_state ==
  [records |-> Marked("done") \cup Marked("pending"), warnings |-> Marked("pending") \ Marked("done")]

plan_restore(included) == {m \in read_manifest \ load_restore_state.records : Folder[m] \in included}

(* What an audit can tell about a pending message.                         *)
plan_restore_state_audit(included) ==
  {[message |-> m, status |-> IF m \in Identified THEN "planned" ELSE "unknown_no_message_id"] :
     m \in {x \in load_restore_state.warnings : Folder[x] \in included}}

(* The text goes to the end of the file, wherever that is.                 *)
Written(entry) == IF unended THEN [sidecar EXCEPT ![Len(sidecar)] = Append(@, entry)]
                  ELSE Append(sidecar, <<entry>>)

EntryFor(m, status) == [message |-> m, status |-> status]

-----------------------------------------------------------------------------
(* A restore.                                                              *)

Begin ==
  /\ run = NoRun /\ manifest = "in place" /\ Len(sidecar) < MaxLines
  /\ \E included \in (SUBSET {Folder[m] : m \in Archived}) \ {{}} :
       run' = [NoRun EXCEPT !.step = "next", !.plan = plan_restore(included)]
  /\ UNCHANGED <<files, manifest, sidecar, unended, appended, stops>>

(* append_restore_state_line, its first write: the text.                   *)
WriteText(step, status, next) ==
  /\ run.step = step
  /\ \E m \in IF step = "next" THEN run.plan ELSE run.message :
       /\ step = "next" => validate_materialized_message_path(m)
       /\ sidecar' = Written(EntryFor(m, status))
       /\ run' = [run EXCEPT !.step = next, !.message = {m}, !.plan = @ \ {m}]
  /\ unended' = TRUE /\ UNCHANGED <<files, manifest, appended, stops>>

(* Its second: the newline, and the sync.                                  *)
WriteNewline(step, next) ==
  /\ run.step = step /\ unended' = FALSE
  /\ run' = [run EXCEPT !.step = next]
  /\ UNCHANGED <<files, manifest, sidecar, appended, stops>>

append_restore_state_line ==
  \/ WriteText("next", "pending", "newline before") \/ WriteNewline("newline before", "append")
  \/ WriteText("done", "done", "newline after") \/ WriteNewline("newline after", "next")

append_message ==
  /\ run.step = "append"
  /\ \E m \in run.message : appended' = [appended EXCEPT ![m] = @ + 1]
  /\ run' = [run EXCEPT !.step = "done"]
  /\ UNCHANGED <<files, manifest, sidecar, unended, stops>>

(* Everything planned is restored, or its file is unusable.                *)
RestoreDone ==
  /\ run.step = "next" /\ \A m \in run.plan : ~validate_materialized_message_path(m)
  /\ run' = NoRun
  /\ UNCHANGED <<files, manifest, sidecar, unended, appended, stops>>

(* The program stops: between two steps, or while it writes a line, in     *)
(* which case part of the text may be there.                               *)
Stop ==
  /\ run # NoRun /\ stops < MaxStops /\ stops' = stops + 1 /\ run' = NoRun
  /\ IF run.step \notin {"newline before", "newline after"} THEN UNCHANGED sidecar
     ELSE \E status \in {Last(Last(sidecar)).status, "torn"} :
            sidecar' = [sidecar EXCEPT ![Len(sidecar)][Len(sidecar[Len(sidecar)])].status = status]
  /\ UNCHANGED <<files, manifest, unended, appended>>

RestoreNext ==
  \/ Export \/ write_atomic \/ Damage
  \/ Begin \/ append_restore_state_line \/ append_message \/ RestoreDone \/ Stop

RestoreSpec == RestoreInit /\ [][RestoreNext]_restore_vars

-----------------------------------------------------------------------------
(* "If the process crashes after APPEND but before the `Done` line lands,  *)
(* the pending record is enough to prevent a duplicate on rerun"           *)
(* (backup.rs RestoreStatus) - if its line can be read: a message is       *)
(* appended once, and once more at most for each malformed line that holds *)
(* a record of it, of which load_restore_state warns.                      *)
AppendedOnce ==
  \A m \in Archived :
    appended[m] <= 1 + Cardinality({i \in Malformed : \E e \in Range(sidecar[i]) : e.message = m})

(* And whenever no restore is running, a message that is not in the        *)
(* destination is planned by the next one or listed by the audit: none is  *)
(* silently left out (backup.rs plan_restore, plan_restore_state_audit).   *)
(* An archive that verifies holds every message as it was exported.        *)
NoneLeftOut ==
  /\ AppendedOnce
  /\ verify_archive.ok => \A m \in Archived : files[m] = "whole"
  /\ run = NoRun => \A m \in read_manifest : appended[m] = 0 =>
       LET all == {Folder[x] : x \in Archived}
       IN m \in plan_restore(all) \/ \E row \in plan_restore_state_audit(all) : row.message = m
=============================================================================
