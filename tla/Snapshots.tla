------------------------------- MODULE Snapshots -------------------------------
(***************************************************************************)
(* The data directory of the service: originals kept under their hash, a   *)
(* backup taken while the service runs, and a data directory restored from *)
(* it.  Each may be cut short anywhere.  A file is the version of its      *)
(* contents, whether it is all there, and whether it grants access.        *)
(***************************************************************************)
EXTENDS Naturals, FiniteSets, Rows

CONSTANTS
  Originals,       \* documents, named by their hash
  MaxWrites        \* bound on the changes of the database and of the configuration

FileNames == {"travel.db", "intelligence.json"} \cup Originals
File == [version : 0..MaxWrites, whole : BOOLEAN, grants : BOOLEAN]
Directory == [FileNames -> File \cup {None}]

ASSUME SnapshotsAssumption ==
  /\ MaxWrites \in Nat \ {0} /\ {"travel.db", "intelligence.json"} \cap Originals = {}
  /\ None \notin File \cup Directory /\ \A names \in SUBSET FileNames : names # None

VARIABLES
  live,         \* the files of the data directory
  scratch,      \* an unfinished temporary file lies in the document directory
  saving,       \* the document being stored
  output,       \* the files of the backup
  inventory,     \* what the backup says it holds
  exporting,    \* the running export: its step, what it noted and what it has left
  had,          \* documents when it began
  replaced,     \* the configuration was changed between its copy and its digest
  spoiled,      \* the backup medium lost a file
  destination,  \* the files of the restored directory
  restoring     \* names left to copy

snapshots_vars == <<live, scratch, saving, output, inventory, exporting, had, replaced, spoiled,
                    destination, restoring>>
live_vars == <<live, scratch, saving>>
export_vars == <<output, inventory, exporting, had, replaced>>
restore_dir_vars == <<destination, restoring>>

Empty_dir == [n \in FileNames |-> None]

SnapshotsTypeOK ==
  /\ live \in Directory /\ scratch \in BOOLEAN /\ saving \in Originals \cup {None}
  /\ {output, inventory, destination} \subseteq Directory \cup {None}
  /\ exporting = None \/ (exporting.step \in {"vacuum", "sanitize", "config", "digest", "list", "copy", "manifest"}
                          /\ exporting.files \in Directory /\ exporting.left \subseteq Originals)
  /\ had \subseteq Originals /\ {replaced, spoiled} \subseteq BOOLEAN
  /\ restoring = None \/ restoring \subseteq FileNames

SnapshotsInit ==
  /\ live = [n \in FileNames |->
       IF n = "travel.db" THEN [version |-> 0, whole |-> TRUE, grants |-> TRUE] ELSE None]
  /\ scratch = FALSE /\ saving = None
  /\ output = None /\ inventory = None /\ exporting = None /\ had = {} /\ replaced = FALSE
  /\ spoiled = FALSE /\ destination = None /\ restoring = None

-----------------------------------------------------------------------------
(* The service.                                                            *)
Original == [version |-> 0, whole |-> TRUE, grants |-> FALSE]

WriteRecord ==
  /\ live["travel.db"].version < MaxWrites
  /\ live' = [live EXCEPT !["travel.db"].version = @ + 1]
  /\ UNCHANGED <<scratch, saving, export_vars, spoiled, restore_dir_vars>>

put_config ==
  /\ \E v \in 1..MaxWrites :
       /\ v = 1 <=> live["intelligence.json"] = None
       /\ v > 1 => v = live["intelligence.json"].version + 1
       /\ live' = [live EXCEPT !["intelligence.json"] = [version |-> v, whole |-> TRUE, grants |-> FALSE]]
  /\ UNCHANGED <<scratch, saving, export_vars, spoiled, restore_dir_vars>>

(* An original is stored under its hash before anybody tries to read it.   *)
preserve_begun ==
  /\ saving = None /\ scratch' = TRUE
  /\ saving' \in Originals
  /\ UNCHANGED <<live, export_vars, spoiled, restore_dir_vars>>

persist_noclobber ==
  /\ saving # None /\ saving' = None /\ scratch' = FALSE
  /\ live' = [live EXCEPT ![saving] = Original]
  /\ UNCHANGED <<export_vars, spoiled, restore_dir_vars>>

(* A crash leaves the temporary file where it is.                          *)
CrashWhileSaving ==
  /\ saving # None /\ saving' = None
  /\ UNCHANGED <<live, scratch, export_vars, spoiled, restore_dir_vars>>

Service == WriteRecord \/ put_config \/ preserve_begun \/ persist_noclobber \/ CrashWhileSaving

-----------------------------------------------------------------------------
(* Taking a backup.                                                        *)
AtStep(step) == exporting # None /\ exporting.step = step
Present(files) == {d \in Originals : files[d] # None}
Noted(n, file, step) == [exporting EXCEPT !.files[n] = file, !.step = step]

BeginExport ==
  /\ output = None
  /\ output' = Empty_dir /\ had' = Present(live)
  /\ exporting' = [step |-> "vacuum", files |-> Empty_dir, left |-> {}]
  /\ UNCHANGED <<live_vars, inventory, replaced, spoiled, restore_dir_vars>>

VacuumInto ==
  /\ AtStep("vacuum")
  /\ output' = [output EXCEPT !["travel.db"] = live["travel.db"]]
  /\ exporting' = [exporting EXCEPT !.step = "sanitize"]
  /\ UNCHANGED <<live_vars, inventory, had, replaced, spoiled, restore_dir_vars>>

(* Passwords, share links, members, sessions, OAuth and push.              *)
Sanitized(db) == [db EXCEPT !.grants = FALSE]

Sanitize ==
  /\ AtStep("sanitize")
  /\ output' = [output EXCEPT !["travel.db"] = Sanitized(@)]
  /\ exporting' = Noted("travel.db", output'["travel.db"], "config")
  /\ UNCHANGED <<live_vars, inventory, had, replaced, spoiled, restore_dir_vars>>

CopyConfig ==
  /\ AtStep("config")
  /\ output' = [output EXCEPT !["intelligence.json"] = live["intelligence.json"]]
  /\ exporting' = [exporting EXCEPT !.step = IF live["intelligence.json"] = None THEN "list" ELSE "digest"]
  /\ UNCHANGED <<live_vars, inventory, had, replaced, spoiled, restore_dir_vars>>

(* The digest is that of the service's file, not of the copy.              *)
DigestConfig ==
  /\ AtStep("digest")
  /\ exporting' = Noted("intelligence.json", live["intelligence.json"], "list")
  /\ replaced' = (live["intelligence.json"] # output["intelligence.json"])
  /\ UNCHANGED <<live_vars, output, inventory, had, spoiled, restore_dir_vars>>

ListDocuments ==
  /\ AtStep("list") /\ ~scratch
  /\ exporting' = [exporting EXCEPT !.step = IF Present(live) = {} THEN "manifest" ELSE "copy",
                                    !.left = Present(live)]
  /\ UNCHANGED <<live_vars, output, inventory, had, replaced, spoiled, restore_dir_vars>>

(* In any order; one stored meanwhile may be listed or not.                *)
CopyDocument ==
  /\ AtStep("copy")
  /\ \E d \in Present(live) :
       /\ d \in exporting.left \/ output[d] = None
       /\ output' = [output EXCEPT ![d] = live[d]]
       /\ exporting' = [exporting EXCEPT !.files[d] = live[d], !.left = @ \ {d},
                          !.step = IF exporting.left \subseteq {d} THEN "manifest" ELSE "copy"]
  /\ UNCHANGED <<live_vars, inventory, had, replaced, spoiled, restore_dir_vars>>

(* The completion marker.                                                  *)
WriteManifest ==
  /\ AtStep("manifest")
  /\ inventory' = exporting.files /\ exporting' = None
  /\ UNCHANGED <<live_vars, output, had, replaced, spoiled, restore_dir_vars>>

(* A crash, in the middle of a file as well; or a file that is no document *)
(* where only documents may be.                                            *)
StopExport ==
  /\ exporting # None /\ exporting' = None
  /\ \/ output' = output
     \/ AtStep("vacuum") /\ output' = [output EXCEPT !["travel.db"] = [live["travel.db"] EXCEPT !.whole = FALSE]]
     \/ \E d \in Originals :
          AtStep("copy") /\ output[d] = None /\ output' = [output EXCEPT ![d] = [Original EXCEPT !.whole = FALSE]]
  /\ UNCHANGED <<live_vars, inventory, had, replaced, spoiled, restore_dir_vars>>

TakeBackup ==
  \/ BeginExport \/ VacuumInto \/ Sanitize \/ CopyConfig \/ DigestConfig
  \/ ListDocuments \/ CopyDocument \/ WriteManifest \/ StopExport

(* A file of the backup goes bad, while nobody restores it.                *)
Spoil ==
  /\ inventory # None /\ restoring = None /\ ~spoiled
  /\ \E n \in FileNames : output[n] # None /\ output' = [output EXCEPT ![n].whole = FALSE]
  /\ spoiled' = TRUE
  /\ UNCHANGED <<live_vars, inventory, exporting, had, replaced, restore_dir_vars>>

-----------------------------------------------------------------------------
(* Restoring: everything is verified before anything is written.           *)
Recorded == {n \in FileNames : inventory[n] # None}
Verified == "travel.db" \in Recorded /\ \A n \in Recorded : output[n] = inventory[n] /\ output[n].whole

BeginRestore ==
  /\ destination = None /\ inventory # None /\ Verified
  /\ destination' = Empty_dir /\ restoring' = Recorded
  /\ UNCHANGED <<live_vars, export_vars, spoiled>>

(* The database comes last.                                                *)
NextFiles == IF restoring = {"travel.db"} THEN restoring ELSE restoring \ {"travel.db"}

RestoreFile ==
  /\ restoring \notin {None, {}}
  /\ \E n \in NextFiles :
       /\ destination' = [destination EXCEPT ![n] = output[n]]
       /\ restoring' = restoring \ {n}
  /\ UNCHANGED <<live_vars, export_vars, spoiled>>

StopRestore ==
  /\ restoring \notin {None, {}} /\ restoring' = None
  /\ \E n \in NextFiles :
       destination' = [destination EXCEPT ![n] = [output[n] EXCEPT !.whole = FALSE]]
  /\ UNCHANGED <<live_vars, export_vars, spoiled>>

restore == BeginRestore \/ RestoreFile \/ StopRestore

-----------------------------------------------------------------------------

SnapshotsNext == Service \/ TakeBackup \/ Spoil \/ restore

SnapshotsSpec == SnapshotsInit /\ [][SnapshotsNext]_snapshots_vars

-----------------------------------------------------------------------------
(* Wherever an export or a restore was cut, and whatever the service wrote *)
(* meanwhile: a backup that has its manifest can be restored (unless the   *)
(* configuration was replaced under it, or the medium spoiled it), holds   *)
(* the originals that were there when it began and grants nobody anything; *)
(* and a restored directory with a whole database has all of that          *)
(* (backup.rs export, restore).                                            *)
BackupsHold ==
  /\ inventory # None =>
       /\ spoiled \/ replaced \/ Verified
       /\ had \subseteq Recorded /\ ~inventory["travel.db"].grants
  /\ destination # None /\ destination["travel.db"] # None /\ destination["travel.db"].whole =>
       \A n \in Recorded : destination[n] = inventory[n]
=============================================================================
