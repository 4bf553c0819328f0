---------------------------- MODULE EvidenceBundle ----------------------------
(***************************************************************************)
(* Collecting mail as evidence: the messages a query matched and, by their *)
(* headers, the rest of their threads, up to a limit; the bundle they are  *)
(* written to, file by file, and its verification; and the export of a     *)
(* message's attachments.  Damage to the files and a stop of the writer    *)
(* come from outside.  A query, a digest and the text of a file stand for  *)
(* themselves: two files have one digest if they have the same content.    *)
(***************************************************************************)
EXTENDS Naturals, Sequences, FiniteSets, FiniteSetsExt, Rows

CONSTANTS
  Letters,       \* the messages of a folder
  Heads,         \* [Letters -> [in_reply_to, references]], headers they may have
  ThreadLimit,   \* max_messages
  Attached       \* attachments of a message: [name, bytes, text]

VARIABLES
  task,          \* which of the three a behaviour exercises: they share nothing
  expansion,     \* expand_header_threads, under way
  bundle,        \* the files of the bundle
  writer,        \* write_evidence_bundle: what it has still to write
  verified,      \* the outcome of verify_bundle, and whether it was right
  export         \* export_one_attachment, attachment by attachment

evidence_vars == <<task, expansion, bundle, writer, verified, export>>

-----------------------------------------------------------------------------
(* Threads by header.                                                      *)

HeaderThreadMessage == [in_reply_to : Letters \cup {None}, references : Seq(Letters)]
ASSUME HeadsAssumption == Heads \subseteq [Letters -> HeaderThreadMessage]

(* A chain of references reaches the parser joined by spaces and without   *)
(* brackets, and comes back as one id, which no message has.               *)
extract_message_ids(references) ==
  IF Len(references) = 1 THEN {references[1]} ELSE IF references = <<>> THEN {} ELSE {references}

parent_ids(m) == extract_message_ids(expansion.head[m].references) \cup ({expansion.head[m].in_reply_to} \ {None})

parent_by_uid(m) == parent_ids(m) \cap expansion.fetched
children_by_uid(m) == {c \in expansion.fetched : m \in parent_by_uid(c)}

missing_parents == (UNION {parent_ids(m) : m \in expansion.matched}) \ expansion.fetched

(* The two walks start from the matches: up, then down.                    *)
StartExpansion ==
  /\ expansion.phase = "idle"
  /\ \E fetched \in SUBSET Letters, head \in Heads : \E matched \in (SUBSET fetched) \ {{}} :
       expansion' = [phase |-> "up", head |-> head, fetched |-> fetched, matched |-> matched, included |-> matched,
                     ancestors |-> {}, descendants |-> {}, queue |-> matched,
                     limited |-> Cardinality(matched) > ThreadLimit, missing |-> {}]
  /\ UNCHANGED <<task, bundle, writer, verified, export>>

(* The neighbours of m that are new are included while there is room.      *)
Walk(m, neighbours, reached) ==
  LET x    == expansion
      next == neighbours \ reached
      new  == next \ x.included
      room == IF Cardinality(x.included) >= ThreadLimit THEN 0 ELSE ThreadLimit - Cardinality(x.included)
  IN {[x EXCEPT !.included = @ \cup taken, !.queue = (@ \ {m}) \cup taken \cup (next \cap x.included),
                !.limited = @ \/ taken # new] : taken \in kSubset(Min({room, Cardinality(new)}), new)}

(* The queue's order follows that of a hash set: any.                      *)
Step ==
  /\ expansion.phase \in {"up", "down"}
  /\ LET up == expansion.phase = "up" IN
     \/ \E m \in expansion.queue :
          LET neighbours == IF up THEN parent_by_uid(m) ELSE children_by_uid(m)
              reached    == IF up THEN expansion.ancestors ELSE expansion.descendants
          IN \E y \in Walk(m, neighbours, reached) :
               LET seen == reached \cup (neighbours \cap y.included)
               IN expansion' = IF up THEN [y EXCEPT !.ancestors = seen] ELSE [y EXCEPT !.descendants = seen]
     \/ /\ expansion.queue = {}
        /\ expansion' = IF up THEN [expansion EXCEPT !.phase = "down", !.queue = expansion.matched]
                              ELSE [expansion EXCEPT !.phase = "done", !.missing = missing_parents]
  /\ UNCHANGED <<task, bundle, writer, verified, export>>

-----------------------------------------------------------------------------
(* The bundle.                                                             *)

Records == {"message 1", "message 2"}
WriteOrder == <<"message 1", "message 2", "manifest.json", "index.csv", "README.md", "SHA256SUMS", "bundle.sha256">>
Files == {WriteOrder[i] : i \in 1..Len(WriteOrder)}

(* Every file is put in place whole; the digest over all of them is last.  *)
write_evidence_bundle ==
  /\ writer > 0
  /\ bundle' = [bundle EXCEPT ![WriteOrder[Len(WriteOrder) + 1 - writer]] = "good"] /\ writer' = writer - 1
  /\ UNCHANGED <<task, expansion, verified, export>>

(* A file may be damaged, lost, or added beside the others.                *)
BundleDamage ==
  /\ \/ \E f \in Files : bundle[f] # None /\ \E now \in {"bad", None} : bundle' = [bundle EXCEPT ![f] = now]
     \/ bundle' = [bundle EXCEPT !["extra"] = "bad"]
  /\ UNCHANGED <<task, expansion, writer, verified, export>>

manifest_reads == bundle["manifest.json"] = "good"

(* Mutant: a bundle without its digest file passes.                        *)
top_level_digest_if_present == bundle["bundle.sha256"] # None /\ \E f \in Files : bundle[f] # "good"

(* The digest is computed again over the files it was computed over.       *)
top_level_digest_mismatch == \E f \in Files : bundle[f] # "good"

verify_bundle ==
  /\ \E strict \in BOOLEAN :
       LET missing == {f \in Records : bundle[f] = None}
           corrupt == {f \in Records : bundle[f] = "bad"}
           ok      == missing = {} /\ corrupt = {} /\ ~top_level_digest_mismatch
                      /\ (strict => bundle["extra"] = None)
       IN verified' = IF manifest_reads
                        THEN [ok |-> ok, whole |-> \A f \in Files : bundle[f] = "good",
                               alone |-> strict => bundle["extra"] = None]
                        ELSE None
  /\ UNCHANGED <<task, expansion, bundle, writer, export>>

-----------------------------------------------------------------------------
(* Attachments.                                                            *)

(* Names differ by a path or a character that is not kept.                 *)
normalize_attachment_filename(name) == name.leaf

extracted_text_filename(file) == file \o ".txt"

ASSUME EvidenceAssumption ==
  /\ IsFiniteSet(Letters) /\ ThreadLimit \in Nat \ {0}
  /\ \A a \in Attached : LET file == normalize_attachment_filename(a.name)
                          IN extracted_text_filename(file) # file

(* What the record of the export itself is called.                         *)
NoteFiles == {"attachment_provenance.json", "SOURCE_NOTE.md"}

(* Any attachments are exported in their order; then the notes.            *)
StartExport ==
  /\ export.left = <<>> /\ export.provenance = {}
  /\ \E a, b \in Attached, text \in BOOLEAN : export' = [export EXCEPT !.left = <<a, b>>, !.extract = text]
  /\ UNCHANGED <<task, expansion, bundle, writer, verified>>

(* What is written under a name replaces what was there.                   *)
export_one_attachment ==
  /\ export.left # <<>>
  /\ LET a      == Head(export.left)
         file   == normalize_attachment_filename(a.name)
         texted == export.extract /\ a.text
         texts  == {t \in {extracted_text_filename(file)} : texted}
     IN export' = [export EXCEPT !.left = Tail(@),
                     !.files = [f \in DOMAIN @ \cup {file} \cup texts |->
                                  IF f \in texts THEN "text" ELSE IF f = file THEN a.bytes ELSE @[f]],
                     !.provenance = @ \cup {[name |-> a.name, file |-> file, sha256 |-> a.bytes]}]
  /\ UNCHANGED <<task, expansion, bundle, writer, verified>>

write_attachment_message_notes ==
  /\ export.left = <<>> /\ export.provenance # {} /\ export.noted = {}
  /\ export' = [export EXCEPT !.files = [f \in DOMAIN @ \cup NoteFiles |->
                                                  IF f \in NoteFiles THEN "note" ELSE @[f]],
                              !.noted = NoteFiles]
  /\ UNCHANGED <<task, expansion, bundle, writer, verified>>

-----------------------------------------------------------------------------
(* Of the inclusion reasons a query match wins over the walks.             *)
ThreadExpansionResult ==
  {x \in [included : SUBSET Letters, matched : SUBSET Letters, ancestors : SUBSET Letters, descendants : SUBSET Letters] :
     x.matched \cup x.ancestors \cup x.descendants \subseteq x.included}
EvidenceVerifyOutcome == [ok : BOOLEAN, whole : BOOLEAN, alone : BOOLEAN]
AttachmentProvenance ==
  {[name |-> a.name, file |-> normalize_attachment_filename(a.name), sha256 |-> a.bytes] : a \in Attached}

EvidenceTypeOK ==
  /\ expansion.phase \in {"idle", "up", "down", "done"}
  /\ [included |-> expansion.included, matched |-> expansion.matched, ancestors |-> expansion.ancestors,
       descendants |-> expansion.descendants] \in ThreadExpansionResult
  /\ expansion.included \subseteq expansion.fetched /\ expansion.fetched \subseteq Letters
  /\ writer \in 0..Len(WriteOrder) /\ bundle \in [Files \cup {"extra"} -> {"good", "bad", None}]
  /\ verified \in EvidenceVerifyOutcome \cup {None} /\ export.provenance \subseteq AttachmentProvenance

EvidenceInit ==
  /\ task \in {"threads", "bundle", "attachments"}
  /\ expansion = [phase |-> "idle", fetched |-> {}, matched |-> {}, included |-> {}, ancestors |-> {},
       descendants |-> {}]
  /\ bundle = [f \in Files \cup {"extra"} |-> None] /\ writer = Len(WriteOrder) /\ verified = None
  /\ export = [left |-> <<>>, extract |-> FALSE, files |-> <<>>, provenance |-> {}, noted |-> {}]

EvidenceNext ==
  \/ task = "threads" /\ (StartExpansion \/ Step)
  \/ task = "bundle" /\ (write_evidence_bundle \/ BundleDamage \/ verify_bundle)
  \/ task = "attachments" /\ (StartExport \/ export_one_attachment \/ write_attachment_message_notes)

EvidenceSpec == EvidenceInit /\ [][EvidenceNext]_evidence_vars

-----------------------------------------------------------------------------
(* What an expansion leaves out it says: a parent or child it knows of is  *)
(* missing only if the limit was reported, a parent of a match that was    *)
(* not fetched is reported, and the limit is exceeded by matches alone.  A *)
(* bundle that verifies is whole.  Every attachment of an exported message *)
(* has its record, and the file the record names has the recorded digest   *)
(* unless another attachment, or its text, or the record of the export has *)
(* that file name too (evidence.rs expand_header_threads, verify_bundle,   *)
(* export_one_attachment, write_attachment_message_notes).                 *)
EvidenceAccounted ==
  /\ expansion.phase = "done" =>
       /\ expansion.limited \/ \A m \in expansion.included :
            /\ m \in expansion.matched \cup expansion.ancestors => parent_by_uid(m) \subseteq expansion.included
            /\ m \in expansion.matched \cup expansion.descendants => children_by_uid(m) \subseteq expansion.included
       /\ \A m \in expansion.matched : parent_ids(m) \subseteq expansion.included \cup expansion.missing
            \/ expansion.limited
       /\ Cardinality(expansion.included) <= Max({ThreadLimit, Cardinality(expansion.matched)})
  /\ verified # None /\ verified.ok => verified.whole /\ verified.alone
  /\ export.left = <<>> => \A p \in export.provenance :
       \/ export.files[p.file] = p.sha256
       \/ \E q \in export.provenance : q # p /\ p.file \in {q.file, extracted_text_filename(q.file)}
       \/ p.file \in export.noted
=============================================================================
