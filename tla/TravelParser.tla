----------------------------- MODULE TravelParser -----------------------------
(***************************************************************************)
(* What the compiled rules make of one letter: whether it is travel at     *)
(* all, what its machine-readable reservation and its labelled lines say,  *)
(* and whether that is certain enough to be written without a person.  A   *)
(* letter is the set of expressions that match it; a value is only present *)
(* or absent.                                                              *)
(***************************************************************************)
EXTENDS Naturals, Sequences, SequencesExt, FiniteSetsExt, Rows

CONSTANT Texts      \* the letters that may arrive

ASSUME ParserAssumption == None # "cancelled"

VARIABLES letter, document

parser_vars == <<letter, document>>

Kinds == <<"flight", "hotel", "rail", "car", "activity", "receipt">>
Details == {"code", "start", "end", "origin", "destination", "address", "service", "provider", "amount", "title"}

-----------------------------------------------------------------------------
(* Is it travel?  Machine-readable data counts here only where the text    *)
(* shows it.                                                               *)
Weight == [known |-> 5, intent |-> 3, change |-> 4, entity |-> 2, structured |-> 8]

classify_candidate(words) ==
  LET for == MapThenSumSet(LAMBDA w : Weight[w], words \cap DOMAIN Weight)
      against == IF "marketing" \in words /\ "label" \notin words THEN 6 ELSE 0
      score == for - against
  IN [score |-> score,
      state |-> CASE score >= 8 -> "parse" [] score \in 3..7 -> "review" [] OTHER -> "ignored"]

-----------------------------------------------------------------------------
(* Decoding: the first calendar attachment under the limit, and the domain *)
(* the topmost authentication header vouches for, if it is the sender's.   *)
FirstWhere(seq, Test(_)) == LET hits == SelectSeq(seq, Test) IN IF hits = <<>> THEN None ELSE hits[1]

ics_body(text) == FirstWhere(text.attachments, LAMBDA a : a.calendar /\ a.small)

gmail_authenticated_from_domain(text) ==
  IF text.vouched # <<>> /\ text.vouched[1].by = "mx.google.com"
       /\ FirstWhere(text.vouched[1].results, LAMBDA r : r.dmarc = "pass") # None
       /\ FirstWhere(text.vouched[1].results, LAMBDA r : r.dmarc = "pass").from = text.domain
    THEN text.domain ELSE None

-----------------------------------------------------------------------------
(* Machine-readable reservations.  An object without a type hides what it  *)
(* contains; a graph comes first; an event is an activity, its UID the     *)
(* confirmation code and its location both place and address.              *)
find_reservation(node) ==
  CASE node.graph # None -> node.graph
    [] node.graph = None /\ node.type = None -> None
    [] node.graph = None /\ node.type = "other" -> node.inside
    [] OTHER -> node.type

parse_json_ld(text) ==
  LET found == FirstWhere(text.scripts, LAMBDA s : s.valid /\ find_reservation(s) # None)
  IN IF found = None THEN None
     ELSE [kind |-> find_reservation(found), fields |-> found.fields, status |-> found.status]

parse_ics(event) ==
  IF event = None \/ ~event.vevent THEN None
  ELSE [kind |-> "activity", status |-> event.status,
        fields |-> (event.fields \cap {"title", "provider", "start", "end"}) \cup {"code"}
                     \cup (IF "destination" \in event.fields THEN {"destination", "address"} ELSE {})]

structured_fields(text) ==
  IF parse_json_ld(text) # None THEN parse_json_ld(text) ELSE parse_ics(ics_body(text))

(* All of it is taken over.                                                *)
merge_structured(structured) == IF structured # None THEN structured.fields ELSE {}

-----------------------------------------------------------------------------
(* Labelled lines, read according to the kind of booking.                  *)
infer_kind(text) ==
  IF \A i \in DOMAIN Kinds : Kinds[i] \notin text.topics THEN "unknown"
  ELSE Kinds[Min({i \in DOMAIN Kinds : Kinds[i] \in text.topics})]

start_labels(kind) ==
  CASE kind = "hotel" -> {"check-in", "arrival", "start"}
    [] kind = "car" -> {"pick-up", "start"}
    [] OTHER -> {"departure", "start"}
end_labels(kind) ==
  CASE kind = "hotel" -> {"check-out", "departure", "end"}
    [] kind = "car" -> {"drop-off", "end"}
    [] OTHER -> {"arrival", "end"}
labelled_service_number(kind) ==
  CASE kind = "flight" -> {"flight"} [] kind = "rail" -> {"train", "service"} [] OTHER -> {"service"}

labelled(text, kind) ==
  (text.labels \cap {"code", "origin", "destination", "address", "amount"})
    \cup (IF text.labels \cap labelled_service_number(kind) # {} THEN {"service"} ELSE {})
    \cup (IF text.labels \cap start_labels(kind) # {} THEN {"start"} ELSE {})
    \cup (IF text.labels \cap end_labels(kind) # {} THEN {"end"} ELSE {})

provider_from_sender(text) == IF text.sender \in {"named", "domain"} THEN {"provider"} ELSE {}

(* A cancellation in words counts only with a code.                        *)
infer_status(text, fields) ==
  CASE text.cancels /\ "code" \in fields -> "cancelled"
    [] text.changes /\ ~(text.cancels /\ "code" \in fields) -> "changed"
    [] OTHER -> "confirmed"

normalize_status(raw) == IF raw \in {"cancelled", "changed", "pending", "confirmed"} THEN raw ELSE "unknown"

infer_title(kind, structured, fields) ==
  CASE structured # None /\ "title" \in structured.fields -> "given"
    [] kind = "flight" /\ {"origin", "destination"} \subseteq fields -> "route"
    [] kind = "hotel" /\ "destination" \in fields -> "place"
    [] OTHER -> "subject"

required_fields_present(kind, fields) ==
  CASE kind \in {"flight", "rail"} ->
         {"start", "code"} \subseteq fields /\ ("service" \in fields \/ {"origin", "destination"} \subseteq fields)
    [] kind = "hotel" -> {"start", "end", "code"} \subseteq fields
    [] kind = "car" -> {"start", "code"} \subseteq fields
    [] kind = "activity" -> "start" \in fields
    [] kind = "receipt" -> "amount" \in fields
    [] OTHER -> FALSE

-----------------------------------------------------------------------------
(* Mutant: a reservation found in words counts as much as one in data.     *)
CertaintyOfWords(structured, kind, fields, score) ==
  48 + (IF kind # "unknown" THEN 14 ELSE 0)
    + (IF "code" \in fields THEN 16 ELSE 0) + (IF "start" \in fields THEN 12 ELSE 0)
    + (IF {"destination", "address"} \cap fields # {} THEN 8 ELSE 0)
    + (IF {"service", "provider"} \cap fields # {} THEN 6 ELSE 0) + (IF score >= 8 THEN 5 ELSE 0)

(* How sure it is, in hundredths.                                          *)
Certainty(structured, kind, fields, score) ==
  (IF structured # None THEN 48 ELSE 20) + (IF kind # "unknown" THEN 14 ELSE 0)
    + (IF "code" \in fields THEN 16 ELSE 0) + (IF "start" \in fields THEN 12 ELSE 0)
    + (IF {"destination", "address"} \cap fields # {} THEN 8 ELSE 0)
    + (IF {"service", "provider"} \cap fields # {} THEN 6 ELSE 0) + (IF score >= 8 THEN 5 ELSE 0)

(* 03/04/2026, where only words date the booking.                          *)
ambiguous_numeric_date(text, structured) == text.numeric /\ structured = None

confidence(text, structured, kind, fields) ==
  LET candidate == classify_candidate(text.words)
  IN Min({99, Certainty(structured, kind, fields, candidate.score)}
           \cup (IF ambiguous_numeric_date(text, structured) THEN {69} ELSE {})
           \cup (IF candidate.state = "ignored" THEN {25} ELSE {}))

decision(text, kind, fields, sure) ==
  CASE classify_candidate(text.words).state = "ignored" -> "ignored"
    [] classify_candidate(text.words).state # "ignored" /\ sure >= 92
         /\ required_fields_present(kind, fields) -> "auto_accepted"
    [] classify_candidate(text.words).state # "ignored" /\ sure >= 60
         /\ ~(sure >= 92 /\ required_fields_present(kind, fields)) -> "review"
    [] OTHER -> "quarantined"

(* Machine-readable data wins field by field over labelled lines; what the *)
(* words say of a change or cancellation wins over its status.             *)
parse_travel_document(text) ==
  LET structured == structured_fields(text)
      kind == IF structured # None THEN structured.kind ELSE infer_kind(text)
      fields == (merge_structured(structured) \cup labelled(text, kind) \cup provider_from_sender(text)) \ {"title"}
      stated == IF structured # None /\ structured.status # None THEN normalize_status(structured.status) ELSE "unknown"
      inferred == infer_status(text, fields)
      sure == confidence(text, structured, kind, fields)
  IN [kind |-> kind, fields |-> fields, title |-> infer_title(kind, structured, fields),
      status |-> IF stated = "unknown" \/ inferred \in {"cancelled", "changed"} THEN inferred ELSE stated,
      confidence |-> sure, decision |-> decision(text, kind, fields, sure),
      domain |-> gmail_authenticated_from_domain(text)]

-----------------------------------------------------------------------------
ParsedTravelDocument ==
  [kind : Range(Kinds) \cup {"unknown"}, fields : SUBSET (Details \ {"title"}),
   title : {"given", "route", "place", "subject"}, status : {"confirmed", "changed", "cancelled", "pending"},
   confidence : 0..99, decision : {"ignored", "auto_accepted", "review", "quarantined"}, domain : {None, "a"}]

ParserTypeOK ==
  /\ letter # None => letter.headline \subseteq letter.words
  /\ document \in ParsedTravelDocument \cup {None}

ParserInit == letter = None /\ document = None

(* The whole mail is fetched only if sender and subject make it a          *)
(* candidate.                                                              *)
FetchCandidate ==
  /\ letter = None
  /\ \E text \in Texts : classify_candidate(text.headline).state # "ignored" /\ letter' = text
  /\ UNCHANGED document

ParseLetter ==
  /\ letter # None /\ document = None /\ document' = parse_travel_document(letter) /\ UNCHANGED letter

ParserNext == FetchCandidate \/ ParseLetter

ParserSpec == ParserInit /\ [][ParserNext]_parser_vars

-----------------------------------------------------------------------------
(* Only a machine-readable reservation, complete for its kind, is written  *)
(* without a person: however many labelled lines agree, words alone never  *)
(* suffice.  A cancellation stated in that data is never read as a         *)
(* confirmation, and one found in words alone always names its booking     *)
(* (travel_parser.rs parse_travel_document).                               *)
AcceptedOnEvidence ==
  document # None =>
    LET structured == structured_fields(letter)
    IN /\ document.decision = "auto_accepted" =>
            structured # None /\ required_fields_present(document.kind, document.fields)
       /\ document.status = "confirmed" => structured = None \/ structured.status # "cancelled"
       /\ document.status = "cancelled" /\ (structured = None \/ structured.status # "cancelled")
            => "code" \in document.fields
=============================================================================
