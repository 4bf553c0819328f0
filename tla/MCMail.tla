------------------------------- MODULE MCMail -------------------------------
(***************************************************************************)
(* The mail product's own machines, and the readers and keepers of files.  *)
(* Each works on tables, folders or files of its own, so a behaviour       *)
(* exercises one of them, chosen at the start, and the others keep one of  *)
(* their initial states.                                                   *)
(***************************************************************************)
EXTENDS AddressHistory, EventDelivery, ThreadScan, MailMoves,
        GovernedSend, SentCopy, EvidenceBundle, MailRules, Credentials, GmailPoll,
        TravelParser, LearnedParsers, AddressLists, Backups

CONSTANTS ada, first, answer, other, lisbon, r1, s1

VARIABLE focus

-----------------------------------------------------------------------------
(* From a correspondent to the account, from her to herself, and a copy to *)
(* oneself.                                                                *)
SomeHeaders == {[out |-> FALSE, from |-> ada, to |-> {Own}],
                [out |-> FALSE, from |-> ada, to |-> {ada}],
                [out |-> TRUE, from |-> Own, to |-> {Own}]}

(* One subject, every mail with a Message-ID; the second answers the first.*)
SomeMail ==
  [m \in {first, answer, other} |->
     [id |-> TRUE, subject |-> lisbon, people |-> IF m = answer THEN {2} ELSE {1},
      parent |-> IF m = answer THEN first ELSE None, refs |-> IF m = answer THEN {first} ELSE {}]]

TwoFolders == [m \in {first, answer} |-> IF m = first THEN 1 ELSE 2]

(* No threads; a chain of answers, each with the references of the one     *)
(* before; and one that lost its In-Reply-To.                              *)
Plain == [in_reply_to |-> None, references |-> <<>>]
To(m, chain) == [in_reply_to |-> m, references |-> chain]
SomeHeads ==
  {[m \in {first, answer, other} |-> Plain],
   [m \in {first, answer, other} |-> CASE m = first  -> Plain
                                       [] m = answer -> To(first, <<first>>)
                                       [] m = other  -> To(answer, <<first, answer>>)],
   [m \in {first, answer, other} |-> IF m = other THEN To(None, <<first>>) ELSE Plain]}

(* Two of one name from different directories of an archive, one whose     *)
(* name is that of another's extracted text, and one named as the note.    *)
SomeAttachments ==
  [name : [leaf : {"scan", "scan.txt", "SOURCE_NOTE.md"}, path : {"", "x/"}], bytes : {"b1", "b2"}, text : BOOLEAN]

SomeDeclared ==
  {{}, {"informational"}, {"tyler_approved"}, {"known_contact", "financial_content"}, {"typo"}}

(* A contact it cannot be sure of, a contact, and a stranger.              *)
SomeSituations ==
  {[true |-> {}, unknown |-> {"known_contact"}], [true |-> {"known_contact"}, unknown |-> {}],
   [true |-> {"cold_email"}, unknown |-> {}]}

SomeServers == {{"[Gmail]/Sent Mail", "[Gmail]/Drafts"}, {"Mail sent", "Brouillons", "Sent Items"}}

FromAda == [key |-> "from", value |-> "ada"]
Tagged == [key |-> "has_tag", value |-> "travel"]
Scored == [key |-> "score_above", value |-> 0]
SomeExprs == {[op |-> "and", of |-> {FromAda, Tagged}], [op |-> "not", of |-> {FromAda}],
              [op |-> "or", of |-> {FromAda, Scored}]}
SomeActions == {[key |-> "move", value |-> "Trips"], [key |-> "move", value |-> "\\Junk"],
                [key |-> "webhook", value |-> "url"]}

(* A key from the environment, a passphrase file, and a person at a        *)
(* terminal of a machine with an identity.                                 *)
SomeEnvironments ==
  {[key |-> "k", passfile |-> None, typed |-> None, new |-> None, machine |-> FALSE],
   [key |-> None, passfile |-> "p", typed |-> None, new |-> None, machine |-> FALSE],
   [key |-> None, passfile |-> None, typed |-> "p", new |-> "q", machine |-> TRUE]}

(* Sender and subject, then also the text; three kinds of labelled lines;  *)
(* reservations in markup (also one inside another object, or behind a     *)
(* script that is no JSON) and in calendar attachments, one over the limit.*)
Hotel == [valid |-> TRUE, graph |-> None, type |-> "hotel", inside |-> None,
          fields |-> {"code", "start", "end", "destination", "provider", "title"}, status |-> "cancelled"]
Flight == [valid |-> TRUE, graph |-> None, type |-> "other", inside |-> "flight",
           fields |-> {"start", "service", "origin", "destination"}, status |-> None]
Car == [valid |-> TRUE, graph |-> "car", type |-> None, inside |-> None,
        fields |-> {"code", "start", "amount"}, status |-> "pending"]
Broken == [Hotel EXCEPT !.valid = FALSE]
Untyped == [Flight EXCEPT !.type = None]
Event == [calendar |-> TRUE, small |-> TRUE, vevent |-> TRUE, status |-> "confirmed",
          fields |-> {"start", "destination", "title"}]
SomeWords == {{}, {"entity"}, {"label", "marketing", "change"}, {"structured", "marketing"}}
SomeLabels == {{}, {"code", "check-in", "check-out", "destination"},
               {"code", "departure", "arrival", "flight", "address"}, {"amount", "pick-up", "origin"}}
SomeVouched == {<<>>, <<[by |-> "mx.google.com", results |-> <<[dmarc |-> "fail", from |-> "a"], [dmarc |-> "pass", from |-> "a"]>>]>>,
                <<[by |-> "other", results |-> <<[dmarc |-> "pass", from |-> "a"]>>]>>}
SomeTexts ==
  {[headline |-> h, words |-> h \cup b, topics |-> t, labels |-> l, cancels |-> c, changes |-> d,
    numeric |-> n, sender |-> s, domain |-> "a", scripts |-> j, attachments |-> e, vouched |-> v] :
     h \in {{"intent"}, {"known", "entity"}, {"marketing", "intent"}}, b \in SomeWords,
     t \in {{}, {"hotel", "flight"}, {"car", "receipt"}},
     l \in SomeLabels, c \in BOOLEAN, d \in BOOLEAN, n \in {FALSE}, s \in {"named", "local"},
     j \in {<<>>, <<Broken, Flight>>, <<Hotel>>, <<Untyped>>, <<Car>>}, e \in {<<>>}, v \in {<<>>}}
  \cup
  {[headline |-> {"known", "intent"}, words |-> {"known", "intent"} \cup b, topics |-> t, labels |-> l,
    cancels |-> FALSE, changes |-> FALSE, numeric |-> n, sender |-> s, domain |-> "a", scripts |-> <<>>,
    attachments |-> e, vouched |-> v] :
     b \in SomeWords, t \in {{}, {"activity"}, {"flight"}, {"rail"}, {"car"}, {"receipt"}}, l \in SomeLabels,
     n \in BOOLEAN, s \in {"domain"},
     e \in {<<>>, <<Event>>, <<[Event EXCEPT !.small = FALSE], Event>>, <<[Event EXCEPT !.vevent = FALSE]>>},
     v \in SomeVouched}

(* A parser, one that reads also the second format, a rival of another     *)
(* name, and one that does not pass validation.                            *)
SomePackages ==
  [p \in {"parser", "wider", "rival", "unsound"} |->
     [name |-> IF p = "rival" THEN "m" ELSE "n", valid |-> p # "unsound",
      reads |-> IF p = "parser" THEN {"format"} ELSE {"format", "new format"}]]

(* Names with what separates entries elsewhere, in and out of groups; a    *)
(* quiet contact by name, a loud one that only contains what was typed, a  *)
(* derived one without a signal, and a name outside ASCII.                 *)
SomeNames == {<<>>, <<"lee", ",", "ann">>, <<"quote", "ann", ";">>, <<"quote", "ann", "quote">>, <<"ann", "<", "x", ">">>,
              <<"ann", ":", "backslash">>, <<"ann", ">">>}
SomeEntries ==
  {[group |-> g, style |-> "bare", name |-> <<>>, address |-> a] : g \in BOOLEAN, a \in {"ada", "root"}}
  \cup {[group |-> FALSE, style |-> "plain", name |-> <<"ann">>, address |-> "ada"]}
  \cup {[group |-> g, style |-> "quoted", name |-> n, address |-> "ann"] : g \in BOOLEAN, n \in SomeNames}
SomeLists == {<<>>} \cup {<<e>> : e \in SomeEntries} \cup (SomeEntries \X SomeEntries)
Known(n, ascii, signal, derived) == [name |-> n, ascii |-> ascii, signal |-> signal, last_seen |-> signal, derived |-> derived]
SomeBooks ==
  [1..4 -> {None, Known("word", TRUE, 0, FALSE), Known("none", TRUE, 2, TRUE),
            Known("none", TRUE, 0, TRUE), Known("start", FALSE, 1, FALSE)}]
SomeSpellings == <<2, 1, 2, 0>>
SomeQueries ==
  [blank : {FALSE}, limit : 0..2, lies : {<<"inside", "domain", "inside">>, <<"none", "none", "inside">>}]
    \cup [blank : {TRUE}, limit : {2}, lies : {<<"none", "none", "none">>}]

-----------------------------------------------------------------------------
Init ==
  /\ HistoryInit /\ DeliveryInit /\ ScanInit /\ MovesInit /\ RestoreInit /\ GovernedInit
  /\ SentCopyInit /\ EvidenceInit /\ RulesInit /\ CredentialsInit /\ PollInit
  /\ ParserInit /\ LearningInit /\ ListsInit /\ SnapshotsInit /\ ReadsInit
  /\ focus \in {"history", "delivery", "scan", "moves", "restore", "governed",
               "sentcopy", "evidence", "rules", "cred", "poll", "parser", "learning",
               "lists", "snapshots", "reads"}
  /\ focus # "delivery" => \A r \in Routes : routes[r] = None
  /\ focus # "scan" => box.uidvalidity = 0
  /\ focus # "moves" => uidplus
  /\ focus # "governed" => governor = "off" /\ situation.true = {"cold_email"}
  /\ focus # "sentcopy" => "Sent Items" \in folders /\ ~autosaves
  /\ focus # "evidence" => task = "bundle"
  /\ focus # "rules" => rules = <<>>
  /\ focus # "poll" => arrived = 0
  /\ focus # "reads" => announces
  /\ home[r1] = s1
  /\ focus # "learning" => limit = None /\ \A r \in Readers : home[r] = s1

Next ==
  \/ /\ focus = "history" /\ HistoryNext
     /\ UNCHANGED <<focus, delivery_vars, scan_vars, moves_vars, restore_vars, governed_vars,
                    sentcopy_vars, evidence_vars, rules_vars, cred_vars, poll_vars, parser_vars,
                    learning_vars, lists_vars, snapshots_vars, reads_vars>>
  \/ /\ focus = "delivery" /\ DeliveryNext
     /\ UNCHANGED <<focus, history_vars, scan_vars, moves_vars, restore_vars, governed_vars,
                    sentcopy_vars, evidence_vars, rules_vars, cred_vars, poll_vars, parser_vars,
                    learning_vars, lists_vars, snapshots_vars, reads_vars>>
  \/ /\ focus = "scan" /\ ScanNext
     /\ UNCHANGED <<focus, history_vars, delivery_vars, moves_vars, restore_vars, governed_vars,
                    sentcopy_vars, evidence_vars, rules_vars, cred_vars, poll_vars, parser_vars,
                    learning_vars, lists_vars, snapshots_vars, reads_vars>>
  \/ /\ focus = "moves" /\ MovesNext
     /\ UNCHANGED <<focus, history_vars, delivery_vars, scan_vars, restore_vars, governed_vars,
                    sentcopy_vars, evidence_vars, rules_vars, cred_vars, poll_vars, parser_vars,
                    learning_vars, lists_vars, snapshots_vars, reads_vars>>
  \/ /\ focus = "restore" /\ RestoreNext
     /\ UNCHANGED <<focus, history_vars, delivery_vars, scan_vars, moves_vars, governed_vars,
                    sentcopy_vars, evidence_vars, rules_vars, cred_vars, poll_vars, parser_vars,
                    learning_vars, lists_vars, snapshots_vars, reads_vars>>
  \/ /\ focus = "governed" /\ GovernedNext
     /\ UNCHANGED <<focus, history_vars, delivery_vars, scan_vars, moves_vars, restore_vars,
                    sentcopy_vars, evidence_vars, rules_vars, cred_vars, poll_vars, parser_vars,
                    learning_vars, lists_vars, snapshots_vars, reads_vars>>
  \/ /\ focus = "sentcopy" /\ SentCopyNext
     /\ UNCHANGED <<focus, history_vars, delivery_vars, scan_vars, moves_vars, restore_vars,
                    governed_vars, evidence_vars, rules_vars, cred_vars, poll_vars, parser_vars,
                    learning_vars, lists_vars, snapshots_vars, reads_vars>>
  \/ /\ focus = "evidence" /\ EvidenceNext
     /\ UNCHANGED <<focus, history_vars, delivery_vars, scan_vars, moves_vars, restore_vars,
                    governed_vars, sentcopy_vars, rules_vars, cred_vars, poll_vars, parser_vars,
                    learning_vars, lists_vars, snapshots_vars, reads_vars>>
  \/ /\ focus = "rules" /\ RulesNext
     /\ UNCHANGED <<focus, history_vars, delivery_vars, scan_vars, moves_vars, restore_vars,
                    governed_vars, sentcopy_vars, evidence_vars, cred_vars, poll_vars,
                    parser_vars, learning_vars, lists_vars, snapshots_vars, reads_vars>>
  \/ /\ focus = "cred" /\ CredentialsNext
     /\ UNCHANGED <<focus, history_vars, delivery_vars, scan_vars, moves_vars, restore_vars,
                    governed_vars, sentcopy_vars, evidence_vars, rules_vars, poll_vars,
                    parser_vars, learning_vars, lists_vars, snapshots_vars, reads_vars>>
  \/ /\ focus = "poll" /\ PollNext
     /\ UNCHANGED <<focus, history_vars, delivery_vars, scan_vars, moves_vars, restore_vars,
                    governed_vars, sentcopy_vars, evidence_vars, rules_vars, cred_vars,
                    parser_vars, learning_vars, lists_vars, snapshots_vars, reads_vars>>
  \/ /\ focus = "parser" /\ ParserNext
     /\ UNCHANGED <<focus, history_vars, delivery_vars, scan_vars, moves_vars, restore_vars,
                    governed_vars, sentcopy_vars, evidence_vars, rules_vars, cred_vars, poll_vars,
                    learning_vars, lists_vars, snapshots_vars, reads_vars>>
  \/ /\ focus = "learning" /\ LearningNext
     /\ UNCHANGED <<focus, history_vars, delivery_vars, scan_vars, moves_vars, restore_vars,
                    governed_vars, sentcopy_vars, evidence_vars, rules_vars, cred_vars, poll_vars,
                    parser_vars, lists_vars, snapshots_vars, reads_vars>>
  \/ /\ focus = "lists" /\ ListsNext
     /\ UNCHANGED <<focus, history_vars, delivery_vars, scan_vars, moves_vars, restore_vars,
                    governed_vars, sentcopy_vars, evidence_vars, rules_vars, cred_vars, poll_vars,
                    parser_vars, learning_vars, snapshots_vars, reads_vars>>
  \/ /\ focus = "snapshots" /\ SnapshotsNext
     /\ UNCHANGED <<focus, history_vars, delivery_vars, scan_vars, moves_vars, restore_vars,
                    governed_vars, sentcopy_vars, evidence_vars, rules_vars, cred_vars, poll_vars,
                    parser_vars, learning_vars, lists_vars, reads_vars>>
  \/ /\ focus = "reads" /\ ReadsNext
     /\ UNCHANGED <<focus, history_vars, delivery_vars, scan_vars, moves_vars, restore_vars,
                    governed_vars, sentcopy_vars, evidence_vars, rules_vars, cred_vars, poll_vars,
                    parser_vars, learning_vars, lists_vars, snapshots_vars>>

all_vars ==
  <<history_vars, delivery_vars, scan_vars, moves_vars, restore_vars, governed_vars,
    sentcopy_vars, evidence_vars, rules_vars, cred_vars, poll_vars, parser_vars, learning_vars, lists_vars,
    snapshots_vars, reads_vars, focus>>

Spec == Init /\ [][Next]_all_vars

(* Every table, folder and file holds what its type says, in every one of  *)
(* the machines.                                                           *)
TypeOK ==
  CASE focus = "history" -> HistoryTypeOK
    [] focus = "delivery" -> DeliveryTypeOK
    [] focus = "scan" -> ScanTypeOK
    [] focus = "moves" -> MovesTypeOK
    [] focus = "restore" -> RestoreTypeOK
    [] focus = "governed" -> GovernedTypeOK
    [] focus = "sentcopy" -> SentCopyTypeOK
    [] focus = "evidence" -> EvidenceTypeOK
    [] focus = "rules" -> RulesTypeOK
    [] focus = "cred" -> CredentialsTypeOK
    [] focus = "poll" -> PollTypeOK
    [] focus = "parser" -> ParserTypeOK
    [] focus = "learning" -> LearningTypeOK
    [] focus = "lists" -> ListsTypeOK
    [] focus = "snapshots" -> SnapshotsTypeOK
    [] focus = "reads" -> ReadsTypeOK

(* The addresses a compose field offers are those of the mail: taken apart *)
(* without loss, counted without loss or double, offered in order          *)
(* (address_book.rs).                                                      *)
AddressesServed == HistoryCounts /\ HeaderUnderstood /\ SuggestionsRight
=============================================================================
