----------------------------- MODULE AddressLists -----------------------------
(***************************************************************************)
(* Recipients of compose: the entries of an address header, and the        *)
(* contacts offered for what somebody has typed.  A header is a sequence   *)
(* of the characters that matter and of words between them; a spelling is  *)
(* a stored address as somebody typed it, in the order of the text.        *)
(***************************************************************************)
EXTENDS Naturals, Sequences, SequencesExt, FiniteSets, Rows

CONSTANTS
  Usable,               \* the words that are addresses one can send to
  Lists,              \* lists of entries as mail programs write them
  Spelled,              \* the normalized address of each spelling, 0 for an unusable one
  Books, Queries,       \* contacts by spelling; what was typed, and how many are asked for
  SUGGESTION_SCAN_CAP   \* rows ranked in one query

ASSUME ListsAssumption ==
  /\ Spelled \in Seq(Nat) /\ SUGGESTION_SCAN_CAP \in Nat \ {0}
  /\ \A book \in Books : DOMAIN book = DOMAIN Spelled

VARIABLES written, recipients, book, query, suggested

lists_vars == <<written, recipients, book, query, suggested>>

Split == [entries |-> <<>>, current |-> <<>>, in_quotes |-> FALSE, in_angles |-> FALSE, escaped |-> FALSE]

-----------------------------------------------------------------------------
(* Taking a header apart.                                                  *)

(* What precedes a colon was the label of a group.                         *)
take(at, c) ==
  LET kept == [at EXCEPT !.current = Append(@, c), !.escaped = FALSE]
      free == ~at.in_quotes /\ ~at.in_angles
  IN CASE at.escaped -> kept
       [] ~at.escaped /\ c = "backslash" /\ at.in_quotes -> [kept EXCEPT !.escaped = TRUE]
       [] ~at.escaped /\ c = "quote" -> [kept EXCEPT !.in_quotes = ~@]
       [] ~at.escaped /\ c = "<" /\ ~at.in_quotes -> [kept EXCEPT !.in_angles = TRUE]
       [] ~at.escaped /\ c = ">" /\ ~at.in_quotes -> [kept EXCEPT !.in_angles = FALSE]
       [] ~at.escaped /\ c = ":" /\ free -> [at EXCEPT !.current = <<>>]
       [] ~at.escaped /\ c \in {",", ";"} /\ free ->
            [at EXCEPT !.entries = Append(@, at.current), !.current = <<>>]
       [] OTHER -> kept

split_address_list(raw) ==
  LET end == FoldLeft(take, Split, raw)
  IN SelectSeq(Append(end.entries, end.current), LAMBDA entry : entry # <<>>)

Trimmed(text, first(_), last(_)) ==
  LET from == SelectInSeq(text, LAMBDA c : ~first(c))
      to == SelectLastInSeq(text, LAMBDA c : ~last(c))
  IN IF from = 0 THEN <<>> ELSE SubSeq(text, from, to)

IsQuote(c) == c = "quote"

unescape(at, c) ==
  IF c = "backslash" /\ ~at.escaped THEN [at EXCEPT !.escaped = TRUE]
                                    ELSE [out |-> Append(at.out, c), escaped |-> FALSE]

unquote_display_name(raw) ==
  LET n == Len(raw)
  IN IF n >= 2 /\ raw[1] = "quote" /\ raw[n] = "quote"
       THEN FoldLeft(unescape, [out |-> <<>>, escaped |-> FALSE], SubSeq(raw, 2, n - 1)).out
       ELSE Trimmed(raw, IsQuote, IsQuote)

(* One word that can be sent to; anything else, spaces included, is none.  *)
normalize_email(raw) ==
  LET bare == Trimmed(raw, LAMBDA c : c = "<", LAMBDA c : c = ">")
  IN IF Len(bare) = 1 /\ bare[1] \in Usable THEN bare[1] ELSE None

(* The brackets are looked for in the whole entry, its quotes included.    *)
parse_address(entry) ==
  LET start == SelectInSeq(entry, LAMBDA c : c = "<")
      end == SelectLastInSeq(entry, LAMBDA c : c = ">")
  IN IF start > 0 /\ start < end
       THEN [email |-> normalize_email(SubSeq(entry, start + 1, end - 1)),
             name |-> unquote_display_name(SubSeq(entry, 1, start - 1))]
       ELSE [email |-> normalize_email(entry), name |-> <<>>]

parse_address_list(raw) ==
  LET entries == split_address_list(raw)
  IN SelectSeq([i \in DOMAIN entries |-> parse_address(entries[i])], LAMBDA e : e.email # None)

-----------------------------------------------------------------------------
(* Offering contacts.                                                      *)
Exact == 0
Prefix == 1
Substring == 2
NO_MATCH_RANK == 3

(* How what was typed lies in the address and in the name.                 *)
match_rank(email, name) ==
  LET either(places) == {email, name} \cap places # {}
  IN IF query.blank THEN Substring
     ELSE IF either({"equal"}) THEN Exact
     ELSE IF either({"start", "word", "domain"}) THEN Prefix
     ELSE IF either({"inside"}) THEN Substring ELSE NO_MATCH_RANK

Lies(s) == query.lies[Spelled[s] + 1]
Rank(s) == IF Spelled[s] = 0 THEN NO_MATCH_RANK ELSE match_rank(Lies(s), book[s].name)

(* The database folds the case of ASCII letters only.                      *)
Matches(s) ==
  /\ book[s].derived => book[s].signal > 0
  /\ query.blank \/ Lies(s) # "none" \/ (book[s].name # "none" /\ book[s].ascii)

Stronger(r, s) ==
  \/ Rank(r) < Rank(s)
  \/ Rank(r) = Rank(s) /\ book[r].signal > book[s].signal
  \/ Rank(r) = Rank(s) /\ book[r].signal = book[s].signal /\ book[r].last_seen > book[s].last_seen

Before(r, s) == Stronger(r, s) \/ (~Stronger(s, r) /\ r < s)
BeforeByAddress(r, s) == Stronger(r, s) \/ (~Stronger(s, r) /\ Spelled[r] < Spelled[s])

FirstOf(seq, n) == SubSeq(seq, 1, IF Len(seq) < n THEN Len(seq) ELSE n)

(* The first of the rows with any sign of what was typed.                  *)
SUGGESTION_SQL ==
  FirstOf(SetToSortSeq({s \in DOMAIN book : book[s] # None /\ Matches(s)}, Before), SUGGESTION_SCAN_CAP)

(* Of the spellings of one address the best row stays.                     *)
Deduped(best, s) ==
  LET kept == {r \in best : Spelled[r] = Spelled[s]}
      asGood(r) == Rank(r) < Rank(s) \/ (Rank(r) = Rank(s) /\ book[r].signal >= book[s].signal)
  IN IF Rank(s) = NO_MATCH_RANK \/ \E r \in kept : asGood(r) THEN best ELSE (best \ kept) \cup {s}

suggest_addresses ==
  FirstOf(SetToSortSeq(FoldLeft(Deduped, {}, SUGGESTION_SQL), BeforeByAddress), query.limit)

-----------------------------------------------------------------------------
(* How mail programs write an entry: a name with special characters in     *)
(* quotes, a backslash before a quote or a backslash in it; the entries of *)
(* a group behind its label.                                               *)
Protected(name) ==
  FoldLeft(LAMBDA out, c : out \o IF c \in {"quote", "backslash"} THEN <<"backslash", c>> ELSE <<c>>, <<>>, name)

Composed(e) ==
  (IF e.group THEN <<"label", ":">> ELSE <<>>)
  \o (CASE e.style = "bare" -> <<e.address>>
        [] e.style = "plain" -> e.name \o <<"<", e.address, ">">>
        [] e.style = "quoted" -> <<"quote">> \o Protected(e.name) \o <<"quote", "<", e.address, ">">>)
  \o <<IF e.group THEN ";" ELSE ",">>

Rendered(list) == FoldLeft(LAMBDA out, e : out \o Composed(e), <<>>, list)

ListsTypeOK ==
  /\ written \in Lists \cup {None} /\ book \in Books \cup {None} /\ query \in Queries \cup {None}
  /\ recipients # None => \A i \in DOMAIN recipients : recipients[i].email \in Usable
  /\ suggested # None => \A i \in DOMAIN suggested : suggested[i] \in DOMAIN Spelled

ListsInit == written = None /\ recipients = None /\ book = None /\ query = None /\ suggested = None

ReadHeader ==
  /\ written = None /\ book = None /\ written' \in Lists
  /\ recipients' = parse_address_list(Rendered(written'))
  /\ UNCHANGED <<book, query, suggested>>

Typed ==
  /\ book = None /\ written = None
  /\ book' \in Books /\ query' \in Queries
  /\ UNCHANGED <<written, recipients, suggested>>

Suggest ==
  /\ book # None /\ suggested = None
  /\ suggested' = suggest_addresses
  /\ UNCHANGED <<written, recipients, book, query>>

ListsNext == ReadHeader \/ Typed \/ Suggest

ListsSpec == ListsInit /\ [][ListsNext]_lists_vars

-----------------------------------------------------------------------------
(* Whatever commas, colons, brackets and quotes the names hold, in groups  *)
(* or not: every usable address of a header comes out once, in order and   *)
(* with its own name - but for an entry with an opening bracket in its     *)
(* name, which is lost alone (address_book.rs parse_address_list).         *)
HeaderUnderstood ==
  recipients # None =>
    LET kept == SelectSeq(written, LAMBDA e : e.address \in Usable /\ ~\E i \in DOMAIN e.name : e.name[i] = "<")
    IN recipients = [i \in DOMAIN kept |->
         [email |-> kept[i].address, name |-> IF kept[i].style = "bare" THEN <<>> ELSE kept[i].name]]

(* However many spellings of an address are stored, and however small the  *)
(* cap: each address is offered once, by its best row and in order of the  *)
(* match; and what matches but is not offered, a name outside ASCII apart, *)
(* is no better than anything that is (address_book.rs suggest_addresses). *)
SuggestionsRight ==
  suggested # None =>
    LET offered == {suggested[i] : i \in DOMAIN suggested}
        good == {s \in DOMAIN book : book[s] # None /\ Matches(s) /\ Rank(s) # NO_MATCH_RANK}
        missing == {s \in good : \A r \in offered : Spelled[r] # Spelled[s]}
    IN /\ offered \subseteq good
       /\ \A i, j \in DOMAIN suggested : i < j =>
            Spelled[suggested[i]] # Spelled[suggested[j]] /\ ~Stronger(suggested[j], suggested[i])
       /\ \A r \in offered, s \in good : Spelled[r] = Spelled[s] => ~Stronger(s, r)
       /\ \A r \in offered, s \in missing : ~Stronger(s, r)
       /\ missing # {} => Len(suggested) = query.limit \/ Cardinality(good) > SUGGESTION_SCAN_CAP
=============================================================================
