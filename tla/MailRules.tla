------------------------------- MODULE MailRules -------------------------------
(***************************************************************************)
(* Mail rules: the table, their evaluation on a message with its tags and  *)
(* scores, the Sieve script they export to, and the publication of the     *)
(* script on a ManageSieve server, whose answers may be lost.  The runner  *)
(* that executes actions is not in this repository.  Expressions are one   *)
(* level deep; a pattern, a folder and a reason stand for themselves.      *)
(***************************************************************************)
EXTENDS Naturals, Sequences, FiniteSets, SequencesExt, Rows

CONSTANTS
  RuleIds,       \* the rows of the table, in order of their creation
  Exprs,         \* match expressions people write
  Actions,       \* actions people choose
  MaxPublishes   \* bound on the publications begun

VARIABLES
  rules,         \* rules, as listed: by priority, then creation
  marks,         \* message_tags and message_scores of a message
  sieve,         \* the server's scripts, and which is active
  publication,   \* publish_script, under way
  published,     \* what was last reported published
  begun          \* history: how many publications were begun

rules_vars == <<rules, marks, sieve, publication, published, begun>>

-----------------------------------------------------------------------------
(* Matching.                                                               *)

LocalKeys == {"has_tag", "score_above", "score_below", "contact_has_tag"}

merge_provider_spam(persisted, derived) == IF persisted = None THEN derived ELSE persisted

(* A score never given compares with nothing.                              *)
Holds(leaf, ctx) ==
  CASE leaf.key = "has_tag" -> leaf.value \in ctx.tags
    [] leaf.key = "contact_has_tag" -> leaf.value \in ctx.contact_tags
    [] leaf.key = "score_above" -> ctx.score # None /\ ctx.score > leaf.value
    [] leaf.key = "score_below" -> ctx.score # None /\ ctx.score < leaf.value
    [] OTHER -> leaf.value = ctx.from

evaluate(expr, ctx) ==
  CASE expr.op = "and" -> \A leaf \in expr.of : Holds(leaf, ctx)
    [] expr.op = "or"  -> \E leaf \in expr.of : Holds(leaf, ctx)
    [] expr.op = "not" -> \A leaf \in expr.of : ~Holds(leaf, ctx)

ContextOf(from, derived) ==
  [from |-> from, tags |-> marks.tags, contact_tags |-> {}, score |-> merge_provider_spam(marks.score, derived)]

-----------------------------------------------------------------------------
(* Sieve.                                                                  *)

LocalActions == {"webhook", "snooze", "unsubscribe", "add_tag"}
ServerActions == {"reject", "ereject"}

(* One level of connectives, over what either side can tell of a message.  *)
MatchExpr(expr) ==
  /\ expr.op \in {"and", "or", "not"}
  /\ \A leaf \in expr.of : leaf.key \in LocalKeys \cup {"from", "from_exact", "to", "subject"}
Action(action) == action.key \in LocalActions \cup ServerActions \cup {"move", "flag", "unflag", "delete"}

ASSUME RulesAssumption == (\A expr \in Exprs : MatchExpr(expr)) /\ \A action \in Actions : Action(action)

(* A special-use destination is resolved only on a live connection.        *)
to_sentinel(action) == action.key = "move" /\ action.value = "\\Junk"

is_sieve_exportable(expr, action) ==
  /\ \A leaf \in expr.of : leaf.key \notin LocalKeys
  /\ action.key \notin LocalActions /\ ~to_sentinel(action)

(* All of it, or none.                                                     *)
expr_to_sieve(expr) ==
  IF expr.of = {} \/ \E leaf \in expr.of : leaf.key \in LocalKeys THEN None ELSE expr

(* Mutant: a special-use name is published as a mailbox.                   *)
action_to_sieve_literally(action) == IF action.key \in LocalActions THEN None ELSE action

(* A special-use name is no mailbox of the server's.                       *)
action_to_sieve(action) == IF action.key \in LocalActions \/ to_sentinel(action) THEN None ELSE action

Block(rule) ==
  [rule |-> rule.match_expr, condition |-> expr_to_sieve(rule.match_expr), action |-> rule.action,
   stop |-> rule.stop \/ rule.action.key \in {"move", "delete"} \cup ServerActions]

(* A stored flag may be stale, so what it admits is checked again.         *)
Exports(rule) ==
  rule.enabled /\ rule.sieve_exportable /\ expr_to_sieve(rule.match_expr) # None
    /\ action_to_sieve(rule.action) # None

(* The blocks stand in the script in the order of their rules.             *)
export_sieve ==
  LET kept == {j \in DOMAIN rules : Exports(rules[j])}
  IN [blocks |-> [i \in kept |-> Block(rules[i])],
      skipped |-> {rules[i].id : i \in {j \in (DOMAIN rules) \ kept : rules[j].enabled}}]

(* What the server makes of a condition: it knows no tags and no scores.   *)
ServerHolds(condition, from) ==
  evaluate(condition, [from |-> from, tags |-> {}, contact_tags |-> {}, score |-> None])

-----------------------------------------------------------------------------
Rule == [id : RuleIds, match_expr : Exprs, action : Actions, enabled : BOOLEAN, priority : 0..1,
    stop : BOOLEAN, sieve_exportable : BOOLEAN]

RulesTypeOK ==
  /\ \A i \in DOMAIN rules : rules[i] \in Rule
  /\ \A i, j \in DOMAIN rules : i < j => rules[i].priority <= rules[j].priority /\ rules[i].id # rules[j].id
  /\ marks \in [tags : SUBSET {"travel"}, score : 0..1 \cup {None}]
  /\ begun \in 0..MaxPublishes
  /\ publication = None \/ publication.step \in {"connected", "tls", "authenticated", "put", "active"}

(* Rows written before the guard on special-use destinations kept a flag    *)
(* that is now wrong.                                                      *)
Legacy == {[id |-> id, match_expr |-> e, action |-> a, enabled |-> TRUE, priority |-> 0, stop |-> FALSE,
    sieve_exportable |-> TRUE] :
             id \in RuleIds, e \in {x \in Exprs : \A leaf \in x.of : leaf.key \notin LocalKeys},
               a \in {x \in Actions : to_sentinel(x)}}

RulesInit ==
  /\ rules \in {<<>>} \cup {<<row>> : row \in Legacy} /\ marks = [tags |-> {}, score |-> None]
  /\ sieve = [ours |-> None, active |-> None] /\ publication = None /\ published = None /\ begun = 0

(* A row takes its place in the listing.                                   *)
Listed(rule, others) ==
  LET before == SelectSeq(others, LAMBDA r : r.priority <= rule.priority)
      after  == SelectSeq(others, LAMBDA r : r.priority > rule.priority)
  IN Append(before, rule) \o after

Others(id) == SelectSeq(rules, LAMBDA r : r.id # id)
Row(id) == {i \in DOMAIN rules : rules[i].id = id}

create_rule ==
  /\ \E id \in RuleIds, e \in Exprs, a \in Actions, p \in 0..1, stop \in BOOLEAN :
       /\ Row(id) = {}
       /\ rules' = Listed([id |-> id, match_expr |-> e, action |-> a, enabled |-> TRUE, priority |-> p,
            stop |-> stop,
                           sieve_exportable |-> is_sieve_exportable(e, a)], rules)
  /\ UNCHANGED <<marks, sieve, publication, published, begun>>

(* The flag is derived again from the new pair.                            *)
update_rule ==
  /\ \E i \in DOMAIN rules, e \in Exprs, a \in Actions :
       rules' = [rules EXCEPT ![i].match_expr = e, ![i].action = a,
         ![i].sieve_exportable = is_sieve_exportable(e, a)]
  /\ UNCHANGED <<marks, sieve, publication, published, begun>>

enable_rule ==
  /\ \E i \in DOMAIN rules, on \in BOOLEAN : rules' = [rules EXCEPT ![i].enabled = on]
  /\ UNCHANGED <<marks, sieve, publication, published, begun>>

delete_rule ==
  /\ \E id \in RuleIds : Row(id) # {} /\ rules' = Others(id)
  /\ UNCHANGED <<marks, sieve, publication, published, begun>>

add_tag ==
  /\ \E now \in SUBSET {"travel"} : marks' = [marks EXCEPT !.tags = now]
  /\ UNCHANGED <<rules, sieve, publication, published, begun>>

set_score ==
  /\ \E now \in 0..1 \cup {None} : marks' = [marks EXCEPT !.score = now]
  /\ UNCHANGED <<rules, sieve, publication, published, begun>>

-----------------------------------------------------------------------------
(* publish_script: STARTTLS before AUTHENTICATE, PUTSCRIPT before          *)
(* SETACTIVE, and at every step an error, which ends it.                   *)

Advance(step) == publication' = [publication EXCEPT !.step = step]
At(step) == publication # None /\ publication.step = step

BeginPublish ==
  /\ publication = None /\ begun < MaxPublishes /\ begun' = begun + 1
  /\ publication' = [step |-> "connected", script |-> export_sieve.blocks, at |-> begun']
  /\ UNCHANGED <<rules, marks, sieve, published>>

Secure == At("connected") /\ Advance("tls") /\ UNCHANGED <<rules, marks, sieve, published, begun>>
Authenticate == At("tls") /\ Advance("authenticated") /\ UNCHANGED <<rules, marks, sieve, published, begun>>

(* The script replaces the one of its name, active or not.                 *)
PutScript ==
  /\ At("authenticated") /\ Advance("put")
  /\ sieve' = [sieve EXCEPT !.ours = publication]
  /\ UNCHANGED <<rules, marks, published, begun>>

SetActive ==
  /\ At("put") /\ Advance("active") /\ sieve' = [sieve EXCEPT !.active = "ours"]
  /\ UNCHANGED <<rules, marks, published, begun>>

Report ==
  /\ At("active") /\ publication' = None /\ published' = publication.at
  /\ UNCHANGED <<rules, marks, sieve, begun>>

(* An error or a timeout, whatever the server did with the command.        *)
PublishFails ==
  /\ publication # None /\ publication' = None
  /\ UNCHANGED <<rules, marks, sieve, published, begun>>

(* The operator activates another script, or none.                         *)
ActivateElsewhere ==
  /\ publication = None /\ sieve.active # None /\ sieve' = [sieve EXCEPT !.active = None] /\ published' = None
  /\ UNCHANGED <<rules, marks, publication, begun>>

RulesNext ==
  \/ create_rule \/ update_rule \/ enable_rule \/ delete_rule \/ add_tag \/ set_score
  \/ BeginPublish \/ Secure \/ Authenticate \/ PutScript \/ SetActive \/ Report \/ PublishFails \/ ActivateElsewhere

RulesSpec == RulesInit /\ [][RulesNext]_rules_vars

-----------------------------------------------------------------------------
(* The server does to arriving mail what the rules say: every condition of *)
(* the script it keeps holds of a message exactly if the rule it came from *)
(* matches that message here, whatever its tags and scores; no action      *)
(* files mail under a special-use name; and a script that was reported     *)
(* published is the active one, or a later one is (sieve.rs export_sieve,  *)
(* managesieve.rs publish_script).                                         *)
ServerFiltersAsHere ==
  /\ sieve.ours # None => \A i \in DOMAIN sieve.ours.script :
       /\ ~to_sentinel(sieve.ours.script[i].action)
       /\ \A from \in {"ada", "bob"}, derived \in 0..1 \cup {None} :
            ServerHolds(sieve.ours.script[i].condition, from) = evaluate(sieve.ours.script[i].rule,
              ContextOf(from, derived))
  /\ published # None => sieve.active = "ours" /\ sieve.ours.at >= published
=============================================================================
