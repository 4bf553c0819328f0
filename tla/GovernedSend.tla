----------------------------- MODULE GovernedSend -----------------------------
(***************************************************************************)
(* What stands between a written message and SMTP: the agent's identity    *)
(* and policy, the send mode, the cooldown, the attributes its author      *)
(* declares and the host observes, and the Governor, an external program   *)
(* that is given the attributes and may allow, deny or ask for review -    *)
(* or fail.  A queued draft is judged by a later sweep, which retries an   *)
(* unattributed draft a few times and then parks it.  The callers (command *)
(* line and tool server) are not in this repository: they compose the      *)
(* functions as outbound.rs and attribution_persist.rs document.           *)
(***************************************************************************)
EXTENDS Naturals, FiniteSets, FiniteSetsExt, Rows

CONSTANTS
  Declared,          \* attribute sets an author may declare
  Situations,        \* what the host observes of the message
  MAX_ATTRIBUTION_ATTEMPTS,
  MaxEdits           \* bound on the revisions of the draft

ASSUME GovernedAssumption ==
  /\ {MAX_ATTRIBUTION_ATTEMPTS, MaxEdits} \subseteq Nat \ {0}
  /\ None \notin Nat \cup {"draft", "queued", "pending_review", "blocked", "sent"}

VARIABLES
  governor,     \* GovernorMode
  agent,        \* the agent's identity and policy rows
  request,      \* an agent's request on its way through the policy
  mail,         \* the draft: status, revision, author, approval, declaration
  situation,    \* AttributedSendContext of its current revision
  authored,     \* history: attributes declared for the current revision
  left          \* history: how it was transmitted

governed_vars == <<governor, agent, request, mail, situation, authored, left>>

-----------------------------------------------------------------------------
(* Attributes (a part of the catalog that has every provenance).           *)

DECLARABLE == {"informational", "financial_content"}
REQUIRES_ATTESTATION == {"tyler_approved"}
HOST_DERIVED == {"reply_to_thread", "known_contact", "cold_email", "internal_domain", "unknown_domain",
    "has_attachment"}
EXCLUSIVITY_PAIRS == {{"cold_email", "known_contact"}, {"cold_email", "reply_to_thread"},
    {"internal_domain", "unknown_domain"}}

(* What only a stronger check than the host's could tell is "unknown".     *)
observe_host_key(ctx, key) ==
  IF key \in ctx.true THEN "true"
  ELSE IF key \in ctx.unknown THEN "unknown" ELSE "false"

(* Approval counts for the revision that was approved, and is recorded by  *)
(* the host.                                                               *)
to_governor_attrs(ctx, human_approved) ==
  ctx.true \cup (IF human_approved THEN {"tyler_approved"} ELSE {})

conflicting(key, present) == \E pair \in EXCLUSIVITY_PAIRS : key \in pair /\ pair \ {key} \subseteq present

(* Offered to authors; what the host can see is checked against it.        *)
agent_submittable_keys == DECLARABLE \cup HOST_DERIVED

(* Facts a check established; facts whose check is not available.          *)
AttributedSendContext == [true : SUBSET HOST_DERIVED, unknown : SUBSET HOST_DERIVED]
ASSUME SituationAssumption == Situations \subseteq AttributedSendContext

Accepted(declared, ctx) ==
  {k \in declared : k \in DECLARABLE \/ (k \in HOST_DERIVED /\ observe_host_key(ctx, k) = "true")}

(* Any rejected key makes the whole declaration invalid.                   *)
resolve(declared, ctx, human_approved, require) ==
  LET derived  == to_governor_attrs(ctx, human_approved)
      accepted == Accepted(declared, ctx)
      clashing == {k \in accepted : conflicting(k, derived \cup accepted)}
  IN IF accepted # declared \/ clashing # {}
       THEN [state |-> "invalid", attrs |-> {}]
       ELSE IF (require /\ accepted = {}) \/ derived \cup accepted = {}
              THEN [state |-> "unattributed", attrs |-> {}]
              ELSE [state |-> "attributed", attrs |-> derived \cup accepted]

-----------------------------------------------------------------------------
(* The Governor.                                                           *)

GovernorMode == {"required", "warn", "off"}

(* How the program ends, and the decision it prints; None is not JSON.     *)
Invocation == [success : BOOLEAN, decision : {"allow", "review", "deny", "later", None}]

route_for(decision) == IF decision \in {"review", "deny"} THEN decision ELSE None

Outcome(allowed, code, route) == [allowed |-> allowed, code |-> IF allowed THEN None ELSE code, route |-> route]

fail_outcome(mode) == Outcome(mode = "warn", "governor_unavailable", None)

decide_from_verdict(mode, decision) ==
  Outcome(decision = "allow" \/ mode = "warn", "governor_blocked", route_for(decision))

(* An answer counts only from a program that exited successfully.          *)
interpret_governor_invocation(mode, run) ==
  IF ~run.success \/ run.decision = None THEN fail_outcome(mode)
  ELSE decide_from_verdict(mode, run.decision)

FailureCode(state) == IF state = "invalid" THEN "attributes_invalid" ELSE "attributes_required"

(* Whatever the mode but off, an unattributed message is refused before    *)
(* the Governor is asked.                                                  *)
gate_with_attribution(mode, resolution, run) ==
  IF mode = "off" THEN Outcome(TRUE, None, None)
  ELSE IF resolution.state # "attributed" THEN Outcome(FALSE, FailureCode(resolution.state), None)
  ELSE interpret_governor_invocation(mode, run)

-----------------------------------------------------------------------------
(* Send modes.                                                             *)

SendMode == {"draft-only", "confirm-send", "allowlisted-send", "autonomous-send"}

strictness_rank(mode) ==
  CASE mode = "draft-only" -> 0 [] mode = "confirm-send" -> 1
    [] mode = "allowlisted-send" -> 2 [] mode = "autonomous-send" -> 3

stricter(a, b) == IF strictness_rank(a) <= strictness_rank(b) THEN a ELSE b

(* An agent without a policy row is held to the default.                   *)
get_agent_policy == IF agent.policy = None THEN [ceiling |-> "draft-only", acts |-> {}] ELSE agent.policy

authorize(action) == action \in get_agent_policy.acts
clamp_send_mode(requested) == stricter(requested, get_agent_policy.ceiling)

(* listed is whether every recipient parses and matches the allowlist.     *)
evaluate_send_policy(mode, confirm, listed) ==
  CASE mode = "draft-only" -> "draft_only"
    [] mode = "confirm-send" -> IF confirm THEN "allowed" ELSE "denied"
    [] mode = "allowlisted-send" -> IF listed THEN "allowed" ELSE "denied"
    [] mode = "autonomous-send" -> "allowed"

resolve_disposition(cooldown, send_now, confirm_now) ==
  IF send_now \/ cooldown = 0 THEN IF confirm_now THEN "immediate" ELSE "needs confirmation" ELSE "queue"

-----------------------------------------------------------------------------
Policy == [ceiling : SendMode, acts : SUBSET {"send"}]
Attributes == agent_submittable_keys \cup REQUIRES_ATTESTATION \cup {"typo"}
ASSUME DeclaredAssumption == Declared \subseteq SUBSET Attributes

Declaration == [origin : {"bot", "human"}, attrs : SUBSET Attributes,
                revision : 0..MaxEdits, attempts : 0..MAX_ATTRIBUTION_ATTEMPTS + 1]
NoMail == [status |-> None, revision |-> 0, created_by |-> "agent", approved |-> None, declaration |-> None]

AgentRow == [known : BOOLEAN, revoked : BOOLEAN, policy : Policy \cup {None}]
SendPolicyInput == [declared : Declared, listed : BOOLEAN, confirm : BOOLEAN, now : BOOLEAN, mode : SendMode]
MailRow == [status : {None, "draft", "queued", "pending_review", "blocked", "sent"}, revision : 0..MaxEdits,
            created_by : {"agent", "human", "other"}, approved : 0..MaxEdits \cup {None},
            declaration : Declaration \cup {None}]

GovernedTypeOK ==
  /\ governor \in GovernorMode /\ situation \in Situations
  /\ agent \in AgentRow /\ request \in SendPolicyInput \cup {None} /\ mail \in MailRow

GovernedInit ==
  /\ governor \in GovernorMode /\ situation \in Situations
  /\ agent = [known |-> FALSE, revoked |-> FALSE, policy |-> None]
  /\ request = None /\ mail = NoMail /\ authored = {} /\ left = None

-----------------------------------------------------------------------------
(* Identities and policies.                                                *)

create_agent ==
  /\ ~agent.known /\ agent' = [agent EXCEPT !.known = TRUE]
  /\ UNCHANGED <<governor, request, mail, situation, authored, left>>

(* Revoking twice keeps the first time.                                    *)
revoke_agent ==
  /\ agent.known /\ agent' = [agent EXCEPT !.revoked = TRUE]
  /\ UNCHANGED <<governor, request, mail, situation, authored, left>>

set_agent_policy ==
  /\ agent.known /\ \E p \in Policy : agent' = [agent EXCEPT !.policy = p]
  /\ UNCHANGED <<governor, request, mail, situation, authored, left>>

get_agent_by_token == agent.known /\ ~agent.revoked

-----------------------------------------------------------------------------
(* Sending as an agent.                                                    *)

(* The mode is clamped when the request is admitted.                       *)
Admit ==
  /\ request = None /\ mail.status = None /\ get_agent_by_token /\ authorize("send")
  /\ \E d \in Declared, listed, confirm, now \in BOOLEAN, mode \in SendMode :
       request' = [declared |-> d, listed |-> listed, confirm |-> confirm, now |-> now,
         mode |-> clamp_send_mode(mode)]
  /\ UNCHANGED <<governor, agent, mail, situation, authored, left>>

Sent(by, resolution, run) ==
  [by |-> by, judged |-> resolution.attrs, state |-> resolution.state,
    approved |-> mail.approved = mail.revision, run |-> run,
   mode |-> IF request = None THEN None ELSE request.mode]

DraftWritten(status, declaration) ==
  [NoMail EXCEPT !.status = status, !.declaration = declaration]

new_bot(d) == [origin |-> "bot", attrs |-> d, revision |-> 0, attempts |-> 0]

(* A declaration is validated before it is stored; the Governor is asked   *)
(* now, or by the sweep.                                                   *)
Submit ==
  /\ request # None /\ request' = None
  /\ LET verdict == evaluate_send_policy(request.mode, request.confirm, request.listed)
         disposition == resolve_disposition(1, request.now, request.confirm)
         resolution == resolve(request.declared, situation, FALSE, TRUE)
     IN \/ /\ verdict = "draft_only" /\ mail' = DraftWritten("draft", None) /\ UNCHANGED <<authored, left>>
        \/ /\ verdict = "denied" \/ (verdict = "allowed" /\ disposition = "needs confirmation")
           /\ UNCHANGED <<mail, authored, left>>
        \/ /\ verdict = "allowed" /\ disposition = "queue"
           /\ IF resolution.state = "attributed"
                THEN mail' = DraftWritten("queued", new_bot(request.declared)) /\ authored' = request.declared
                ELSE UNCHANGED <<mail, authored>>
           /\ UNCHANGED left
        \/ /\ verdict = "allowed" /\ disposition = "immediate"
           /\ \E run \in Invocation :
                IF gate_with_attribution(governor, resolution, run).allowed
                  THEN /\ mail' = DraftWritten("sent", None) /\ authored' = request.declared
                       /\ left' = Sent("agent", resolution, run)
                  ELSE UNCHANGED <<mail, authored, left>>
  /\ UNCHANGED <<governor, agent, situation>>

-----------------------------------------------------------------------------
(* People, and the sweep.                                                  *)

Compose ==
  /\ mail.status = None /\ request = None
  /\ \E by \in {"human", "other"} : mail' = [DraftWritten("draft", None) EXCEPT !.created_by = by]
  /\ UNCHANGED <<governor, agent, request, situation, authored, left>>

(* The declaration stays in the row, of a revision that is no more.        *)
update_draft_content ==
  /\ mail.status \in {"draft", "queued", "pending_review", "blocked"} /\ mail.revision < MaxEdits
  /\ mail' = [mail EXCEPT !.revision = @ + 1, !.approved = None]
  /\ situation' \in Situations /\ authored' = {}
  /\ UNCHANGED <<governor, agent, request, left>>

(* Bound: an exhausted draft is approved once more (each approval buys one *)
(* more attempt).                                                          *)
approve_draft_revision ==
  /\ mail.status \in {"draft", "queued", "pending_review"}
  /\ mail.declaration # None => mail.declaration.attempts <= MAX_ATTRIBUTION_ATTEMPTS
  /\ mail' = [mail EXCEPT !.approved = mail.revision, !.status = "queued"]
  /\ UNCHANGED <<governor, agent, request, situation, authored, left>>

(* A tool queues the draft again with the declaration of this revision.    *)
queue_draft_for_send ==
  /\ mail.status \in {"draft", "pending_review"}
  /\ \E d \in Declared :
       /\ resolve(d, situation, mail.approved = mail.revision, TRUE).state = "attributed"
       /\ mail' = [mail EXCEPT !.status = "queued", !.declaration = [new_bot(d) EXCEPT !.revision = mail.revision]]
       /\ authored' = d
  /\ UNCHANGED <<governor, agent, request, situation, left>>

(* Mutant: a declaration outlives the revision it was made for.            *)
is_current_always(decl) == decl # None

is_current(decl) == decl # None /\ decl.revision = mail.revision

scheduled_origin ==
  IF is_current(mail.declaration) /\ mail.declaration.origin = "bot" THEN "bot"
  ELSE CASE mail.created_by = "human" -> "human" [] mail.created_by = "agent" -> "bot" [] OTHER -> "unknown"

(* What the sweep declares for the draft, and whether it must.             *)
scheduled_attribution_inputs ==
  [attrs |-> IF is_current(mail.declaration) THEN mail.declaration.attrs ELSE {},
   require |-> ~(scheduled_origin = "human" /\ mail.approved = mail.revision)]

PriorAttempts == IF is_current(mail.declaration) THEN mail.declaration.attempts ELSE 0

declaration_origin == IF scheduled_origin = "human" THEN "human" ELSE "bot"

(* Mutant: failed attempts are counted without end.                        *)
attribution_failure_unbounded(inputs) ==
  [mail EXCEPT !.declaration = [origin |-> declaration_origin, attrs |-> inputs.attrs, revision |-> mail.revision,
                                attempts |-> PriorAttempts + 1]]

(* A failed attempt is stamped on the draft; the last one parks it.  What  *)
(* a person wrote goes back to a person.                                   *)
attribution_failure_action(inputs) ==
  LET attempts == PriorAttempts + 1
      stamped == [origin |-> declaration_origin, attrs |-> inputs.attrs, revision |-> mail.revision,
        attempts |-> attempts]
  IN IF scheduled_origin = "human" THEN [mail EXCEPT !.status = "pending_review"]
     ELSE [mail EXCEPT !.declaration = stamped,
                       !.status = IF attempts >= MAX_ATTRIBUTION_ATTEMPTS THEN "pending_review" ELSE "queued"]

(* The sweep holds the row while it judges, so nothing edits it meanwhile. *)
ScheduledPass ==
  /\ mail.status = "queued"
  /\ \E run \in Invocation :
       LET inputs     == scheduled_attribution_inputs
           resolution == resolve(inputs.attrs, situation, mail.approved = mail.revision, inputs.require)
           outcome    == gate_with_attribution(governor, resolution, run)
       IN IF outcome.allowed
            THEN mail' = [mail EXCEPT !.status = "sent"] /\ left' = Sent("sweep", resolution, run)
            ELSE /\ mail' = CASE outcome.code \in {"attributes_required", "attributes_invalid"} ->
                                   attribution_failure_action(inputs)
                              [] outcome.route = "deny" -> [mail EXCEPT !.status = "blocked"]
                              [] outcome.code = "governor_unavailable" -> mail
                              [] OTHER -> [mail EXCEPT !.status = "pending_review"]
                 /\ UNCHANGED left
  /\ UNCHANGED <<governor, agent, request, situation, authored>>

GovernedNext ==
  \/ create_agent \/ revoke_agent \/ set_agent_policy \/ Admit \/ Submit
  \/ Compose \/ update_draft_content \/ approve_draft_revision \/ queue_draft_for_send \/ ScheduledPass

GovernedSpec == GovernedInit /\ [][GovernedNext]_governed_vars

-----------------------------------------------------------------------------
(* Nothing leaves unless the gate is off, or the message was attributed    *)
(* and a Governor that ran to its end allowed it (in warn mode its answer  *)
(* does not count).  What it was told is the host's observation and what   *)
(* was declared of this very revision, and it was told of a person's       *)
(* approval only if a person approved this revision                        *)
(* (outbound.rs gate_with_attribution, attribution.rs resolve,             *)
(* attribution_persist.rs scheduled_attribution_inputs).                   *)
SendsAreEarned ==
  left # None =>
    /\ \/ governor = "off"
       \/ /\ left.state = "attributed"
          /\ governor = "warn" \/ (left.run.success /\ left.run.decision = "allow")
    /\ left.judged \subseteq situation.true \cup authored \cup REQUIRES_ATTESTATION
    /\ "tyler_approved" \in left.judged => left.approved
    /\ left.by = "agent" => left.mode # "draft-only"
=============================================================================
