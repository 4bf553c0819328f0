------------------------ MODULE DraftLifecycleProofs ------------------------
(***************************************************************************)
(* Proofs about DraftLifecycle for any contents, any number of competing   *)
(* actors and any bounds.  IInv relates what each actor holds to the row:  *)
(* nobody has read a later text than the row's, no two claims share a      *)
(* token, a sender that has not transmitted owns the row as it has read    *)
(* it, and once SMTP has accepted the text the row is out of every other   *)
(* actor's reach.  Everything else follows from it.                        *)
(***************************************************************************)
EXTENDS DraftLifecycle, TLAPS

\* What was read is the row's text, or that of an earlier revision.
Current(v) ==
  v # None => /\ v.revision <= row.revision
              /\ v.revision = row.revision => v.content = row.content

ViewsCurrent ==
  /\ Current(human) /\ Current(bot)
  /\ \A a \in Actors : Current(actor[a].view)

\* An actor past its claim holds a token of its own.
Claiming == {"sending", "accepted", "refused", "syncing"}

TokensDistinct ==
  /\ row.token # None => row.token <= claims
  /\ \A a \in Actors :
       /\ pc[a] # "idle" => actor[a].view # None
       /\ pc[a] \in Claiming => actor[a].token # None /\ actor[a].token <= claims
       /\ pc[a] = "syncing" => actor[a].prior # None
  /\ \A a, b \in Actors :
       (a # b /\ pc[a] \in Claiming /\ pc[b] \in Claiming) =>
         actor[a].token # actor[b].token

SenderOwnsRow ==
  \A a \in Actors : pc[a] = "sending" =>
    /\ Owned(a, "sending")
    /\ row.revision = actor[a].view.revision

\* Nobody can give up the claim under which the text was accepted.
DeliveredIsFinal ==
  /\ (\E a \in Actors : pc[a] = "accepted") => delivered # None
  /\ delivered # None =>
       /\ row.content = delivered
       /\ row.status \in {"sending", "sent", "delivery_uncertain", "discarded"}
       /\ \A a \in Actors :
            pc[a] \in {"sending", "refused"} => ~Owned(a, "sending")

\* An approval, and a declaration, is of a revision that has existed.
StampsBounded ==
  /\ row.approval # None => row.approval <= row.revision
  /\ row.declaration # None => row.declaration <= row.revision

HeldIsUnscheduled == held => row.schedule = "none"

TextInv ==
  /\ ViewsCurrent /\ StampsBounded /\ HeldIsUnscheduled
  /\ ApprovalCoversContent /\ DeclarationCoversContent

ClaimInv == TokensDistinct /\ SenderOwnsRow /\ DeliveredIsFinal

IInv == TypeOK /\ TextInv /\ ClaimInv

-----------------------------------------------------------------------------
(* Two frames: what people do leaves claims alone, and what senders and    *)
(* syncs do, short of an edit, leaves the text and its stamps alone.       *)

SameText == row'.content = row.content /\ row'.revision = row.revision

ClaimsAlone ==
  /\ UNCHANGED <<claims, pc, actor, delivered>>
  /\ row'.token = row.token
  /\ \/ row'.status = row.status
     \/ row.status \in Editable /\ row'.status \in Editable \cup {"discarded"}
     \/ row.status = "delivery_uncertain" /\ row'.status = "discarded"
  /\ SameText \/ row.status \in Editable \cup {"syncing"}

TextAlone ==
  /\ SameText
  /\ row'.approval = row.approval /\ row'.declaration = row.declaration
  /\ row'.schedule \in {row.schedule, "none"}
  /\ UNCHANGED <<human, bot, approved, declared, held>>
  /\ \A a \in Actors :
       actor'[a].view \in {actor[a].view, None, Seen}

LEMMA TypesOfDraft ==
  ASSUME NEW r \in Draft
  PROVE  /\ r.status \in Status /\ r.content \in Contents
         /\ r.revision \in Revisions /\ r.revision \in Nat
         /\ r.schedule \in {"none", "later", "due"}
         /\ r.approval \in Revisions \cup {None}
         /\ r.declaration \in Revisions \cup {None}
         /\ r.token \in Tokens \cup {None}
BY DraftAssumption DEF Draft, Revisions

LEMMA TypesOfView ==
  ASSUME NEW v \in View
  PROVE  v.content \in Contents /\ v.revision \in Nat /\ v # None
BY DraftAssumption DEF View, Revisions

LEMMA ClaimsAloneKeepsClaims ==
  ASSUME TypeOK, row' \in Draft, ClaimInv, ClaimsAlone PROVE ClaimInv'
<1>1. TokensDistinct'
  BY DEF ClaimInv, TokensDistinct, ClaimsAlone
<1>2. SenderOwnsRow'
  BY DEF ClaimInv, SenderOwnsRow, Owned, ClaimsAlone, SameText, Editable
<1>3. DeliveredIsFinal'
  BY DEF ClaimInv, DeliveredIsFinal, Owned, ClaimsAlone, SameText, Editable
<1> QED  BY <1>1, <1>2, <1>3 DEF ClaimInv

LEMMA TextAloneKeepsText ==
  ASSUME TypeOK, row' \in Draft, TextInv, TextAlone PROVE TextInv'
<1>1. /\ row.revision \in Nat /\ None \notin Nat
      /\ row'.revision = row.revision /\ row'.content = row.content
  BY TypesOfDraft, DraftAssumption DEF TypeOK, TextAlone, SameText
<1>2. ViewsCurrent'
  BY <1>1 DEF TextInv, ViewsCurrent, Current, TextAlone, Seen
<1>3. StampsBounded' /\ HeldIsUnscheduled'
  BY <1>1 DEF TextInv, StampsBounded, HeldIsUnscheduled, TextAlone
<1>4. ApprovalCoversContent' /\ DeclarationCoversContent'
  BY <1>1 DEF TextInv, ApprovalCoversContent, HumanApproved,
              DeclarationCoversContent, TextAlone
<1> QED  BY <1>2, <1>3, <1>4 DEF TextInv

-----------------------------------------------------------------------------
LEMMA InitEstablishes == Init => IInv
<1> SUFFICES ASSUME Init PROVE IInv OBVIOUS
<1>1. TypeOK
  <2>1. 0 \in 0 .. MaxRevision /\ 0 \in 0 .. MaxClaims /\ 0 \in 0 .. MaxFaults
    BY DraftAssumption
  <2>2. row \in Draft
    BY <2>1 DEF Init, Draft, Status, Editable, Revisions
  <2> QED  BY <2>1, <2>2 DEF Init, TypeOK, Places, Nobody
<1>2. TextInv
  BY DraftAssumption
  DEF Init, TextInv, ViewsCurrent, Current, StampsBounded, HeldIsUnscheduled,
      ApprovalCoversContent, HumanApproved, DeclarationCoversContent, Nobody
<1>3. ClaimInv
  BY DEF Init, ClaimInv, TokensDistinct, Claiming, SenderOwnsRow, Owned,
         DeliveredIsFinal
<1> QED  BY <1>1, <1>2, <1>3 DEF IInv

\* An edit makes every reading, approval and declaration an earlier one.
Edits ==
  /\ row'.revision = row.revision + 1
  /\ row'.approval = None /\ row'.declaration \in {row.declaration, None}
  /\ row'.schedule = row.schedule
  /\ UNCHANGED <<human, bot, actor, approved, declared, held>>

LEMMA EditKeepsText ==
  ASSUME IInv, Edits PROVE TextInv'
<1>1. row.revision \in Nat /\ None \notin Nat
      /\ row.declaration \in Nat \cup {None}
  BY TypesOfDraft, DraftAssumption DEF IInv, TypeOK, Revisions
<1>2. ViewsCurrent'
  <2> SUFFICES ASSUME NEW v \in View \cup {None}, Current(v)
               PROVE  /\ v # None => v.revision <= row'.revision
                      /\ v # None /\ v.revision = row'.revision
                           => v.content = row'.content
    BY DEF IInv, TypeOK, TextInv, ViewsCurrent, Current, Edits
  <2>1. v # None => v.revision \in Nat
    BY TypesOfView
  <2> QED  BY <1>1, <2>1 DEF Current, Edits
<1>3. StampsBounded' /\ HeldIsUnscheduled'
  BY <1>1 DEF IInv, TextInv, StampsBounded, HeldIsUnscheduled, Edits
<1>4. ApprovalCoversContent' /\ DeclarationCoversContent'
  BY <1>1 DEF IInv, TextInv, StampsBounded, ApprovalCoversContent,
              HumanApproved, DeclarationCoversContent, Edits
<1> QED  BY <1>2, <1>3, <1>4 DEF TextInv

LEMMA PeoplePreserve ==
  ASSUME IInv, People \/ ScheduleComesDue PROVE IInv'
<1> USE DEF IInv, Editable
<1>1. /\ row \in Draft /\ row.revision \in Nat
      /\ row.revision < MaxRevision => row.revision + 1 \in Revisions
      /\ human # None => human.revision \in Nat /\ human.content \in Contents
      /\ bot # None => bot.revision \in Nat /\ bot.content \in Contents
  BY TypesOfDraft, TypesOfView, DraftAssumption DEF TypeOK, Revisions
<1> SUFFICES TypeOK' /\ ClaimsAlone /\ TextInv'
  BY ClaimsAloneKeepsClaims DEF TypeOK
<1>2. ASSUME NEW c \in Contents, Edit(c) PROVE TypeOK' /\ ClaimsAlone /\ TextInv'
  <2>1. TypeOK'
    BY <1>2, <1>1 DEF Edit, Revised, TypeOK, Draft, Status, reading, history
  <2>2. ClaimsAlone
    BY <1>2, <1>1 DEF Edit, Revised, ClaimsAlone, SameText, Draft,
           Queueable, reading, history
  <2>3. TextInv'
    <3>1. Edits
      BY <1>2, <1>1 DEF Edit, Revised, Edits, Draft, reading, history
    <3> QED  BY <3>1, EditKeepsText
  <2> QED  BY <2>1, <2>2, <2>3
<1>3. ASSUME NEW c \in Contents, SetMetadata(c) PROVE TypeOK' /\ ClaimsAlone /\ TextInv'
  <2>1. TypeOK'
    BY ZenonT(20), <1>3, <1>1 DEF SetMetadata, Revised, TypeOK, Draft, Status, reading, history
  <2>2. ClaimsAlone
    BY <1>3, <1>1 DEF SetMetadata, Revised, ClaimsAlone, SameText, Draft,
           Queueable, reading, history
  <2>3. TextInv'
    <3>1. Edits
      BY <1>3, <1>1 DEF SetMetadata, Revised, Edits, Draft, reading, history
    <3> QED  BY <3>1, EditKeepsText
  <2> QED  BY <2>1, <2>2, <2>3
<1>4. ASSUME NEW s \in Editable, UpdateStatus(s) PROVE TypeOK' /\ ClaimsAlone /\ TextInv'
  <2>1. TypeOK'
    BY <1>4, <1>1 DEF UpdateStatus, TypeOK, Draft, Status, reading, history, Revisions, View
  <2>2. ClaimsAlone
    BY <1>4, <1>1 DEF UpdateStatus, ClaimsAlone, SameText, Draft,
           Queueable, reading, history
  <2>3. TextInv'
    BY <1>4, <1>1, TypesOfDraft, DraftAssumption
       DEF UpdateStatus, TypeOK, Draft, Revisions, TextInv, ViewsCurrent, Current, StampsBounded, HeldIsUnscheduled,
           ApprovalCoversContent, HumanApproved, DeclarationCoversContent,
           reading, history
  <2> QED  BY <2>1, <2>2, <2>3
<1>5. ASSUME NEW t \in {"later", "due"}, Schedule(t) PROVE TypeOK' /\ ClaimsAlone /\ TextInv'
  <2>1. TypeOK'
    BY ZenonT(20), <1>5, <1>1 DEF Schedule, TypeOK, Draft, Status, reading, history, Revisions, View
  <2>2. ClaimsAlone
    BY <1>5, <1>1 DEF Schedule, ClaimsAlone, SameText, Draft,
           Queueable, reading, history
  <2>3. TextInv'
    BY <1>5, <1>1, TypesOfDraft, DraftAssumption
       DEF Schedule, TypeOK, Draft, Revisions, TextInv, ViewsCurrent, Current, StampsBounded, HeldIsUnscheduled,
           ApprovalCoversContent, HumanApproved, DeclarationCoversContent,
           reading, history
  <2> QED  BY <2>1, <2>2, <2>3
<1>6. ASSUME NEW t \in {"later", "due"}, QueueApproved(t) PROVE TypeOK' /\ ClaimsAlone /\ TextInv'
  <2>1. TypeOK'
    BY <1>6, <1>1 DEF QueueApproved, Approving, HumanApproved, Attested, Queueable, TypeOK, Draft, Status, reading, history, Revisions, View
  <2>2. ClaimsAlone
    BY <1>6, <1>1 DEF QueueApproved, Approving, HumanApproved, Attested, Queueable, ClaimsAlone, SameText, Draft,
           Queueable, reading, history
  <2>3. TextInv'
    BY <1>6, <1>1, TypesOfDraft, DraftAssumption
       DEF QueueApproved, Approving, HumanApproved, Attested, Queueable, TypeOK, Draft, Revisions, TextInv, ViewsCurrent, Current, StampsBounded, HeldIsUnscheduled,
           ApprovalCoversContent, HumanApproved, DeclarationCoversContent,
           reading, history
  <2> QED  BY <2>1, <2>2, <2>3
<1>7. ASSUME NEW t \in {"later", "due"}, QueueDeclared(t) PROVE TypeOK' /\ ClaimsAlone /\ TextInv'
  <2>1. TypeOK'
    BY <1>7, <1>1 DEF QueueDeclared, StillRead, Queueable, TypeOK, Draft, Status, reading, history, Revisions, View
  <2>2. ClaimsAlone
    BY <1>7, <1>1 DEF QueueDeclared, StillRead, Queueable, ClaimsAlone, SameText, Draft,
           Queueable, reading, history
  <2>3. TextInv'
    BY <1>7, <1>1, TypesOfDraft, DraftAssumption
       DEF QueueDeclared, StillRead, Queueable, TypeOK, Draft, Revisions, TextInv, ViewsCurrent, Current, StampsBounded, HeldIsUnscheduled,
           ApprovalCoversContent, HumanApproved, DeclarationCoversContent,
           reading, history
  <2> QED  BY <2>1, <2>2, <2>3
<1>8. CASE Hold
  <2>1. TypeOK'
    BY <1>8, <1>1 DEF Hold, TypeOK, Draft, Status, reading, history, Revisions, View
  <2>2. ClaimsAlone
    BY <1>8, <1>1 DEF Hold, ClaimsAlone, SameText, Draft,
           Queueable, reading, history
  <2>3. TextInv'
    BY <1>8, <1>1, TypesOfDraft, DraftAssumption
       DEF Hold, TypeOK, Draft, Revisions, TextInv, ViewsCurrent, Current, StampsBounded, HeldIsUnscheduled,
           ApprovalCoversContent, HumanApproved, DeclarationCoversContent,
           reading, history
  <2> QED  BY <2>1, <2>2, <2>3
<1>9. CASE Discard
  <2>1. TypeOK'
    BY <1>9, <1>1 DEF Discard, TypeOK, Draft, Status, reading, history, Revisions, View
  <2>2. ClaimsAlone
    BY <1>9, <1>1 DEF Discard, ClaimsAlone, SameText, Draft,
           Queueable, reading, history
  <2>3. TextInv'
    BY <1>9, <1>1, TypesOfDraft, DraftAssumption
       DEF Discard, TypeOK, Draft, Revisions, TextInv, ViewsCurrent, Current, StampsBounded, HeldIsUnscheduled,
           ApprovalCoversContent, HumanApproved, DeclarationCoversContent,
           reading, history
  <2> QED  BY <2>1, <2>2, <2>3
<1>10. CASE HumanReads
  <2>1. TypeOK'
    BY <1>10, <1>1 DEF HumanReads, Seen, View, TypeOK, Draft, Status, reading, history, Revisions, View
  <2>2. ClaimsAlone
    BY <1>10, <1>1 DEF HumanReads, Seen, View, ClaimsAlone, SameText, Draft,
           Queueable, reading, history
  <2>3. TextInv'
    BY <1>10, <1>1, TypesOfDraft, DraftAssumption
       DEF HumanReads, Seen, View, TypeOK, Draft, Revisions, TextInv, ViewsCurrent, Current, StampsBounded, HeldIsUnscheduled,
           ApprovalCoversContent, HumanApproved, DeclarationCoversContent,
           reading, history
  <2> QED  BY <2>1, <2>2, <2>3
<1>11. CASE BotReads
  <2>1. TypeOK'
    BY <1>11, <1>1 DEF BotReads, Seen, View, TypeOK, Draft, Status, reading, history, Revisions, View
  <2>2. ClaimsAlone
    BY <1>11, <1>1 DEF BotReads, Seen, View, ClaimsAlone, SameText, Draft,
           Queueable, reading, history
  <2>3. TextInv'
    BY <1>11, <1>1, TypesOfDraft, DraftAssumption
       DEF BotReads, Seen, View, TypeOK, Draft, Revisions, TextInv, ViewsCurrent, Current, StampsBounded, HeldIsUnscheduled,
           ApprovalCoversContent, HumanApproved, DeclarationCoversContent,
           reading, history
  <2> QED  BY <2>1, <2>2, <2>3
<1>12. CASE Approve
  <2>1. TypeOK'
    BY <1>12, <1>1 DEF Approve, Approving, HumanApproved, Attested, TypeOK, Draft, Status, reading, history, Revisions, View
  <2>2. ClaimsAlone
    BY <1>12, <1>1 DEF Approve, Approving, HumanApproved, Attested, ClaimsAlone, SameText, Draft,
           Queueable, reading, history
  <2>3. TextInv'
    BY <1>12, <1>1, TypesOfDraft, DraftAssumption
       DEF Approve, Approving, HumanApproved, Attested, TypeOK, Draft, Revisions, TextInv, ViewsCurrent, Current, StampsBounded, HeldIsUnscheduled,
           ApprovalCoversContent, HumanApproved, DeclarationCoversContent,
           reading, history
  <2> QED  BY <2>1, <2>2, <2>3
<1>13. CASE ScheduleComesDue
  <2>1. TypeOK'
    BY <1>13, <1>1 DEF ScheduleComesDue, TypeOK, Draft, Status, reading, history, Revisions, View
  <2>2. ClaimsAlone
    BY <1>13, <1>1 DEF ScheduleComesDue, ClaimsAlone, SameText, Draft,
           Queueable, reading, history
  <2>3. TextInv'
    BY <1>13, <1>1, TypesOfDraft, DraftAssumption
       DEF ScheduleComesDue, TypeOK, Draft, Revisions, TextInv, ViewsCurrent, Current, StampsBounded, HeldIsUnscheduled,
           ApprovalCoversContent, HumanApproved, DeclarationCoversContent,
           reading, history
  <2> QED  BY <2>1, <2>2, <2>3
<1> QED
  BY <1>2, <1>3, <1>4, <1>5, <1>6, <1>7, <1>8, <1>9, <1>10, <1>11, <1>12, <1>13 DEF People

-----------------------------------------------------------------------------
(* Senders and syncs.                                                      *)

\* The types of what an actor holds.
LEMMA TypesOfActor ==
  ASSUME TypeOK, NEW a \in Actors
  PROVE  /\ pc[a] \in Places
         /\ actor[a].view \in View \cup {None}
         /\ actor[a].token \in Nat \cup {None}
         /\ actor[a].prior \in Editable \cup {None}
BY DEF TypeOK, Tokens

LEMMA LeavesPreserves ==
  ASSUME IInv, NEW a \in Actors, NEW new \in Draft, Leaves(a, new),
         \/ pc[a] \in {"sending", "refused"} /\ new.status \in Editable
         \/ pc[a] = "accepted" /\ new.status \in {"sent", "delivery_uncertain"},
         new.content = row.content, new.revision = row.revision,
         new.approval = row.approval, new.declaration = row.declaration,
         new.schedule \in {row.schedule, "none"}
  PROVE  IInv'
<1> USE DEF IInv
<1>1. /\ row' \in Draft /\ SameText
      /\ row'.approval = row.approval /\ row'.declaration = row.declaration
      /\ row'.schedule \in {row.schedule, "none"}
      /\ row'.token \in {row.token, None}
  BY DEF Leaves, TypeOK, Draft, SameText
<1>2. /\ ~Owned(a, "sending") => row' = row
      /\ Owned(a, "sending") => row'.status = new.status /\ row'.token = None
  BY DEF Leaves, Draft
<1>3. /\ pc' \in [Actors -> Places]
      /\ \A b \in Actors \ {a} : pc'[b] = pc[b] /\ actor'[b] = actor[b]
      /\ \/ pc'[a] = "idle" /\ actor'[a] = Nobody
         \/ /\ pc'[a] = (IF pc[a] = "sending" THEN "refused" ELSE pc[a])
            /\ actor'[a] = actor[a]
  BY DEF Leaves, Returns, TypeOK, Places
<1>4. TypeOK'
  <2>1. faults' \in 0 .. MaxFaults
    BY DraftAssumption DEF Leaves, Returns, TypeOK
  <2>2. actor' \in [Actors -> [view : View \cup {None}, token : Tokens \cup {None},
                               prior : Editable \cup {None}]]
    BY DEF Leaves, Returns, TypeOK, Nobody
  <2> QED  BY <1>1, <1>3, <2>1, <2>2 DEF Leaves, reading, history, TypeOK
<1>5. TextInv'
  <2>1. TextAlone
    BY <1>1, <1>3 DEF TextAlone, Leaves, reading, history, Nobody
  <2> QED  BY <2>1, <1>1, TextAloneKeepsText
<1>6. TokensDistinct'
  BY <1>1, <1>3 DEF ClaimInv, TokensDistinct, Claiming, Leaves, Nobody
<1>7. SenderOwnsRow'
  BY <1>1, <1>2, <1>3
  DEF ClaimInv, SenderOwnsRow, TokensDistinct, Claiming, Owned, SameText
<1>8. DeliveredIsFinal'
  BY <1>1, <1>2, <1>3
  DEF ClaimInv, DeliveredIsFinal, Owned, SameText, Leaves, history, Editable
<1> QED  BY <1>4, <1>5, <1>6, <1>7, <1>8 DEF ClaimInv

LEMMA ActPreserves ==
  ASSUME IInv, NEW a \in Actors, Act(a) PROVE IInv'
<1> USE DEF IInv
<1>1. /\ row \in Draft /\ row.revision \in Nat /\ row.content \in Contents
      /\ row.status \in Status /\ claims \in Nat
      /\ row.revision < MaxRevision => row.revision + 1 \in Revisions
      /\ claims < MaxClaims => claims + 1 \in Tokens /\ claims + 1 \in 0 .. MaxClaims
      /\ faults < MaxFaults => faults + 1 \in 0 .. MaxFaults
      /\ None \notin Nat
  BY TypesOfDraft, DraftAssumption DEF TypeOK, Revisions, Tokens
<1>2. Seen \in View /\ Seen # None
  BY TypesOfDraft, TypesOfView DEF TypeOK, Seen, View
<1>3. ASSUME NEW to \in {"listed", "read", "modify"}, Reads(a, to) PROVE IInv'
  <2>1. TypeOK'
    BY <1>2, <1>3 DEF Reads, Moves, TypeOK, Places, Nobody, reading, history
  <2>2. TextAlone
    BY <1>2, <1>3 DEF TextAlone, SameText, Reads, TypeOK, Nobody, reading, history
  <2>3. TokensDistinct'
    BY <1>2, <1>3 DEF ClaimInv, TokensDistinct, Claiming, Reads, Moves, TypeOK, Nobody
  <2>4. SenderOwnsRow' /\ DeliveredIsFinal'
    BY <1>3 DEF ClaimInv, SenderOwnsRow, DeliveredIsFinal, Owned, Reads, Moves,
                TypeOK, history
  <2> QED  BY <2>1, <2>2, <2>3, <2>4, TextAloneKeepsText DEF ClaimInv, TypeOK
<1>4. CASE pc[a] # "idle" /\ Loses(a) /\ UNCHANGED <<reading, history>>
           /\ faults' \in 0 .. MaxFaults
  <2>1. TypeOK'
    BY <1>4 DEF Loses, TypeOK, Places, Nobody, reading, history
  <2>2. TextAlone
    BY <1>4 DEF TextAlone, SameText, Loses, TypeOK, Nobody, reading, history
  <2>3. TokensDistinct'
    BY <1>4 DEF ClaimInv, TokensDistinct, Claiming, Loses, TypeOK, Nobody
  <2>4. SenderOwnsRow' /\ DeliveredIsFinal'
    BY <1>4 DEF ClaimInv, SenderOwnsRow, DeliveredIsFinal, Owned, Loses,
                TypeOK, history
  <2> QED  BY <2>1, <2>2, <2>3, <2>4, TextAloneKeepsText DEF ClaimInv, TypeOK
<1>5. ASSUME NEW status \in {"sending", "syncing"}, Claimed(a, status),
             row.status \in Editable, Unrevised(a),
             pc[a] \in {"listed", "read", "modify"},
             pc' = [pc EXCEPT ![a] = status],
             actor'[a].view = actor[a].view, actor'[a].token = claims + 1,
             status = "syncing" => actor'[a].prior = row.status,
             TypeOK', \A b \in Actors \ {a} : actor'[b] = actor[b],
             UNCHANGED <<reading, history>>
      PROVE  IInv'
  <2>1. /\ row'.status = status /\ row'.token = claims + 1 /\ SameText
        /\ row'.approval = row.approval /\ row'.declaration = row.declaration
        /\ row'.schedule = row.schedule /\ row' \in Draft
    BY <1>5, <1>1 DEF Claimed, SameText, Draft, TypeOK
  <2>2. /\ pc'[a] = status
        /\ \A b \in Actors \ {a} : pc'[b] = pc[b]
    BY <1>5 DEF TypeOK
  <2>3. TextAlone
    BY <1>5, <2>1 DEF TextAlone, reading, history
  <2>4. TokensDistinct'
    <3>1. actor'[a].view # None /\ (status = "syncing" => actor'[a].prior # None)
      BY <1>5, DraftAssumption DEF ClaimInv, TokensDistinct, Editable
    <3>2. \A b \in Actors : pc[b] \in Claiming =>
            actor[b].token \in Nat /\ actor[b].token <= claims
      BY TypesOfActor DEF ClaimInv, TokensDistinct
    <3> QED
      BY <1>1, <1>5, <2>1, <2>2, <3>1, <3>2
      DEF ClaimInv, TokensDistinct, Claiming, Claimed
  <2>5. SenderOwnsRow'
    BY <1>5, <2>1, <2>2
    DEF ClaimInv, SenderOwnsRow, Owned, SameText, Unrevised, Editable
  <2>6. DeliveredIsFinal'
    BY <1>5, <2>1, <2>2 DEF ClaimInv, DeliveredIsFinal, Editable, history
  <2> QED  BY <1>5, <2>1, <2>3, <2>4, <2>5, <2>6, TextAloneKeepsText DEF ClaimInv
<1>6. CASE ClaimToSend(a)
  <2>1. CASE Loses(a)
    BY <1>4, <1>6, <2>1 DEF ClaimToSend, TypeOK
  <2>2. CASE ~Loses(a)
    <3>1. /\ Claimed(a, "sending") /\ row.status \in Editable /\ Unrevised(a)
          /\ pc[a] \in {"listed", "read", "modify"}
          /\ pc' = [pc EXCEPT ![a] = "sending"]
          /\ actor' = [actor EXCEPT ![a].token = claims + 1]
          /\ UNCHANGED <<reading, history, faults>>
      BY <1>6, <2>2 DEF ClaimToSend, Editable
    <3>2. /\ actor'[a].view = actor[a].view /\ actor'[a].token = claims + 1
          /\ \A b \in Actors \ {a} : actor'[b] = actor[b]
      BY <3>1 DEF TypeOK
    <3>3. TypeOK'
      BY ZenonT(20), <1>1, <3>1 DEF TypeOK, Claimed, Draft, Status, Places, reading, history
    <3> QED  BY <1>5, <3>1, <3>2, <3>3
  <2> QED  BY <2>1, <2>2
<1>7. CASE ClaimToSync(a)
  <2>1. CASE Loses(a)
    BY <1>4, <1>7, <2>1 DEF ClaimToSync, TypeOK
  <2>2. CASE ~Loses(a)
    <3>1. /\ Claimed(a, "syncing") /\ row.status \in Editable /\ Unrevised(a)
          /\ pc[a] \in {"listed", "read", "modify"}
          /\ pc' = [pc EXCEPT ![a] = "syncing"]
          /\ actor' = [actor EXCEPT ![a].token = claims + 1,
                                    ![a].prior = row.status]
          /\ UNCHANGED <<reading, history, faults>>
      BY <1>7, <2>2 DEF ClaimToSync
    <3>2. /\ actor'[a].view = actor[a].view /\ actor'[a].token = claims + 1
          /\ actor'[a].prior = row.status
          /\ \A b \in Actors \ {a} : actor'[b] = actor[b]
      BY <3>1 DEF TypeOK
    <3>3. TypeOK'
      <4>1. row' \in Draft
        BY <1>1, <3>1 DEF Claimed, Draft, Status
      <4>2. actor' \in [Actors -> [view : View \cup {None},
                                   token : Tokens \cup {None},
                                   prior : Editable \cup {None}]]
        BY ZenonT(20), <1>1, <3>1 DEF Claimed, TypeOK
      <4> QED  BY <1>1, <3>1, <4>1, <4>2 DEF TypeOK, Claimed, Places, reading, history
    <3> QED  BY <1>5, <3>1, <3>2, <3>3
  <2> QED  BY <2>1, <2>2
<1>8. CASE Transmit(a)
  <2>1. /\ pc[a] = "sending" /\ pc'[a] \in {"accepted", "refused"}
        /\ \A b \in Actors \ {a} : pc'[b] = pc[b]
        /\ pc' \in [Actors -> Places]
        /\ IF pc'[a] = "accepted" THEN delivered' = actor[a].view.content
                                  ELSE delivered' = delivered
        /\ UNCHANGED <<row, claims, reading, actor, approved, declared, held, faults>>
    BY <1>8 DEF Transmit, Moves, TypeOK, Places
  <2>2. /\ Owned(a, "sending") /\ delivered = None
        /\ row.content = actor[a].view.content
    BY <2>1 DEF ClaimInv, TextInv, SenderOwnsRow, ViewsCurrent, Current,
                TokensDistinct, DeliveredIsFinal
  <2>3. TypeOK'
    BY <1>1, <2>1, <2>2 DEF TypeOK, reading
  <2>4. TextAlone
    BY <2>1 DEF TextAlone, SameText, reading, TypeOK
  <2>5. TokensDistinct' /\ SenderOwnsRow'
    BY <2>1 DEF ClaimInv, TokensDistinct, SenderOwnsRow, Claiming, Owned
  <2>6. DeliveredIsFinal'
    <3>1. row.content # None
      BY <1>1, DraftAssumption
    <3> QED
      BY <2>1, <2>2, <3>1
      DEF ClaimInv, DeliveredIsFinal, TokensDistinct, Claiming, Owned
  <2> QED  BY <2>1, <2>3, <2>4, <2>5, <2>6, TextAloneKeepsText DEF ClaimInv, TypeOK
<1>9. CASE MarkSent(a)
  <2> DEFINE new == [row EXCEPT !.status = "sent", !.schedule = "none"]
  <2>1. /\ new \in Draft /\ new.status = "sent" /\ new.schedule = "none"
        /\ new.content = row.content /\ new.revision = row.revision
        /\ new.approval = row.approval /\ new.declaration = row.declaration
    BY <1>1 DEF Draft, Status
  <2> QED  BY <1>9, <2>1, LeavesPreserves DEF MarkSent
<1>10. CASE ParkUncertain(a)
  <2> DEFINE new ==
        [row EXCEPT !.status = "delivery_uncertain", !.schedule = "none"]
  <2>1. /\ new \in Draft /\ new.status = "delivery_uncertain"
        /\ new.schedule = "none"
        /\ new.content = row.content /\ new.revision = row.revision
        /\ new.approval = row.approval /\ new.declaration = row.declaration
    BY <1>1 DEF Draft, Status
  <2> QED  BY <1>10, <2>1, LeavesPreserves DEF ParkUncertain
<1>11. CASE Defer(a)
  <2> DEFINE new ==
        [row EXCEPT !.status = "draft", !.declaration = row.revision]
  <2>1. row.declaration = row.revision /\ pc[a] = "sending" /\ Leaves(a, new)
    BY <1>11 DEF Defer
  <2>2. /\ new \in Draft /\ new.status \in Editable
        /\ new.schedule = row.schedule
        /\ new.content = row.content /\ new.revision = row.revision
        /\ new.approval = row.approval /\ new.declaration = row.declaration
    BY <1>1, <2>1 DEF Draft, Status, Editable
  <2> HIDE DEF new
  <2> QED  BY <2>1, <2>2, LeavesPreserves
<1>12. CASE Park(a)
  <2> DEFINE new ==
        [row EXCEPT !.status = "pending_review", !.schedule = "none"]
  <2>1. /\ new \in Draft /\ new.status \in Editable /\ new.schedule = "none"
        /\ new.content = row.content /\ new.revision = row.revision
        /\ new.approval = row.approval /\ new.declaration = row.declaration
    BY <1>1 DEF Draft, Status, Editable
  <2> QED  BY <1>12, <2>1, LeavesPreserves DEF Park
<1>13. ASSUME NEW to \in Editable, Release(a, to) PROVE IInv'
  <2> DEFINE new == [row EXCEPT !.status = to]
  <2>1. /\ new \in Draft /\ new.status \in Editable
        /\ new.schedule = row.schedule
        /\ new.content = row.content /\ new.revision = row.revision
        /\ new.approval = row.approval /\ new.declaration = row.declaration
    BY <1>1, <1>13 DEF Draft, Status
  <2>2. Leaves(a, new) /\ pc[a] \in {"sending", "refused"}
    BY <1>13 DEF Release
  <2> HIDE DEF new
  <2> QED  BY <2>1, <2>2, LeavesPreserves
<1>14. ASSUME NEW c \in Contents, ApplySynced(a, c) PROVE IInv'
  <2>1. PICK d \in {row.declaration, None} :
          row' = [Revised(c) EXCEPT !.declaration = d]
    BY <1>14 DEF ApplySynced
  <2>2. row' \in Draft
    BY <1>1, <1>14, <2>1 DEF ApplySynced, Revised, Draft
  <2>3. TypeOK'
    BY <1>14, <2>2 DEF ApplySynced, TypeOK, reading, history
  <2>4. ClaimsAlone
    BY <1>1, <1>14, <2>1 DEF ApplySynced, Revised, Owned, ClaimsAlone, Draft, history
  <2>5. Edits
    BY <1>1, <1>14, <2>1 DEF ApplySynced, Revised, Edits, Draft, reading, history
  <2> QED  BY <2>2, <2>3, <2>4, <2>5, ClaimsAloneKeepsClaims, EditKeepsText
<1>15. CASE ReleaseSynced(a)
  <2>1. /\ pc[a] = "syncing" /\ actor[a].prior \in Editable
        /\ UNCHANGED <<claims, reading, history>>
    BY <1>15, TypesOfActor DEF ReleaseSynced, ClaimInv, TokensDistinct
  <2>2. /\ row' \in Draft /\ SameText
        /\ row'.approval = row.approval /\ row'.declaration = row.declaration
        /\ row'.schedule = row.schedule /\ row'.token \in {row.token, None}
        /\ \/ row' = row
           \/ row.status = "syncing" /\ row'.status \in Editable
    <3>1. CASE Owned(a, "syncing")
      <4> DEFINE new == [row EXCEPT !.status = actor[a].prior, !.token = None]
      <4>1. row' = new /\ row.status = "syncing"
        BY <1>15, <3>1 DEF ReleaseSynced, Owned
      <4>2. actor[a].prior \in Status
        BY <2>1 DEF Status
      <4>3. new \in Draft /\ new.status = actor[a].prior /\ new.token = None
            /\ new.content = row.content /\ new.revision = row.revision
            /\ new.approval = row.approval /\ new.declaration = row.declaration
            /\ new.schedule = row.schedule
        BY <1>1, <4>2 DEF Draft
      <4> HIDE DEF new
      <4> QED  BY <2>1, <4>1, <4>3 DEF SameText
    <3>2. CASE ~Owned(a, "syncing")
      BY <1>1, <1>15, <3>2 DEF ReleaseSynced, SameText
    <3> QED  BY <3>1, <3>2
  <2>3. /\ pc' \in [Actors -> Places]
        /\ \A b \in Actors \ {a} : pc'[b] = pc[b] /\ actor'[b] = actor[b]
        /\ \/ pc'[a] = "idle" /\ actor'[a] = Nobody
           \/ pc'[a] = pc[a] /\ actor'[a] = actor[a]
    BY <1>15, <2>1 DEF ReleaseSynced, Returns, TypeOK, Places
  <2>4. TypeOK'
    BY <1>1, <1>15, <2>2, <2>3 DEF ReleaseSynced, Returns, TypeOK, Nobody, reading, history
  <2>5. TextAlone
    BY <2>1, <2>2, <2>3 DEF TextAlone, Nobody, reading, history
  <2>6. TokensDistinct'
    BY <2>1, <2>2, <2>3 DEF ClaimInv, TokensDistinct, Claiming
  <2>7. SenderOwnsRow' /\ DeliveredIsFinal'
    BY <2>1, <2>2, <2>3
    DEF ClaimInv, SenderOwnsRow, DeliveredIsFinal, Owned, SameText, history
  <2> QED  BY <2>2, <2>4, <2>5, <2>6, <2>7, TextAloneKeepsText DEF ClaimInv
<1>16. CASE Dies(a)
  BY <1>1, <1>4, <1>16 DEF Dies, Loses
<1> QED
  BY <1>3, <1>6, <1>7, <1>8, <1>9, <1>10, <1>11, <1>12, <1>13, <1>14, <1>15,
     <1>16
  DEF Act

LEMMA StutterPreserves == ASSUME IInv, UNCHANGED vars PROVE IInv'
BY DEF vars, IInv, TypeOK, TextInv, ViewsCurrent, Current, StampsBounded,
       HeldIsUnscheduled, ApprovalCoversContent, HumanApproved,
       DeclarationCoversContent, ClaimInv, TokensDistinct, SenderOwnsRow,
       Owned, DeliveredIsFinal

LEMMA StepPreserves == IInv /\ [Next]_vars => IInv'
BY PeoplePreserve, ActPreserves, StutterPreserves DEF Next

\* The invariant: what every actor has read and claimed agrees with the row.
THEOREM Invariant == Spec => []IInv
BY InitEstablishes, StepPreserves, PTL DEF Spec

-----------------------------------------------------------------------------
(* What follows from it.                                                   *)

\* Every field keeps its type under every store method and death.
THEOREM TypeCorrect == Spec => []TypeOK
<1>1. IInv => TypeOK
  BY DEF IInv
<1> QED  BY Invariant, <1>1, PTL

\* However late an old owner repeats its release, no two actors send.
THEOREM OneOwnerAlways == Spec => []OneOwner
<1>1. IInv => OneOwner
  BY DEF IInv, ClaimInv, SenderOwnsRow, TokensDistinct, Claiming,
         DeliveredIsFinal, Owned, OneOwner
<1> QED  BY Invariant, <1>1, PTL

\* An approval covers the content the person saw, after any edit or hold.
THEOREM ApprovalBound == Spec => []ApprovalCoversContent
<1>1. IInv => ApprovalCoversContent
  BY DEF IInv, TextInv
<1> QED  BY Invariant, <1>1, PTL

\* A current declaration was validated for the content of the row.
THEOREM DeclarationBound == Spec => []DeclarationCoversContent
<1>1. IInv => DeclarationCoversContent
  BY DEF IInv, TextInv
<1> QED  BY Invariant, <1>1, PTL

\* Whatever is transmitted has one sender, and leaves under an approval or a
\* declaration of the content it has.
THEOREM SendsArePermitted == Spec => []SendsPermitted
BY OneOwnerAlways, ApprovalBound, DeclarationBound, PTL DEF SendsPermitted

\* A sweep that listed the draft before it was held cannot claim it: the
\* hold took its schedule, and the claim looks at the schedule again.
THEOREM HeldNeverSwept == Spec => HeldNotSwept
<1>1. IInv /\ [Next]_vars =>
        [\A a \in Actors : (pc[a] = "listed" /\ pc'[a] = "sending") => ~held]_vars
  <2> SUFFICES ASSUME IInv, Next, NEW a \in Actors,
                      pc[a] = "listed", pc'[a] = "sending"
               PROVE  ~held
    BY DEF vars
  <2>1. CASE People \/ ScheduleComesDue
    <3>1. pc' = pc
      BY <2>1
      DEF People, ScheduleComesDue, Edit, SetMetadata, UpdateStatus, Schedule,
          QueueApproved, QueueDeclared, Hold, Discard, HumanReads, BotReads,
          Approve
    <3> QED  BY <3>1
  <2>2. ASSUME NEW b \in Actors, Act(b) PROVE ~held
    <3> USE DEF IInv, TypeOK
    <3>1. CASE ClaimToSend(b)
      <4>1. row.schedule = "due"
        BY <3>1 DEF ClaimToSend, StillDue, Due, Loses
      <4> QED  BY <4>1 DEF TextInv, HeldIsUnscheduled
    <3>2. CASE ClaimToSync(b)
      BY <3>2 DEF ClaimToSync, Loses
    <3>3. ASSUME NEW to \in {"listed", "read", "modify"}, Reads(b, to) PROVE FALSE
      BY <3>3 DEF Reads, Moves
    <3>4. CASE Transmit(b)
      BY <3>4 DEF Transmit, Moves
    <3>5. CASE MarkSent(b) \/ ParkUncertain(b) \/ Defer(b) \/ Park(b)
               \/ \E to \in Editable : Release(b, to)
      BY <3>5 DEF MarkSent, ParkUncertain, Defer, Park, Release, Leaves, Returns
    <3>6. CASE ReleaseSynced(b) \/ \E c \in Contents : ApplySynced(b, c)
      BY <3>6 DEF ReleaseSynced, ApplySynced, Returns
    <3>7. CASE Dies(b)
      BY <3>7 DEF Dies
    <3> QED  BY <2>2, <3>1, <3>2, <3>3, <3>4, <3>5, <3>6, <3>7 DEF Act
  <2> QED  BY <2>1, <2>2 DEF Next
<1> QED  BY Invariant, <1>1, PTL DEF Spec, HeldNotSwept

-----------------------------------------------------------------------------
(* The row implements Outgoing.  Every step but a transmission, an edit    *)
(* and a discard leaves its three variables as they are.                   *)

Dropped == row.status = "discarded"

Unseen == row'.content = row.content /\ delivered' = delivered /\ Dropped' = Dropped

LEMMA LeavesIsUnseen ==
  ASSUME IInv, NEW a \in Actors, NEW new \in Draft, Leaves(a, new),
         new.content = row.content, new.status # "discarded"
  PROVE  Unseen
BY DEF IInv, TypeOK, Leaves, Owned, Unseen, Dropped, Draft, history

LEMMA PeopleRefine ==
  ASSUME IInv, People \/ ScheduleComesDue
  PROVE  Unseen \/ Promise!Rewrite \/ Promise!Drop
<1> USE DEF IInv
<1>1. row \in Draft /\ row' \in Draft
  BY PeoplePreserve DEF TypeOK
<1>2. row.status \in Editable => delivered = None /\ ~Dropped
  BY DEF ClaimInv, DeliveredIsFinal, Editable, Dropped
<1>3. ASSUME NEW c \in Contents, Edit(c) \/ SetMetadata(c) PROVE Promise!Rewrite
  <2>1. /\ row.status \in Editable /\ row'.status = row.status
        /\ row'.content = c /\ delivered' = delivered
    BY <1>1, <1>3 DEF Edit, SetMetadata, Revised, Draft, history
  <2> QED  BY <1>2, <2>1 DEF Promise!Rewrite, Dropped
<1>4. CASE Discard
  <2>1. /\ row'.status = "discarded" /\ ~Dropped
        /\ row'.content = row.content /\ delivered' = delivered
    BY <1>1, <1>4 DEF Discard, Draft, Editable, Dropped, history
  <2> QED  BY <2>1 DEF Promise!Drop, Dropped
<1>5. ASSUME NEW s \in Editable, UpdateStatus(s) PROVE Unseen
  BY <1>1, <1>5 DEF UpdateStatus, Unseen, Dropped, Draft, Editable, history
<1>6. ASSUME NEW t \in {"later", "due"},
             Schedule(t) \/ QueueApproved(t) \/ QueueDeclared(t)
      PROVE  Unseen
  BY <1>1, <1>6
  DEF Schedule, QueueApproved, Attested, QueueDeclared, Queueable, Unseen,
      Dropped, Draft
<1>7. CASE Hold \/ Approve \/ ScheduleComesDue
  BY <1>1, <1>7
  DEF Hold, Approve, Attested, ScheduleComesDue, Unseen, Dropped, Draft,
      Editable, history
<1>8. CASE HumanReads \/ BotReads
  BY <1>8 DEF HumanReads, BotReads, Unseen, Dropped, history
<1> QED  BY <1>3, <1>4, <1>5, <1>6, <1>7, <1>8 DEF People

LEMMA ActRefines ==
  ASSUME IInv, NEW a \in Actors, Act(a)
  PROVE  Unseen \/ Promise!Rewrite \/ Promise!Deliver
<1> USE DEF IInv
<1>1. row \in Draft /\ actor[a].prior \in Editable \cup {None}
  BY TypesOfActor DEF TypeOK
<1>2. CASE Transmit(a)
  <2>1. /\ Owned(a, "sending") /\ delivered = None /\ pc[a] = "sending"
        /\ row.content = actor[a].view.content
    BY <1>2 DEF Transmit, Moves, ClaimInv, TextInv, SenderOwnsRow,
                ViewsCurrent, Current, TokensDistinct, DeliveredIsFinal
  <2> QED  BY <1>2, <2>1 DEF Transmit, Owned, Promise!Deliver, Unseen, Dropped
<1>3. ASSUME NEW c \in Contents, ApplySynced(a, c) PROVE Promise!Rewrite
  <2>1. /\ row.status = "syncing" /\ row'.status = row.status
        /\ row'.content = c /\ delivered' = delivered
    BY <1>1, <1>3 DEF ApplySynced, Revised, Owned, Draft, history
  <2> QED
    BY <2>1 DEF Promise!Rewrite, Dropped, ClaimInv, DeliveredIsFinal
<1>4. CASE ClaimToSend(a) \/ ClaimToSync(a)
  BY <1>1, <1>4
  DEF ClaimToSend, ClaimToSync, Claimed, Loses, Unseen, Dropped, Draft,
      Editable, history
<1>5. CASE MarkSent(a)
  <2> DEFINE new == [row EXCEPT !.status = "sent", !.schedule = "none"]
  <2>1. new \in Draft /\ new.content = row.content /\ new.status # "discarded"
    BY <1>1 DEF Draft, Status
  <2> QED  BY <1>5, <2>1, LeavesIsUnseen DEF MarkSent
<1>6. CASE ParkUncertain(a)
  <2> DEFINE new ==
        [row EXCEPT !.status = "delivery_uncertain", !.schedule = "none"]
  <2>1. new \in Draft /\ new.content = row.content /\ new.status # "discarded"
    BY <1>1 DEF Draft, Status
  <2> QED  BY <1>6, <2>1, LeavesIsUnseen DEF ParkUncertain
<1>7. CASE Defer(a)
  <2> DEFINE new ==
        [row EXCEPT !.status = "draft", !.declaration = row.revision]
  <2>1. new \in Draft /\ new.content = row.content /\ new.status # "discarded"
    BY <1>1 DEF Draft, Status, Editable
  <2>2. Leaves(a, new)
    BY <1>7 DEF Defer
  <2> HIDE DEF new
  <2> QED  BY <2>1, <2>2, LeavesIsUnseen
<1>8. CASE Park(a)
  <2> DEFINE new ==
        [row EXCEPT !.status = "pending_review", !.schedule = "none"]
  <2>1. new \in Draft /\ new.content = row.content /\ new.status # "discarded"
    BY <1>1 DEF Draft, Status, Editable
  <2> QED  BY <1>8, <2>1, LeavesIsUnseen DEF Park
<1>9. ASSUME NEW to \in Editable, Release(a, to) PROVE Unseen
  <2> DEFINE new == [row EXCEPT !.status = to]
  <2>1. new \in Draft /\ new.content = row.content /\ new.status # "discarded"
    BY <1>1, <1>9 DEF Draft, Status, Editable
  <2>2. Leaves(a, new)
    BY <1>9 DEF Release
  <2> HIDE DEF new
  <2> QED  BY <2>1, <2>2, LeavesIsUnseen
<1>10. CASE ReleaseSynced(a)
  <2>1. actor[a].prior \in Editable
    BY <1>1, <1>10 DEF ReleaseSynced, ClaimInv, TokensDistinct
  <2> QED
    BY <1>1, <1>10, <2>1
    DEF ReleaseSynced, Owned, Unseen, Dropped, Draft, Editable, history
<1>11. CASE Dies(a) \/ \E to \in {"listed", "read", "modify"} : Reads(a, to)
  BY <1>11 DEF Dies, Reads, Unseen, Dropped, history
<1> QED
  BY <1>2, <1>3, <1>4, <1>5, <1>6, <1>7, <1>8, <1>9, <1>10, <1>11 DEF Act

\* The draft leaves at most once, as it then reads, is never rewritten or
\* sent again after, and never leaves once it was discarded.
THEOREM PromiseKept == Spec => KeepsPromise
<1>1. Init => Promise!Init
  BY DEF Init, Promise!Init
<1>2. IInv /\ [Next]_vars =>
        [Promise!Next]_<<row.content, delivered, row.status = "discarded">>
  <2> SUFFICES ASSUME IInv, [Next]_vars
               PROVE  Unseen \/ Promise!Next
    BY DEF Unseen, Dropped
  <2>1. CASE UNCHANGED vars
    BY <2>1 DEF vars, Unseen, Dropped
  <2> QED
    BY <2>1, PeopleRefine, ActRefines DEF Next, Promise!Next
<1> QED
  BY Invariant, <1>1, <1>2, PTL DEF Spec, KeepsPromise, Promise!Spec
=============================================================================
