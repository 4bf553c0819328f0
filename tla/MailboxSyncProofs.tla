------------------------- MODULE MailboxSyncProofs --------------------------
(***************************************************************************)
(* Proofs about MailboxSync for any number of overlapping sweeps, any mail *)
(* and any batch size.                                                     *)
(*                                                                         *)
(* The boundary is safe because nothing resolved is ever unresolved        *)
(* (ResolvedStays): what a sweep found resolved when it read the boundary, *)
(* the handled sources or a message is still so when it writes the         *)
(* boundary, whatever other sweeps and the owner did meanwhile.            *)
(* SweepHonest says so for each part of what a sweep remembers.            *)
(***************************************************************************)
EXTENDS MailboxSync, FiniteSetTheorems, WellFoundedInduction, TLAPS

\* A sweep's memory is its own; it only waits to quarantine a message it has
\* taken off its list.
SweepRows ==
  /\ sweep \in [Sweepers -> Sweep \cup {None}]
  /\ \A s \in Sweepers : pc[s] = "finalize" => sweep[s].todo # {}

Types == TypeOK /\ SweepRows

\* What is quarantined is in front of the owner, or was settled.
QuarantinedResolved == \A k \in quarantined : Resolved(k[2])

\* Only a travel message is ever half recorded: a sweep that ignores a message
\* leaves nothing open behind it.
NoiseNeverOpen == \A m \in Noise : fate[m] # "open"

\* The messages up to a boundary have arrived and are resolved.
SafeBoundary(b) == \A m \in 1 .. b : m <= mail /\ Resolved(m)

\* What a sweep remembers of the mailbox is still true of it.
SweepHonest(s) ==
  pc[s] # "idle" =>
    /\ \A m \in sweep[s].handled : Resolved(m)
    /\ pc[s] \in {"list", "scan", "finalize"} => SafeBoundary(sweep[s].last)
    /\ pc[s] \in {"scan", "finalize"} =>
         /\ sweep[s].next <= mail
         /\ ~sweep[s].blocked =>
              \A m \in ((1 .. sweep[s].next) \cup sweep[s].window) \ sweep[s].todo :
                Resolved(m)

IInv ==
  /\ Types
  /\ QuarantinedResolved /\ NoiseNeverOpen
  /\ CursorNeverSkips
  /\ \A s \in Sweepers : SweepHonest(s)

-----------------------------------------------------------------------------
(* The operators of the model.                                             *)

LEMMA BoundsNat ==
  /\ {Limit, MaxAttempts, MaxMail, MaxEpoch, MaxRescans, MaxFaults} \subseteq Nat
  /\ Limit > 0 /\ MaxAttempts > 0 /\ MaxEpoch > 0
  /\ Msgs \subseteq Nat \ {0} /\ Epochs \subseteq Nat
BY SyncAssumption DEF Msgs, Epochs

\* A set of numbers has its least one, however large it is.
LEMMA MinOfNumbers ==
  ASSUME NEW S \in SUBSET Nat, S # {}
  PROVE  Min(S) \in S /\ \A x \in S : Min(S) <= x
<1> DEFINE R == {p \in Nat \X Nat : p[1] < p[2]}
<1>1. OpToRel(<, Nat) = R
  BY DEF OpToRel
<1>2. IsWellFoundedOn(R, Nat)
  BY <1>1, NatLessThanWellFounded
<1>3. PICK x \in S : \A y \in S : <<y, x>> \notin R
  BY <1>2, WFMin
<1>4. \A y \in S : x <= y
  <2> SUFFICES ASSUME NEW y \in S PROVE x <= y
    OBVIOUS
  <2>1. <<y, x>> \notin R
    BY <1>3
  <2>2. ~(y < x)
    BY <2>1
  <2> QED
    BY <2>2
<1> QED
  BY <1>4 DEF Min

LEMMA MaxOfTwo ==
  ASSUME NEW a \in Nat, NEW b \in Nat
  PROVE  Max({a, b}) = IF a <= b THEN b ELSE a
BY DEF Max

\* The message a sweep reads next is one of its list.
LEMMA NextOnList ==
  ASSUME NEW s \in Sweepers, sweep[s] \in Sweep, sweep[s].todo # {}
  PROVE  Next1(s) \in sweep[s].todo /\ Next1(s) \in Msgs
BY MinOfNumbers, BoundsNat DEF Next1, Sweep

\* next_scan_uids ends the batch where it lists its last message: everything
\* from the old boundary to the new one is on the list.
LEMMA BatchEnd ==
  ASSUME NEW n \in 0 .. MaxMail, NEW last \in 0 .. MaxMail
  PROVE  /\ Max(NextScan(n, last) \cup {last}) \in 0 .. MaxMail
         /\ last <= n => Max(NextScan(n, last) \cup {last}) <= n
         /\ \A m \in 1 .. Max(NextScan(n, last) \cup {last}) :
              m <= last \/ m \in NextScan(n, last)
<1> DEFINE B == NextScan(n, last) \cup {last}
           e == IF n <= last THEN last
                ELSE IF n <= last + Limit THEN n ELSE last + Limit
<1>1. n \in Nat /\ last \in Nat /\ Limit \in Nat /\ Limit > 0
  BY BoundsNat
<1>2. B \subseteq Nat /\ e \in B /\ \A x \in B : e >= x
  BY <1>1 DEF NextScan
<1>3. Max(B) = e
  BY <1>2 DEF Max
<1>4. e \in 0 .. MaxMail /\ (last <= n => e <= n)
  BY <1>1, BoundsNat
<1>5. \A m \in 1 .. e : m <= last \/ m \in NextScan(n, last)
  BY <1>1 DEF NextScan
<1> HIDE DEF e
<1> QED
  BY <1>3, <1>4, <1>5

-----------------------------------------------------------------------------
(* Types.                                                                  *)

LEMMA InitTypes == Init => Types
BY BoundsNat DEF Init, Types, TypeOK, SweepRows, Msgs, Epochs, Fates

LEMMA WorldTypes ==
  ASSUME Types, Arrive \/ NewEpoch \/ \E m \in Msgs : OwnerSettles(m)
  PROVE  Types'
<1> USE BoundsNat DEF Types, TypeOK, SweepRows
<1>1. CASE Arrive
  BY <1>1 DEF Arrive
<1>2. CASE NewEpoch
  BY <1>2 DEF NewEpoch, Epochs
<1>3. ASSUME NEW m \in Msgs, OwnerSettles(m) PROVE Types'
  BY <1>3 DEF OwnerSettles, Fates
<1> QED
  BY <1>1, <1>2, <1>3

LEMMA BeginTypes ==
  ASSUME Types, NEW s \in Sweepers, NEW rescan \in BOOLEAN, Begin(s, rescan)
  PROVE  Types'
<1>1. sweep'[s] \in Sweep
  BY BoundsNat DEF Types, TypeOK, SweepRows, Begin, Sweep, Handled
<1>2. SweepRows'
  BY <1>1 DEF Types, TypeOK, SweepRows, Begin
<1>3. TypeOK'
  BY <1>1, BoundsNat DEF Types, TypeOK, SweepRows, Begin, Store
<1> QED
  BY <1>2, <1>3 DEF Types

LEMMA ReadCursorTypes ==
  ASSUME Types, NEW s \in Sweepers, ReadCursor(s)
  PROVE  Types'
<1>1. sweep[s] \in Sweep /\ sweep[s].epoch \in Epochs
  BY DEF Types, TypeOK, ReadCursor, Sweep
<1>2. cursor # None => cursor.last \in 0 .. MaxMail
  BY DEF Types, TypeOK, Cursor
<1> DEFINE known == cursor # None /\ cursor.epoch = sweep[s].epoch
           last == IF known /\ ~sweep[s].rescan THEN cursor.last ELSE 0
           bootstrap == ~sweep[s].rescan /\ ~known
<1>3. sweep'[s] \in Sweep
  <2>1. last \in 0 .. MaxMail /\ bootstrap \in BOOLEAN
    BY <1>2, BoundsNat
  <2>2. sweep'[s] = [sweep[s] EXCEPT !.last = last, !.bootstrap = bootstrap]
    BY DEF Types, SweepRows, ReadCursor
  <2> HIDE DEF last, bootstrap
  <2> QED
    BY <1>1, <2>1, <2>2 DEF Sweep
<1>4. cursor' \in Cursor \cup {None}
  BY <1>1, BoundsNat DEF Types, TypeOK, ReadCursor, Cursor
<1> QED
  BY <1>3, <1>4 DEF Types, TypeOK, SweepRows, ReadCursor

LEMMA ListTypes ==
  ASSUME Types, NEW s \in Sweepers, List(s)
  PROVE  Types'
<1>1. sweep[s] \in Sweep
  BY DEF Types, TypeOK, List
<1>2. sweep[s].last \in 0 .. MaxMail /\ mail \in 0 .. MaxMail /\ mail \in Nat
  BY <1>1, BoundsNat DEF Types, TypeOK, Sweep
<1>3. NextScan(mail, sweep[s].last) \subseteq Msgs /\ LatestScan(mail) \subseteq Msgs
  BY <1>2, BoundsNat DEF NextScan, LatestScan, Msgs
<1>4. Max({} \cup {sweep[s].last}) = sweep[s].last
  BY <1>2 DEF Max
<1>5. sweep'[s] \in Sweep
  BY ZenonT(60), <1>1, <1>2, <1>3, <1>4, BatchEnd DEF Types, TypeOK, SweepRows, List, Sweep
<1> QED
  BY <1>5 DEF Types, TypeOK, SweepRows, List, Store

\* Taking the next message off the list.
LEMMA DoneTypes ==
  ASSUME Types, NEW s \in Sweepers, sweep[s] \in Sweep, NEW blocks \in BOOLEAN,
         Done(s, blocks)
  PROVE  /\ sweep' \in [Sweepers -> Sweep \cup {None}]
         /\ sweep'[s] \in Sweep
         /\ \A t \in Sweepers : t # s => sweep'[t] = sweep[t]
BY DEF Types, TypeOK, SweepRows, Done, Sweep

\* What a step that looks at the next message knows of it.
LEMMA AtMessage ==
  ASSUME Types, NEW s \in Sweepers, Scanning(s) \/ pc[s] = "finalize"
  PROVE  /\ sweep[s] \in Sweep
         /\ Next1(s) \in sweep[s].todo /\ Next1(s) \in Msgs
         /\ <<sweep[s].epoch, Next1(s)>> \in Epochs \X Msgs
<1>1. sweep[s] \in Sweep /\ sweep[s].todo # {} /\ sweep[s].epoch \in Epochs
  BY DEF Types, TypeOK, SweepRows, Scanning, Sweep
<1> QED
  BY <1>1, NextOnList

LEMMA ClearedType ==
  ASSUME attempts \in [Epochs \X Msgs -> Nat], NEW key \in Epochs \X Msgs
  PROVE  Cleared(key) \in [Epochs \X Msgs -> Nat]
BY DEF Cleared

LEMMA ReadTypes ==
  ASSUME Types, NEW s \in Sweepers, Read(s)
  PROVE  Types'
<1> DEFINE u == Next1(s)
           key == <<sweep[s].epoch, u>>
<1>1. Scanning(s) /\ pc[s] = "scan"
  BY DEF Read, Scanning
<1>2. sweep[s] \in Sweep /\ u \in Msgs /\ key \in Epochs \X Msgs /\ sweep[s].epoch \in Epochs
  BY <1>1, AtMessage DEF Sweep
<1>3. attempts \in [Epochs \X Msgs -> Nat] /\ Cleared(key) \in [Epochs \X Msgs -> Nat]
  BY <1>2, ClearedType DEF Types, TypeOK
<1>4. attempts' \in [Epochs \X Msgs -> Nat]
  BY <1>3 DEF Read
<1>5. fate' \in [Msgs -> Fates] /\ rowEpoch' \in [Msgs -> Epochs \cup {None}]
  <2>1. fate' \in [Msgs -> Fates]
    BY <1>2 DEF Read, Types, TypeOK, Fates
  <2>2. rowEpoch' \in [Msgs -> Epochs \cup {None}]
    BY <1>2 DEF Read, Types, TypeOK
  <2> QED
    BY <2>1, <2>2
<1>6. sweep' \in [Sweepers -> Sweep \cup {None}] /\ sweep'[s] \in Sweep
      /\ \A t \in Sweepers : t # s => sweep'[t] = sweep[t]
  BY <1>2, DoneTypes DEF Read
<1> QED
  BY <1>1, <1>4, <1>5, <1>6 DEF Types, TypeOK, SweepRows, Read

LEMMA PersistFailsTypes ==
  ASSUME Types, NEW s \in Sweepers, PersistFails(s)
  PROVE  Types'
<1> DEFINE u == Next1(s)
           key == <<sweep[s].epoch, u>>
<1>1. Scanning(s) /\ pc[s] = "scan"
  BY DEF PersistFails, Scanning
<1>2. sweep[s] \in Sweep /\ u \in Msgs /\ key \in Epochs \X Msgs /\ sweep[s].epoch \in Epochs
  BY <1>1, AtMessage DEF Sweep
<1>3. attempts \in [Epochs \X Msgs -> Nat] /\ Cleared(key) \in [Epochs \X Msgs -> Nat]
  BY <1>2, ClearedType DEF Types, TypeOK
<1>4. attempts' \in [Epochs \X Msgs -> Nat]
  BY <1>3 DEF PersistFails
<1>5. fate' \in [Msgs -> Fates] /\ rowEpoch' \in [Msgs -> Epochs \cup {None}]
  <2>1. fate' \in [Msgs -> Fates]
    BY <1>2 DEF PersistFails, Types, TypeOK, Fates
  <2>2. rowEpoch' \in [Msgs -> Epochs \cup {None}]
    BY <1>2 DEF PersistFails, Types, TypeOK
  <2> QED
    BY <2>1, <2>2
<1>6. sweep' \in [Sweepers -> Sweep \cup {None}] /\ sweep'[s] \in Sweep
      /\ \A t \in Sweepers : t # s => sweep'[t] = sweep[t]
  BY <1>2, DoneTypes DEF PersistFails
<1>7. faults' \in 0 .. MaxFaults
  BY BoundsNat DEF PersistFails, Fault, Types, TypeOK
<1> QED
  BY <1>1, <1>4, <1>5, <1>6, <1>7 DEF Types, TypeOK, SweepRows, PersistFails

LEMMA UnreadableTypes ==
  ASSUME Types, NEW s \in Sweepers, Unreadable(s)
  PROVE  Types'
<1> DEFINE key == <<sweep[s].epoch, Next1(s)>>
<1>1. Scanning(s) /\ pc[s] = "scan" /\ sweep[s].todo # {}
  BY DEF Unreadable, Scanning
<1>2. sweep[s] \in Sweep /\ key \in Epochs \X Msgs
  BY <1>1, AtMessage
<1>3. faults' \in 0 .. MaxFaults
  BY BoundsNat DEF Unreadable, Fault, Types, TypeOK
<1>4. attempts' \in [Epochs \X Msgs -> Nat]
  <2>1. attempts \in [Epochs \X Msgs -> Nat] /\ attempts[key] + 1 \in Nat
    BY <1>2 DEF Types, TypeOK
  <2>2. attempts' = attempts \/ attempts' = [attempts EXCEPT ![key] = attempts[key] + 1]
    BY DEF Unreadable
  <2> QED
    BY <1>2, <2>1, <2>2
<1>5. ASSUME NEW blocks \in BOOLEAN, Done(s, blocks), UNCHANGED pc
      PROVE  Types'
  <2>1. sweep' \in [Sweepers -> Sweep \cup {None}] /\ sweep'[s] \in Sweep
        /\ \A t \in Sweepers : t # s => sweep'[t] = sweep[t]
    BY <1>2, <1>5, DoneTypes
  <2> QED
    BY <1>1, <1>3, <1>4, <1>5, <2>1 DEF Types, TypeOK, SweepRows, Unreadable
<1>6. ASSUME pc' = [pc EXCEPT ![s] = "finalize"], UNCHANGED sweep
      PROVE  Types'
  BY <1>1, <1>3, <1>4, <1>6 DEF Types, TypeOK, SweepRows, Unreadable
<1> QED
  BY <1>5, <1>6 DEF Unreadable

LEMMA FinalizeTypes ==
  ASSUME Types, NEW s \in Sweepers, Finalize(s)
  PROVE  Types'
<1> DEFINE u == Next1(s)
           key == <<sweep[s].epoch, u>>
<1>1. pc[s] = "finalize"
  BY DEF Finalize
<1>2. sweep[s] \in Sweep /\ u \in Msgs /\ key \in Epochs \X Msgs /\ sweep[s].epoch \in Epochs
  BY <1>1, AtMessage DEF Sweep
<1>3. faults' \in 0 .. MaxFaults
  <2>1. UNCHANGED faults \/ Fault
    BY DEF Finalize
  <2> QED
    BY <2>1, BoundsNat DEF Fault, Types, TypeOK
<1>4. /\ fate' \in [Msgs -> Fates] /\ rowEpoch' \in [Msgs -> Epochs \cup {None}]
      /\ quarantined' \subseteq Epochs \X Msgs
  BY <1>2 DEF Finalize, Types, TypeOK, Fates
<1>5. \E blocks \in BOOLEAN : Done(s, blocks)
  BY DEF Finalize
<1>6. sweep' \in [Sweepers -> Sweep \cup {None}] /\ sweep'[s] \in Sweep
      /\ \A t \in Sweepers : t # s => sweep'[t] = sweep[t]
  BY <1>2, <1>5, DoneTypes
<1> QED
  BY <1>1, <1>3, <1>4, <1>6 DEF Types, TypeOK, SweepRows, Finalize

LEMMA OutageTypes ==
  ASSUME Types, NEW s \in Sweepers, Outage(s)
  PROVE  Types'
<1>1. pc[s] = "scan" /\ sweep[s] \in Sweep
  BY DEF Types, TypeOK, Outage, Scanning
<1>2. faults' \in 0 .. MaxFaults
  BY BoundsNat DEF Outage, Fault, Types, TypeOK
<1>3. sweep' \in [Sweepers -> Sweep \cup {None}] /\ sweep'[s] \in Sweep
      /\ \A t \in Sweepers : t # s => sweep'[t] = sweep[t]
  <2>1. PICK lost \in LostToRetries(s) :
              sweep' = [sweep EXCEPT ![s].todo = @ \ lost, ![s].blocked = TRUE]
    BY DEF Outage
  <2> QED
    BY <1>1, <2>1 DEF Types, SweepRows, Sweep
<1> QED
  BY <1>1, <1>2, <1>3 DEF Types, TypeOK, SweepRows, Outage, Store

LEMMA UpsertedType ==
  ASSUME cursor \in Cursor \cup {None}, NEW e \in Epochs, NEW last \in 0 .. MaxMail
  PROVE  Upserted(e, last) \in Cursor
<1>1. cursor # None => cursor.last \in Nat /\ cursor.last \in 0 .. MaxMail
  BY BoundsNat DEF Cursor
<1>2. cursor # None => Max({cursor.last, last}) \in 0 .. MaxMail
  BY <1>1, MaxOfTwo
<1> QED
  BY <1>1, <1>2 DEF Upserted, Cursor

LEMMA FinishTypes ==
  ASSUME Types, NEW s \in Sweepers, Finish(s)
  PROVE  Types'
<1>1. pc[s] = "scan" /\ sweep[s] \in Sweep
  BY DEF Types, TypeOK, Finish
<1>2. /\ sweep[s].epoch \in Epochs /\ 0 \in 0 .. MaxMail
      /\ sweep[s].next \in 0 .. MaxMail
  BY <1>1, BoundsNat DEF Sweep
<1>3. cursor' \in Cursor \cup {None}
  BY <1>2, UpsertedType DEF Finish, Types, TypeOK
<1> QED
  BY <1>3 DEF Types, TypeOK, SweepRows, Finish

LEMMA AbortTypes ==
  ASSUME Types, NEW s \in Sweepers, Abort(s)
  PROVE  Types'
<1>1. faults' \in 0 .. MaxFaults
  BY BoundsNat DEF Abort, Fault, Types, TypeOK
<1> QED
  BY <1>1 DEF Types, TypeOK, SweepRows, Abort, Store

LEMMA NextTypes == ASSUME Types, [Next]_vars PROVE Types'
<1>1. CASE UNCHANGED vars
  BY <1>1 DEF Types, TypeOK, SweepRows, vars
<1> QED
  BY <1>1, WorldTypes, BeginTypes, ReadCursorTypes, ListTypes, ReadTypes,
     PersistFailsTypes, UnreadableTypes, FinalizeTypes, OutageTypes, FinishTypes,
     AbortTypes DEF Next, Progress

-----------------------------------------------------------------------------
(* What every step keeps: mail stays, and what is resolved stays resolved. *)

Grows == mail <= mail' /\ \A m \in Msgs : Resolved(m) => Resolved(m)'

LEMMA FateSteps ==
  ASSUME Types, NEW s \in Sweepers, Read(s) \/ PersistFails(s) \/ Finalize(s)
  PROVE  \A m \in Msgs : Resolved(m) => Resolved(m)'
<1>1. CASE Read(s)
  BY <1>1 DEF Types, TypeOK, Read, Resolved
<1>2. CASE PersistFails(s)
  BY <1>2 DEF Types, TypeOK, PersistFails, Resolved
<1>3. CASE Finalize(s)
  BY <1>3 DEF Types, TypeOK, Finalize, Resolved
<1> QED
  BY <1>1, <1>2, <1>3

LEMMA ResolvedStays == ASSUME Types, [Next]_vars PROVE Grows
<1> SUFFICES ASSUME Next PROVE Grows
  BY BoundsNat DEF vars, Grows, Resolved, Types, TypeOK
<1>0. mail \in Nat
  BY BoundsNat DEF Types, TypeOK
<1>1. CASE Arrive
  BY <1>0, <1>1 DEF Arrive, Grows, Resolved
<1>2. ASSUME NEW m \in Msgs, OwnerSettles(m) PROVE Grows
  BY <1>0, <1>2 DEF OwnerSettles, Grows, Resolved, Types, TypeOK
<1>3. ASSUME NEW s \in Sweepers, Read(s) \/ PersistFails(s) \/ Finalize(s)
      PROVE  Grows
  <2>1. mail' = mail
    BY <1>3 DEF Read, PersistFails, Finalize
  <2>2. \A m \in Msgs : Resolved(m) => Resolved(m)'
    BY <1>3, FateSteps
  <2> QED
    BY <1>0, <2>1, <2>2 DEF Grows
<1>4. ASSUME mail' = mail, fate' = fate PROVE Grows
  BY <1>0, <1>4 DEF Grows, Resolved
<1> QED
  BY <1>1, <1>2, <1>3, <1>4
     DEF Next, Progress, NewEpoch, Begin, ReadCursor, List, Unreadable, Outage,
         Finish, Abort, Store

LEMMA BoundaryStays ==
  ASSUME Grows, Types, Types', NEW b \in 0 .. MaxMail, SafeBoundary(b)
  PROVE  SafeBoundary(b)'
<1>1. mail \in Nat /\ mail' \in Nat /\ mail <= mail' /\ mail <= MaxMail /\ MaxMail \in Nat
  BY BoundsNat DEF Grows, Types, TypeOK
<1>2. ASSUME NEW m \in 1 .. b PROVE m <= mail' /\ Resolved(m)'
  <2>1. m <= mail /\ Resolved(m)
    BY DEF SafeBoundary
  <2>2. m \in Msgs /\ m <= mail'
    BY <1>1, <2>1 DEF Msgs
  <2> QED
    BY <2>1, <2>2 DEF Grows
<1> QED
  BY <1>2 DEF SafeBoundary

\* A sweep that takes no step loses nothing by those of others.
LEMMA OthersHonest ==
  ASSUME Types, Types', Grows, NEW s \in Sweepers, SweepHonest(s),
         pc'[s] = pc[s], sweep'[s] = sweep[s]
  PROVE  SweepHonest(s)'
<1> SUFFICES ASSUME pc[s] # "idle" PROVE SweepHonest(s)'
  BY DEF SweepHonest
<1>1. sweep[s] \in Sweep
  BY DEF Types, TypeOK
<1>2. /\ sweep[s].handled \subseteq Msgs /\ sweep[s].last \in 0 .. MaxMail
      /\ sweep[s].next \in 0 .. MaxMail /\ sweep[s].window \subseteq Msgs
  BY <1>1 DEF Sweep
<1>3. \A m \in sweep[s].handled : Resolved(m)'
  BY <1>2 DEF SweepHonest, Grows
<1>4. pc[s] \in {"list", "scan", "finalize"} => SafeBoundary(sweep[s].last)'
  BY <1>2, BoundaryStays DEF SweepHonest
<1>5. ASSUME pc[s] \in {"scan", "finalize"}
      PROVE  sweep[s].next <= mail'
  BY <1>2, <1>5, BoundsNat DEF SweepHonest, Grows, Types, TypeOK
<1>6. ASSUME pc[s] \in {"scan", "finalize"}, ~sweep[s].blocked,
             NEW m \in ((1 .. sweep[s].next) \cup sweep[s].window) \ sweep[s].todo
      PROVE  Resolved(m)'
  <2>1. m \in Msgs
    BY <1>2, BoundsNat DEF Msgs
  <2> QED
    BY <1>6, <2>1 DEF SweepHonest, Grows
<1> QED
  BY <1>3, <1>4, <1>5, <1>6 DEF SweepHonest

LEMMA QuarantineKept ==
  ASSUME Types, Grows, QuarantinedResolved, quarantined' = quarantined
  PROVE  QuarantinedResolved'
BY DEF Types, TypeOK, Grows, QuarantinedResolved

LEMMA CursorKept ==
  ASSUME Types, Types', Grows, CursorNeverSkips, cursor' = cursor
  PROVE  CursorNeverSkips'
<1> SUFFICES ASSUME cursor # None PROVE SafeBoundary(cursor.last)'
  BY DEF CursorNeverSkips, SafeBoundary
<1>1. cursor.last \in 0 .. MaxMail /\ SafeBoundary(cursor.last)
  BY DEF Types, TypeOK, Cursor, CursorNeverSkips, SafeBoundary
<1> QED
  BY <1>1, BoundaryStays

-----------------------------------------------------------------------------
(* The invariant, action by action.                                        *)

LEMMA InitInv == Init => IInv
<1> SUFFICES ASSUME Init PROVE IInv
  OBVIOUS
<1>1. Types
  BY InitTypes
<1> QED
  BY <1>1, SyncAssumption
     DEF Init, IInv, QuarantinedResolved, NoiseNeverOpen, CursorNeverSkips, SweepHonest

\* Only sweep s moves.
Alone(s) == \A t \in Sweepers \ {s} : pc'[t] = pc[t] /\ sweep'[t] = sweep[t]

LEMMA StepsAlone ==
  ASSUME Types, NEW s \in Sweepers,
         \/ \E rescan \in BOOLEAN : Begin(s, rescan)
         \/ Progress(s) \/ PersistFails(s) \/ Outage(s) \/ Abort(s)
  PROVE  Alone(s)
<1> USE DEF Types, TypeOK, SweepRows, Alone
<1>1. ASSUME NEW rescan \in BOOLEAN, Begin(s, rescan) PROVE Alone(s)
  BY <1>1 DEF Begin
<1>2. CASE ReadCursor(s)
  BY <1>2 DEF ReadCursor
<1>3. CASE List(s)
  BY <1>3 DEF List
<1>4. CASE Read(s) \/ PersistFails(s)
  BY <1>4 DEF Read, PersistFails, Done
<1>5. CASE Unreadable(s)
  BY <1>5 DEF Unreadable, Done
<1>6. CASE Finalize(s)
  BY <1>6 DEF Finalize, Done
<1>7. CASE Outage(s)
  BY <1>7 DEF Outage
<1>8. CASE Finish(s) \/ Abort(s)
  BY <1>8 DEF Finish, Abort
<1> QED
  BY <1>1, <1>2, <1>3, <1>4, <1>5, <1>6, <1>7, <1>8 DEF Progress

LEMMA BeginHonest ==
  ASSUME IInv, NEW s \in Sweepers, NEW rescan \in BOOLEAN, Begin(s, rescan)
  PROVE  SweepHonest(s)'
<1>1. pc'[s] = "cursor" /\ sweep'[s].handled = Handled(epoch) /\ fate' = fate
  BY DEF IInv, Types, TypeOK, SweepRows, Begin, Store
<1>2. \A m \in Handled(epoch) : Resolved(m)
  BY DEF IInv, QuarantinedResolved, Handled, Resolved
<1> QED
  BY <1>1, <1>2 DEF SweepHonest, Resolved

LEMMA ReadCursorHonest ==
  ASSUME IInv, Types', NEW s \in Sweepers, ReadCursor(s)
  PROVE  CursorNeverSkips' /\ SweepHonest(s)'
<1> DEFINE known == cursor # None /\ cursor.epoch = sweep[s].epoch
           last == IF known /\ ~sweep[s].rescan THEN cursor.last ELSE 0
<1>1. pc[s] = "cursor" /\ pc'[s] = "list" /\ fate' = fate /\ mail' = mail
  BY DEF IInv, Types, TypeOK, ReadCursor
<1>2. sweep'[s].last = last /\ sweep'[s].handled = sweep[s].handled
  BY DEF IInv, Types, TypeOK, SweepRows, ReadCursor, Sweep
<1>3. SafeBoundary(last)
  BY DEF IInv, CursorNeverSkips, SafeBoundary
<1>4. \A m \in 1 .. last : m <= mail' /\ Resolved(m)'
  BY <1>1, <1>3 DEF SafeBoundary, Resolved
<1>5. CursorNeverSkips'
  BY <1>1 DEF IInv, CursorNeverSkips, ReadCursor, Resolved
<1>6. \A m \in sweep[s].handled : Resolved(m)'
  BY <1>1 DEF IInv, SweepHonest, Resolved
<1> HIDE DEF last
<1>7. SafeBoundary(sweep[s].last)'
  BY <1>2, <1>4 DEF SafeBoundary
<1> QED
  BY <1>1, <1>2, <1>5, <1>6, <1>7 DEF SweepHonest

LEMMA ListHonest ==
  ASSUME IInv, NEW s \in Sweepers, List(s)
  PROVE  SweepHonest(s)'
<1> DEFINE r == sweep[s]
           backfill == IF r.bootstrap THEN {} ELSE NextScan(mail, r.last)
           window == IF r.rescan THEN {} ELSE LatestScan(mail)
           end == Max(backfill \cup {r.last})
<1>1. /\ pc[s] = "list" /\ pc'[s] = "scan" /\ fate' = fate /\ mail' = mail
      /\ r \in Sweep /\ mail \in 0 .. MaxMail
  BY DEF IInv, Types, TypeOK, List, Store
<1>2. /\ sweep'[s].last = r.last /\ sweep'[s].handled = r.handled
      /\ sweep'[s].todo = (backfill \cup window) \ r.handled
      /\ sweep'[s].window = window /\ sweep'[s].next = end
  BY <1>1 DEF IInv, Types, SweepRows, List, Sweep
<1>3. r.last \in 0 .. MaxMail /\ SafeBoundary(r.last)
      /\ \A m \in r.handled : Resolved(m)
  BY <1>1 DEF IInv, SweepHonest, Sweep
<1>4. r.last <= mail
  BY <1>1, <1>3, BoundsNat DEF SafeBoundary
<1>5. Max({} \cup {r.last}) = r.last
  BY <1>3, BoundsNat DEF Max
<1>6. end <= mail /\ end \in 0 .. MaxMail
      /\ \A m \in 1 .. end : m <= r.last \/ m \in backfill
  <2>1. CASE r.bootstrap
    <3>1. end = r.last
      BY <1>5, <2>1
    <3> QED
      BY <1>1, <1>3, <1>4, <3>1, BoundsNat
  <2>2. CASE ~r.bootstrap
    <3>1. end = Max(NextScan(mail, r.last) \cup {r.last}) /\ backfill = NextScan(mail, r.last)
      BY <2>2
    <3> HIDE DEF end, backfill
    <3>2. \A m \in 1 .. end : m <= r.last \/ m \in backfill
      BY <1>1, <1>3, <3>1, BatchEnd
    <3>3. end <= mail /\ end \in 0 .. MaxMail
      BY <1>1, <1>3, <1>4, <3>1, BatchEnd
    <3> QED
      BY <3>2, <3>3
  <2> QED
    BY <2>1, <2>2
<1>7. \A m \in ((1 .. end) \cup window) \ ((backfill \cup window) \ r.handled) :
        Resolved(m)
  <2> SUFFICES ASSUME NEW m \in (1 .. end) \cup window,
                      m \notin (backfill \cup window) \ r.handled
               PROVE  Resolved(m)
    OBVIOUS
  <2>1. CASE m \in r.handled
    BY <1>3, <2>1
  <2>2. CASE m \notin r.handled
    <3>1. m \in 1 .. end /\ m <= r.last
      BY <1>6, <2>2
    <3>2. m \in 1 .. r.last
      BY <1>3, <1>6, <3>1, BoundsNat
    <3> QED
      BY <1>3, <3>2 DEF SafeBoundary
  <2> QED
    BY <2>1, <2>2
<1> HIDE DEF r, backfill, window, end
<1>8. SafeBoundary(sweep[s].last)'
  <2>1. \A m \in 1 .. r.last : m <= mail' /\ Resolved(m)'
    BY <1>1, <1>3 DEF SafeBoundary, Resolved
  <2> QED
    BY <1>2, <2>1 DEF SafeBoundary
<1>9. \A m \in ((1 .. sweep'[s].next) \cup sweep'[s].window) \ sweep'[s].todo : Resolved(m)'
  BY <1>1, <1>2, <1>7 DEF Resolved
<1>10. \A m \in sweep'[s].handled : Resolved(m)'
  BY <1>1, <1>2, <1>3 DEF Resolved
<1> QED
  BY <1>1, <1>2, <1>6, <1>8, <1>9, <1>10 DEF SweepHonest

\* Taking a message off the list is honest when it is resolved or blocks.
LEMMA TakenHonest ==
  ASSUME IInv, Types', Grows, NEW s \in Sweepers,
         Scanning(s) \/ pc[s] = "finalize", NEW blocks \in BOOLEAN,
         Done(s, blocks), pc'[s] = "scan",
         NEW u \in Msgs, u = Next1(s), blocks \/ Resolved(u)'
  PROVE  SweepHonest(s)'
<1>0. PICK r : r = sweep[s]
  OBVIOUS
<1>1. r \in Sweep /\ u \in r.todo /\ u \in Msgs /\ pc[s] \in {"scan", "finalize"}
  BY <1>0, AtMessage DEF IInv, Scanning
<1>2. /\ sweep'[s].last = r.last /\ sweep'[s].handled = r.handled
      /\ sweep'[s].todo = r.todo \ {u} /\ sweep'[s].window = r.window
      /\ sweep'[s].next = r.next /\ sweep'[s].blocked = (r.blocked \/ blocks)
  BY <1>0, <1>1 DEF IInv, Types, SweepRows, Done, Sweep
<1>3. /\ r.last \in 0 .. MaxMail /\ r.next \in 0 .. MaxMail
      /\ r.handled \subseteq Msgs /\ r.window \subseteq Msgs
  BY <1>1 DEF Sweep
<1>4. /\ \A m \in r.handled : Resolved(m)
      /\ SafeBoundary(r.last) /\ r.next <= mail
      /\ ~r.blocked => \A m \in ((1 .. r.next) \cup r.window) \ r.todo : Resolved(m)
  BY <1>0, <1>1 DEF IInv, SweepHonest
<1>5. \A m \in r.handled : Resolved(m)'
  BY <1>3, <1>4 DEF Grows
<1>6. SafeBoundary(r.last)'
  BY <1>3, <1>4, BoundaryStays DEF IInv
<1>7. r.next <= mail'
  BY <1>3, <1>4, BoundsNat DEF Grows, IInv, Types, TypeOK
<1>8. ASSUME ~r.blocked, ~blocks, NEW m \in ((1 .. r.next) \cup r.window) \ (r.todo \ {u})
      PROVE  Resolved(m)'
  <2>1. m \in Msgs
    BY <1>3, BoundsNat DEF Msgs
  <2>2. CASE m = u
    BY <1>8, <2>2
  <2>3. CASE m # u
    BY <1>4, <1>8, <2>1, <2>3 DEF Grows
  <2> QED
    BY <2>2, <2>3
<1>9. \A m \in 1 .. r.last : m <= mail' /\ Resolved(m)'
  BY <1>6 DEF SafeBoundary
<1>10. \A m \in 1 .. sweep'[s].last : m <= mail' /\ Resolved(m)'
  BY <1>2, <1>9
<1>11. SafeBoundary(sweep[s].last)'
  BY <1>10 DEF SafeBoundary
<1> QED
  BY <1>2, <1>5, <1>7, <1>8, <1>11 DEF SweepHonest

LEMMA ReadHonest ==
  ASSUME IInv, Types', Grows, NEW s \in Sweepers, Read(s)
  PROVE  SweepHonest(s)'
<1>1. Scanning(s) /\ pc'[s] = "scan" /\ Done(s, FALSE) /\ sweep[s] \in Sweep
  BY AtMessage DEF IInv, Read, Scanning
<1>2. PICK u \in Msgs : u = Next1(s)
  BY <1>1, AtMessage DEF IInv
<1>3. fate \in [Msgs -> Fates]
  BY DEF IInv, Types, TypeOK
<1>4. Resolved(u)'
  <2>1. CASE u <= sweep[s].last
    <3>1. SafeBoundary(sweep[s].last)
      BY <1>1 DEF IInv, SweepHonest, Scanning
    <3>2. u \in 1 .. sweep[s].last
      BY <1>1, <2>1, BoundsNat DEF Sweep, Msgs
    <3> QED
      BY <3>1, <3>2 DEF SafeBoundary, Grows
  <2>2. CASE u > sweep[s].last
    <3>1. \/ /\ u \in Noise
             /\ fate'[u] = IF fate[u] = "new" THEN "ignored" ELSE fate[u]
          \/ \E result \in {"review", "settled"} :
               fate'[u] = IF fate[u] = "settled" THEN fate[u] ELSE result
      BY <1>1, <1>2, <1>3, <2>2, BoundsNat DEF Read, Sweep, Msgs
    <3> QED
      BY <1>3, <3>1 DEF Resolved, Fates, IInv, NoiseNeverOpen
  <2> QED
    BY <1>1, <2>1, <2>2, BoundsNat DEF Sweep, Msgs
<1> QED
  BY <1>1, <1>2, <1>4, TakenHonest

LEMMA PersistFailsHonest ==
  ASSUME IInv, Types', Grows, NEW s \in Sweepers, PersistFails(s)
  PROVE  SweepHonest(s)'
<1>1. Scanning(s) /\ pc'[s] = "scan" /\ Done(s, TRUE)
  BY DEF PersistFails, Scanning
<1>2. PICK u \in Msgs : u = Next1(s)
  BY <1>1, AtMessage DEF IInv
<1> QED
  BY <1>1, <1>2, TakenHonest

LEMMA UnreadableHonest ==
  ASSUME IInv, Types', Grows, NEW s \in Sweepers, Unreadable(s)
  PROVE  SweepHonest(s)'
<1>1. Scanning(s) /\ pc[s] = "scan" /\ fate' = fate /\ mail' = mail
  BY DEF Unreadable, Scanning
<1>2. PICK u \in Msgs : u = Next1(s)
  BY <1>1, AtMessage DEF IInv
<1>3. CASE <<sweep[s].epoch, u>> \in quarantined /\ Done(s, FALSE) /\ UNCHANGED pc
  <2>1. Resolved(u)'
    BY <1>2, <1>3 DEF IInv, QuarantinedResolved, Grows
  <2> QED
    BY <1>1, <1>2, <1>3, <2>1, TakenHonest
<1>4. CASE Done(s, TRUE) /\ UNCHANGED pc
  BY <1>1, <1>2, <1>4, TakenHonest
<1>5. CASE pc' = [pc EXCEPT ![s] = "finalize"] /\ UNCHANGED sweep
  <2>1. pc'[s] = "finalize" /\ sweep' = sweep
    BY <1>5 DEF IInv, Types, TypeOK
  <2> QED
    BY <1>1, <2>1 DEF IInv, SweepHonest, SafeBoundary, Resolved
<1> QED
  BY <1>2, <1>3, <1>4, <1>5 DEF Unreadable

LEMMA FinalizeHonest ==
  ASSUME IInv, Types', Grows, NEW s \in Sweepers, Finalize(s)
  PROVE  QuarantinedResolved' /\ SweepHonest(s)'
<1>1. pc[s] = "finalize" /\ pc'[s] = "scan"
  BY DEF Finalize, IInv, Types, TypeOK
<1>2. PICK u \in Msgs : u = Next1(s)
  BY <1>1, AtMessage DEF IInv
<1>3. CASE /\ quarantined' = quarantined \cup {<<sweep[s].epoch, u>>}
           /\ fate' = [fate EXCEPT ![u] = IF @ = "settled" THEN @ ELSE "review"]
           /\ Done(s, FALSE)
  <2>1. Resolved(u)'
    BY <1>2, <1>3 DEF IInv, Types, TypeOK, Resolved
  <2>2. \A k \in quarantined' : Resolved(k[2])'
    BY <1>3, <2>1 DEF IInv, Types, TypeOK, QuarantinedResolved, Grows
  <2> QED
    BY <1>1, <1>2, <1>3, <2>1, <2>2, TakenHonest DEF QuarantinedResolved
<1>4. CASE quarantined' = quarantined /\ Done(s, TRUE)
  BY <1>1, <1>2, <1>4, QuarantineKept, TakenHonest DEF IInv
<1> QED
  BY <1>2, <1>3, <1>4 DEF Finalize

LEMMA OutageHonest ==
  ASSUME IInv, Types', Grows, NEW s \in Sweepers, Outage(s)
  PROVE  SweepHonest(s)'
<1>1. PICK lost \in LostToRetries(s) :
        sweep' = [sweep EXCEPT ![s].todo = @ \ lost, ![s].blocked = TRUE]
  BY DEF Outage
<1>2. /\ pc[s] = "scan" /\ sweep[s] \in Sweep
      /\ pc' = pc /\ fate' = fate /\ mail' = mail
  BY DEF IInv, Types, TypeOK, Outage, Scanning, Store
<1>3. /\ sweep'[s].last = sweep[s].last /\ sweep'[s].handled = sweep[s].handled
      /\ sweep'[s].next = sweep[s].next /\ sweep'[s].blocked = TRUE
  BY <1>1, <1>2 DEF IInv, Types, SweepRows, Sweep
<1> QED
  BY <1>2, <1>3 DEF IInv, SweepHonest, SafeBoundary, Resolved

\* The boundary a sweep writes lies below everything it found resolved, or is
\* the one another sweep has written.
LEMMA FinishHonest ==
  ASSUME IInv, Types', Grows, NEW s \in Sweepers, Finish(s)
  PROVE  CursorNeverSkips' /\ SweepHonest(s)'
<1>1. /\ pc[s] = "scan" /\ pc'[s] = "idle" /\ fate' = fate /\ mail' = mail
      /\ sweep[s].todo = {} /\ sweep[s] \in Sweep
  BY DEF IInv, Types, TypeOK, Finish
<1>2. CASE sweep[s].blocked
  BY <1>1, <1>2, CursorKept DEF IInv, Finish, SweepHonest
<1>3. CASE ~sweep[s].blocked
  <2> DEFINE new == IF sweep[s].bootstrap THEN 0 ELSE sweep[s].next
  <2>1. cursor' = Upserted(sweep[s].epoch, new) /\ new \in Nat
    BY <1>1, <1>3, BoundsNat DEF Finish, Sweep
  <2>2. SafeBoundary(new)
    BY <1>1, <1>3, BoundsNat DEF IInv, SweepHonest, SafeBoundary, Sweep, Types, TypeOK
  <2>3. cursor # None => cursor.last \in Nat /\ SafeBoundary(cursor.last)
    BY BoundsNat DEF IInv, Types, TypeOK, Cursor, CursorNeverSkips, SafeBoundary
  <2> HIDE DEF new
  <2>4. \E b \in Nat : cursor'.last = b /\ SafeBoundary(b)
    BY <2>1, <2>2, <2>3, MaxOfTwo DEF Upserted
  <2> QED
    BY <1>1, <2>4 DEF CursorNeverSkips, SafeBoundary, SweepHonest, Resolved
<1> QED
  BY <1>2, <1>3

LEMMA NoiseKept == ASSUME IInv, [Next]_vars PROVE NoiseNeverOpen'
<1> USE DEF IInv, NoiseNeverOpen, Types, TypeOK
<1>1. ASSUME NEW s \in Sweepers, Read(s) \/ PersistFails(s) PROVE NoiseNeverOpen'
  BY <1>1, SyncAssumption DEF Read, PersistFails
<1>2. ASSUME NEW s \in Sweepers, Finalize(s) PROVE NoiseNeverOpen'
  BY <1>2, SyncAssumption DEF Finalize
<1>3. ASSUME NEW m \in Msgs, OwnerSettles(m) PROVE NoiseNeverOpen'
  BY <1>3, SyncAssumption DEF OwnerSettles
<1>4. CASE UNCHANGED fate
  BY <1>4
<1> QED
  BY <1>1, <1>2, <1>3, <1>4
     DEF Next, Progress, vars, Arrive, NewEpoch, Begin, ReadCursor, List,
         Unreadable, Outage, Finish, Abort, Store

LEMMA NextInv == ASSUME IInv, [Next]_vars PROVE IInv'
<1>1. Types' /\ Grows /\ NoiseNeverOpen'
  BY NextTypes, ResolvedStays, NoiseKept DEF IInv
<1>2. ASSUME UNCHANGED <<pc, sweep, quarantined, cursor>> PROVE IInv'
  BY <1>1, <1>2, OthersHonest, QuarantineKept, CursorKept DEF IInv
<1>3. CASE UNCHANGED vars
  BY <1>2, <1>3 DEF vars
<1>4. CASE Arrive \/ NewEpoch \/ \E m \in Msgs : OwnerSettles(m)
  BY <1>2, <1>4 DEF Arrive, NewEpoch, OwnerSettles
<1>5. ASSUME NEW s \in Sweepers, Alone(s), SweepHonest(s)',
             QuarantinedResolved', CursorNeverSkips'
      PROVE  IInv'
  BY <1>1, <1>5, OthersHonest DEF IInv, Alone
<1>6. ASSUME NEW s \in Sweepers,
             \/ \E rescan \in BOOLEAN : Begin(s, rescan)
             \/ Progress(s) \/ PersistFails(s) \/ Outage(s) \/ Abort(s)
      PROVE  IInv'
  <2> USE DEF IInv
  <2>1. Alone(s)
    BY <1>6, StepsAlone
  <2>2. ASSUME NEW rescan \in BOOLEAN, Begin(s, rescan) PROVE IInv'
    BY <1>1, <1>5, <2>1, <2>2, BeginHonest, QuarantineKept, CursorKept DEF Begin, Store
  <2>3. CASE ReadCursor(s)
    BY <1>1, <1>5, <2>1, <2>3, ReadCursorHonest, QuarantineKept DEF ReadCursor
  <2>4. CASE List(s)
    BY <1>1, <1>5, <2>1, <2>4, ListHonest, QuarantineKept, CursorKept DEF List, Store
  <2>5. CASE Read(s)
    BY <1>1, <1>5, <2>1, <2>5, ReadHonest, QuarantineKept, CursorKept DEF Read
  <2>6. CASE PersistFails(s)
    BY <1>1, <1>5, <2>1, <2>6, PersistFailsHonest, QuarantineKept, CursorKept DEF PersistFails
  <2>7. CASE Unreadable(s)
    BY <1>1, <1>5, <2>1, <2>7, UnreadableHonest, QuarantineKept, CursorKept DEF Unreadable
  <2>8. CASE Finalize(s)
    BY <1>1, <1>5, <2>1, <2>8, FinalizeHonest, CursorKept DEF Finalize
  <2>9. CASE Outage(s)
    BY <1>1, <1>5, <2>1, <2>9, OutageHonest, QuarantineKept, CursorKept DEF Outage, Store
  <2>10. CASE Finish(s)
    BY <1>1, <1>5, <2>1, <2>10, FinishHonest, QuarantineKept DEF Finish
  <2>11. CASE Abort(s)
    <3>1. SweepHonest(s)'
      BY <2>11 DEF Abort, SweepHonest, Types, TypeOK
    <3> QED
      BY <1>1, <1>5, <2>1, <2>11, <3>1, QuarantineKept, CursorKept DEF Abort, Store
  <2> HIDE DEF IInv
  <2> QED
    BY <1>6, <2>2, <2>3, <2>4, <2>5, <2>6, <2>7, <2>8, <2>9, <2>10, <2>11 DEF Progress
<1> QED
  BY <1>3, <1>4, <1>6 DEF Next

LEMMA Invariant == Spec => []IInv
BY InitInv, NextInv, PTL DEF Spec

\* The state of the mailbox, the cursor and every sweep is always well formed.
THEOREM TypeCorrect == Spec => []TypeOK
<1>1. IInv => TypeOK
  BY DEF IInv, Types
<1> QED
  BY <1>1, Invariant, PTL

\* Whatever failed reads, failed writes, restarts, rescans, renumberings and
\* overlapping sweeps do, the durable cursor lies behind no unresolved message,
\* and no sweep takes for done what is not (sync_mailbox).
THEOREM CursorIsHonest == Spec => []CursorHonest
<1>1. IInv => CursorHonest
  <2> SUFFICES ASSUME IInv PROVE SweepKeepsPromise
    BY DEF IInv, CursorHonest
  <2> QED
    BY DEF IInv, SweepKeepsPromise, SweepHonest
<1> QED
  BY <1>1, Invariant, PTL

\* A sweep that ends without a fault has run to its end.
LEMMA EndsInFinish ==
  ASSUME Types, Next, NEW s \in Sweepers,
         pc[s] = "scan", pc'[s] = "idle", faults' = faults
  PROVE  Finish(s)
<1> USE DEF Types, TypeOK
<1>1. ~(Arrive \/ NewEpoch \/ \E m \in Msgs : OwnerSettles(m))
  BY DEF Arrive, NewEpoch, OwnerSettles
<1>2. PICK t \in Sweepers :
        \/ \E rescan \in BOOLEAN : Begin(t, rescan)
        \/ Progress(t) \/ PersistFails(t) \/ Outage(t) \/ Abort(t)
  BY <1>1 DEF Next
<1>3. t = s
  BY <1>2, StepsAlone DEF Alone
<1>4. ~Abort(s)
  BY BoundsNat DEF Abort, Fault
<1>5. ~Begin(s, TRUE) /\ ~Begin(s, FALSE) /\ ~ReadCursor(s) /\ ~List(s)
  BY DEF Begin, ReadCursor, List
<1>6. ~Read(s) /\ ~PersistFails(s) /\ ~Unreadable(s) /\ ~Finalize(s) /\ ~Outage(s)
  BY DEF Read, PersistFails, Unreadable, Finalize, Outage
<1> QED
  BY <1>2, <1>3, <1>4, <1>5, <1>6 DEF Progress

\* Only a rescan sets the boundary back, and only at its start.
LEMMA CursorSteps ==
  ASSUME Types, Next, cursor # None, cursor' # None,
         cursor.epoch = cursor'.epoch, cursor'.last < cursor.last
  PROVE  \E s \in Sweepers : pc[s] = "cursor" /\ sweep[s].rescan
<1>1. cursor.last \in Nat
  BY BoundsNat DEF Types, TypeOK, Cursor
<1>2. PICK s \in Sweepers : ReadCursor(s) \/ Finish(s)
  <2>1. cursor' # cursor
    BY <1>1
  <2>2. ~(Arrive \/ NewEpoch \/ \E m \in Msgs : OwnerSettles(m))
    BY <2>1 DEF Arrive, NewEpoch, OwnerSettles
  <2>3. ASSUME NEW s \in Sweepers
        PROVE  /\ \A rescan \in BOOLEAN : ~Begin(s, rescan)
               /\ ~List(s) /\ ~Read(s) /\ ~PersistFails(s) /\ ~Unreadable(s)
               /\ ~Finalize(s) /\ ~Outage(s) /\ ~Abort(s)
    BY <2>1 DEF Begin, List, Read, PersistFails, Unreadable, Finalize, Outage,
       Abort, Store
  <2> QED
    BY <2>2, <2>3 DEF Next, Progress
<1>3. CASE ReadCursor(s)
  BY <1>1, <1>3 DEF ReadCursor
<1>4. CASE Finish(s)
  <2> DEFINE new == IF sweep[s].bootstrap THEN 0 ELSE sweep[s].next
  <2>1. new \in Nat /\ sweep[s].epoch \in Epochs
    BY <1>4, BoundsNat DEF Finish, Types, TypeOK, Sweep
  <2>2. cursor' = cursor \/ cursor' = Upserted(sweep[s].epoch, new)
    BY <1>4 DEF Finish
  <2> HIDE DEF new
  <2> QED
    BY <1>1, <2>1, <2>2, MaxOfTwo DEF Upserted
<1> QED
  BY <1>2, <1>3, <1>4

\* A sweep that ends unblocked has resolved the newest mail it listed, and the
\* boundary of an epoch moves back only for a full rescan, whatever other sweeps
\* write meanwhile (sync_mailbox, upsert_travel_cursor).
THEOREM CursorAdvancesHolds == Spec => CursorAdvances
<1> DEFINE Newest == \A s \in Sweepers :
             (pc[s] = "scan" /\ pc'[s] = "idle" /\ faults' = faults
                /\ ~sweep[s].blocked) =>
               \A m \in sweep[s].window : Resolved(m)
           Forward ==
             (cursor # None /\ cursor' # None /\ cursor.epoch = cursor'.epoch
                /\ cursor'.last < cursor.last) =>
               \E s \in Sweepers : pc[s] = "cursor" /\ sweep[s].rescan
<1>1. IInv /\ [Next]_vars => [Newest]_vars
  <2> SUFFICES ASSUME IInv, Next PROVE Newest
    OBVIOUS
  <2> SUFFICES ASSUME NEW s \in Sweepers,
                      pc[s] = "scan", pc'[s] = "idle", faults' = faults,
                      ~sweep[s].blocked
               PROVE  \A m \in sweep[s].window : Resolved(m)
    OBVIOUS
  <2>1. sweep[s].todo = {}
    BY EndsInFinish DEF IInv, Finish
  <2> QED
    BY <2>1 DEF IInv, SweepHonest
<1>2. IInv /\ [Next]_vars => [Forward]_vars
  BY CursorSteps DEF IInv
<1>3. Spec => [][Newest]_vars /\ [][Forward]_vars
  BY <1>1, <1>2, Invariant, PTL DEF Spec
<1> QED
  BY <1>3 DEF CursorAdvances, NewestResolved, CursorMovesForward

-----------------------------------------------------------------------------
(* What a quarantine costs.                                                *)
(*                                                                         *)
(* A failure row may be cleared and counted again while a sweep waits to   *)
(* quarantine the message, so the count at the time of the quarantine says *)
(* nothing.  What has been paid is the part of the budget that the row     *)
(* still shows, all of it for a message that is, or is about to be,        *)
(* quarantined; each failed read pays at most one more.                    *)

\* Messages some sweep is about to quarantine.
Pending ==
  {<<sweep[s].epoch, Next1(s)>> : s \in {t \in Sweepers : pc[t] = "finalize"}}

Paid ==
  {c \in (Epochs \X Msgs) \X (1 .. MaxAttempts) :
     /\ c[1][2] \notin Poison
     /\ c[1] \in quarantined \cup Pending \/ c[2] <= attempts[c[1]]}

PaidByFaults == Cardinality(Paid) <= faults

LEMMA PaidFinite == IsFiniteSet(Paid)
<1>1. IsFiniteSet(Epochs) /\ IsFiniteSet(Msgs) /\ IsFiniteSet(1 .. MaxAttempts)
  BY BoundsNat, FS_Interval DEF Epochs, Msgs
<1>2. IsFiniteSet((Epochs \X Msgs) \X (1 .. MaxAttempts))
  BY <1>1, FS_Product
<1> QED
  BY <1>2, FS_Subset DEF Paid

\* Steps that charge nothing.
LEMMA NothingPaid ==
  ASSUME Types, PaidByFaults, Paid' \subseteq Paid, faults' \in Nat, faults <= faults'
  PROVE  PaidByFaults'
<1>1. Cardinality(Paid') \in Nat /\ Cardinality(Paid) \in Nat
      /\ Cardinality(Paid') <= Cardinality(Paid)
  BY PaidFinite, FS_Subset, FS_CardinalityType
<1>2. faults \in Nat
  BY BoundsNat DEF Types, TypeOK
<1> QED
  BY <1>1, <1>2 DEF PaidByFaults

\* A step that charges one attempt and counts one failure.
LEMMA OnePaid ==
  ASSUME Types, PaidByFaults, NEW c, Paid' \subseteq Paid \cup {c}, faults' = faults + 1
  PROVE  PaidByFaults'
<1>1. IsFiniteSet(Paid \cup {c})
      /\ Cardinality(Paid \cup {c}) = (IF c \in Paid THEN Cardinality(Paid)
                                       ELSE Cardinality(Paid) + 1)
  BY PaidFinite, FS_AddElement
<1>2. Cardinality(Paid') \in Nat /\ Cardinality(Paid) \in Nat
      /\ Cardinality(Paid') <= Cardinality(Paid \cup {c})
  BY <1>1, PaidFinite, FS_Subset, FS_CardinalityType
<1>3. faults \in Nat
  BY BoundsNat DEF Types, TypeOK
<1> QED
  BY <1>1, <1>2, <1>3 DEF PaidByFaults

\* A sweep that does not go on to quarantine adds nothing to what is pending.
LEMMA PendingShrinks ==
  ASSUME NEW s \in Sweepers, Alone(s), pc'[s] # "finalize"
  PROVE  Pending' \subseteq Pending
BY DEF Alone, Pending, Next1

\* Counts only fall unless a read failed.
LEMMA AttemptsFall ==
  ASSUME Types, Next, NEW k \in Epochs \X Msgs,
         \A s \in Sweepers : ~Unreadable(s)
  PROVE  attempts'[k] \in Nat /\ attempts'[k] <= attempts[k]
<1>1. attempts \in [Epochs \X Msgs -> Nat]
  BY DEF Types, TypeOK
<1>2. \A key : Cleared(key)[k] \in Nat /\ Cleared(key)[k] <= attempts[k]
  BY <1>1 DEF Cleared
<1>3. attempts' = attempts \/ \E key : attempts' = Cleared(key)
  <2>1. ASSUME NEW s \in Sweepers, Read(s)
        PROVE  attempts' = attempts \/ \E key : attempts' = Cleared(key)
    BY <2>1 DEF Read
  <2>2. ASSUME NEW s \in Sweepers, PersistFails(s)
        PROVE  attempts' = attempts \/ \E key : attempts' = Cleared(key)
    BY <2>2 DEF PersistFails
  <2> QED
    BY <2>1, <2>2 DEF Next, Progress, Arrive, NewEpoch, OwnerSettles, Begin,
       ReadCursor, List, Finalize, Outage, Finish, Abort, Store
<1> QED
  BY <1>1, <1>2, <1>3

LEMMA UnreadablePays ==
  ASSUME Types, PaidByFaults, NEW s \in Sweepers, Unreadable(s)
  PROVE  PaidByFaults'
<1>1. PICK key \in Epochs \X Msgs : key = <<sweep[s].epoch, Next1(s)>>
  BY AtMessage DEF Unreadable
<1>2. /\ attempts \in [Epochs \X Msgs -> Nat] /\ quarantined' = quarantined
      /\ attempts' = attempts \/ attempts' = [attempts EXCEPT ![key] = @ + 1]
      /\ faults \in Nat /\ MaxAttempts \in Nat
      /\ pc[s] = "scan" /\ Alone(s)
  <2>1. Alone(s)
    BY StepsAlone DEF Progress
  <2>2. attempts' = attempts \/ attempts' = [attempts EXCEPT ![key] = @ + 1]
    BY <1>1 DEF Unreadable
  <2> QED
    BY <2>1, <2>2, BoundsNat DEF Types, TypeOK, Unreadable, Scanning
<1>3. Pending' \subseteq Pending
      \/ /\ Pending' \subseteq Pending \cup {key} /\ attempts'[key] >= MaxAttempts
         /\ attempts' = [attempts EXCEPT ![key] = @ + 1]
  <2>1. CASE pc' = [pc EXCEPT ![s] = "finalize"] /\ UNCHANGED sweep
    <3>1. Pending' \subseteq Pending \cup {key}
      BY <1>1, <1>2, <2>1 DEF Types, TypeOK, Pending, Next1, Alone
    <3>2. attempts' = [attempts EXCEPT ![key] = @ + 1] /\ ~(attempts'[key] < MaxAttempts)
      BY <1>1, <1>2, <2>1 DEF Unreadable, Types, TypeOK
    <3> QED
      BY <1>2, <3>1, <3>2
  <2>2. CASE UNCHANGED pc
    BY <1>2, <2>2, PendingShrinks
  <2> QED
    BY <2>1, <2>2 DEF Unreadable
<1>4. ASSUME key[2] \notin Poison PROVE PaidByFaults'
  <2> DEFINE c == <<key, attempts[key] + 1>>
  <2>1. faults' = faults + 1
    BY <1>1, <1>4 DEF Unreadable, Fault
  <2>2. PICK d : d = c
    OBVIOUS
  <2>3. Paid' \subseteq Paid \cup {d}
    BY <1>2, <1>3, <2>2 DEF Paid
  <2> QED
    BY <2>1, <2>3, OnePaid
<1>5. ASSUME key[2] \in Poison PROVE PaidByFaults'
  <2>1. faults' = faults
    BY <1>1, <1>5 DEF Unreadable
  <2>2. Paid' \subseteq Paid
    BY <1>2, <1>3, <1>5 DEF Paid
  <2> QED
    BY <1>2, <2>1, <2>2, NothingPaid
<1> QED
  BY <1>4, <1>5

LEMMA NextPaid == ASSUME Types, Types', PaidByFaults, [Next]_vars PROVE PaidByFaults'
<1>1. faults \in Nat /\ faults' \in Nat /\ attempts \in [Epochs \X Msgs -> Nat]
  BY BoundsNat DEF Types, TypeOK
<1>2. CASE UNCHANGED vars
  BY <1>1, <1>2, NothingPaid DEF vars, Paid, Pending, Next1
<1>3. CASE \E s \in Sweepers : Unreadable(s)
  BY <1>3, UnreadablePays
<1>4. CASE Next /\ \A s \in Sweepers : ~Unreadable(s)
  <2>1. \A k \in Epochs \X Msgs : attempts'[k] \in Nat /\ attempts'[k] <= attempts[k]
    BY <1>4, AttemptsFall
  <2>2. quarantined' \cup Pending' \subseteq quarantined \cup Pending
        /\ faults <= faults'
    <3>1. CASE Arrive \/ NewEpoch \/ \E m \in Msgs : OwnerSettles(m)
      BY <1>1, <3>1 DEF Arrive, NewEpoch, OwnerSettles, Pending, Next1
    <3>2. ASSUME NEW s \in Sweepers,
                 \/ \E rescan \in BOOLEAN : Begin(s, rescan)
                 \/ Progress(s) \/ PersistFails(s) \/ Outage(s) \/ Abort(s)
          PROVE  quarantined' \cup Pending' \subseteq quarantined \cup Pending
                 /\ faults <= faults'
      <4>1. pc'[s] # "finalize"
        BY <1>4, <3>2 DEF Types, TypeOK, Progress, Begin, ReadCursor, List, Read,
           PersistFails, Finalize, Finish, Outage, Abort, Scanning
      <4>2. Pending' \subseteq Pending
        BY <3>2, <4>1, StepsAlone, PendingShrinks
      <4>3. faults <= faults'
        <5>1. faults' = faults \/ faults' = faults + 1
          <6>1. ASSUME Finalize(s) PROVE faults' = faults \/ faults' = faults + 1
            BY <6>1 DEF Finalize, Fault
          <6> QED
            BY <1>4, <3>2, <6>1 DEF Progress, Begin, ReadCursor, List, Read,
               PersistFails, Finish, Outage, Abort, Fault
        <5> QED
          BY <1>1, <5>1
      <4>4. quarantined' \subseteq quarantined \cup Pending
        <5>1. CASE Finalize(s)
          BY <5>1 DEF Finalize, Pending
        <5>2. CASE ~Finalize(s)
          BY <1>4, <3>2, <5>2 DEF Progress, Begin, ReadCursor, List, Read,
             PersistFails, Finish, Outage, Abort, Store
        <5> QED
          BY <5>1, <5>2
      <4> QED
        BY <4>2, <4>3, <4>4
    <3> QED
      BY <1>4, <3>1, <3>2 DEF Next
  <2>3. Paid' \subseteq Paid
    BY <1>1, <2>1, <2>2 DEF Paid
  <2> QED
    BY <1>1, <2>2, <2>3, NothingPaid
<1> QED
  BY <1>2, <1>3, <1>4

\* Every quarantine of a readable message has used up a whole budget of failed
\* reads of that message, however the sweeps that count and clear its failures
\* overlap (record, clear_open and finalize_travel_ingest_failure).
THEOREM QuarantineIsEarned == Spec => []QuarantineEarned
<1> DEFINE Marked == {k \in quarantined : k[2] \notin Poison}
<1>1. Init => PaidByFaults
  <2> SUFFICES ASSUME Init PROVE PaidByFaults
    OBVIOUS
  <2>1. Paid = {}
    BY BoundsNat DEF Init, Paid, Pending
  <2> QED
    BY <2>1, FS_EmptySet DEF Init, PaidByFaults
<1>2. IInv /\ PaidByFaults => QuarantineEarned
  <2> SUFFICES ASSUME IInv, PaidByFaults PROVE QuarantineEarned
    OBVIOUS
  <2>1. Marked \X (1 .. MaxAttempts) \subseteq Paid
    BY DEF Paid, IInv, Types, TypeOK
  <2>2. IsFiniteSet(Epochs \X Msgs)
    <3>1. IsFiniteSet(Epochs) /\ IsFiniteSet(Msgs)
      BY BoundsNat, FS_Interval DEF Epochs, Msgs
    <3> QED
      BY <3>1, FS_Product
  <2>3. IsFiniteSet(Marked)
    BY <2>2, FS_Subset DEF IInv, Types, TypeOK
  <2>4. IsFiniteSet(1 .. MaxAttempts) /\ Cardinality(1 .. MaxAttempts) = MaxAttempts
    BY BoundsNat, FS_Interval
  <2>5. Cardinality(Marked \X (1 .. MaxAttempts)) = Cardinality(Marked) * MaxAttempts
    BY <2>3, <2>4, FS_Product
  <2>6. Cardinality(Marked \X (1 .. MaxAttempts)) <= Cardinality(Paid)
    BY <2>1, PaidFinite, FS_Subset
  <2>7. Cardinality(Marked) \in Nat /\ Cardinality(Paid) \in Nat
        /\ MaxAttempts \in Nat /\ faults \in Nat
    BY <2>3, PaidFinite, FS_CardinalityType, BoundsNat DEF IInv, Types, TypeOK
  <2>8. Cardinality(Marked) * MaxAttempts <= faults
    BY <2>5, <2>6, <2>7 DEF PaidByFaults
  <2> QED
    BY <2>7, <2>8 DEF QuarantineEarned
<1>3. IInv /\ IInv' /\ PaidByFaults /\ [Next]_vars => PaidByFaults'
  BY NextPaid DEF IInv
<1> QED
  BY <1>1, <1>2, <1>3, Invariant, PTL DEF Spec
=============================================================================
