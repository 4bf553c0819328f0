--------------------------- MODULE CompanionProofs ---------------------------
(***************************************************************************)
(* Proofs about the Mac companion, for any items, servers, triggers and    *)
(* bounds: what each side wrote is not lost to the other, and an item is   *)
(* mirrored once, of the paired server only.                               *)
(***************************************************************************)
EXTENDS CompanionSync, FiniteSetTheorems, NaturalsInduction, TLAPS

-----------------------------------------------------------------------------
(* The inductive invariant.                                                *)

Run == [connection : Connection, rows : [Items -> Row \cup {Nothing}], todo : SUBSET Items,
        conflicts : SUBSET Items, pending : Write \cup Request \cup {Nothing}]

Running(t) == pc[t] # "idle"
Recording(t) == pc[t] = "record"

Shape ==
  /\ row \in [Items -> Row] /\ changes \in Nat
  /\ native \in [Natives -> Native \cup {Nothing, Deleted}]
  /\ mapping \in [Items -> Mapping \cup {Nothing}]
  /\ connection \in Connection /\ proposed \in Connection \cup {Nothing}
  /\ pc \in [Triggers -> {"idle", "fetch", "items", "record", "put"}]
  /\ DOMAIN sync = Triggers /\ \A t \in Triggers : Running(t) => sync[t] \in Run
  /\ \A t \in Triggers : /\ Recording(t) => sync[t].pending \in Write
                         /\ pc[t] = "put" => sync[t].pending \in Request
  /\ written \in [Natives -> SUBSET Contents] /\ heard \in [Natives -> SUBSET BOOLEAN]
  /\ review \subseteq Items
  /\ edits \in 0..MaxEdits /\ faults \in 0..MaxFaults /\ settings \in 0..MaxSettings

\* One sync runs at a time, and none while settings are saved.
OneSync ==
  /\ \A t, u \in Triggers : Running(t) /\ Running(u) => t = u
  /\ proposed # Nothing => \A t \in Triggers : pc[t] = "idle"

\* Only a task is completed, only a booking cancelled.
OfKind(i, completed, cancelled) ==
  /\ KindOf[i] = "event" => completed = FALSE
  /\ KindOf[i] = "reminder" => cancelled = FALSE

\* The revisions of the server tell the states of a row apart.
RowsRevised == \A i \in Items : row[i].revision <= changes /\ OfKind(i, row[i].completed, row[i].cancelled)

NativesOfKind ==
  \A n \in Natives : Exists(n) => OfKind(native[n].item, native[n].completed, FALSE)

\* A mapped native item was created for its item and is no other item's.
Made(i, n) == native[n] # Nothing /\ (Exists(n) => native[n].item = i)

MappingsSound ==
  /\ \A i \in Items : mapping[i] # Nothing =>
       /\ Made(i, mapping[i].native)
       /\ ServerOf[i] = connection.address
       /\ mapping[i].fingerprint \in written[mapping[i].native]
       /\ mapping[i].completed \in heard[mapping[i].native]
       /\ OfKind(i, mapping[i].completed, FALSE)
  /\ \A i, j \in Items :
       mapping[i] # Nothing /\ mapping[j] # Nothing /\ mapping[i].native = mapping[j].native => i = j

\* Another server is only taken while nothing is mapped.
ProposedSound ==
  proposed # Nothing /\ proposed.address # connection.address => \A i \in Items : mapping[i] = Nothing

\* A row as the sync read it: the row still is as read, or has a newer revision.
RowRead(i, read) ==
  /\ ServerOf[i] = connection.address
  /\ read.revision <= changes
  /\ OfKind(i, read.completed, read.cancelled)
  /\ row[i].revision = read.revision => row[i] = read

Unmapped(i) == mapping[i] # Nothing => ~Exists(mapping[i].native)

\* What is about to be recorded: a native item that no other item has, in
\* place of none or of one that is gone.
ToRecord(write) ==
  /\ write.value = Nothing => Unmapped(write.item)
  /\ write.value # Nothing =>
       /\ Made(write.item, write.value.native)
       /\ ServerOf[write.item] = connection.address
       /\ OfKind(write.item, write.value.completed, FALSE)
       /\ \A j \in Items : mapping[j] # Nothing /\ mapping[j].native = write.value.native => j = write.item
       /\ Unmapped(write.item) \/ mapping[write.item].native = write.value.native

Requested(run) ==
  /\ run.rows[run.pending.item] # Nothing
  /\ run.pending.revision = run.rows[run.pending.item].revision
  /\ KindOf[run.pending.item] = "reminder"

RunSound(t) ==
  /\ sync[t].connection = connection
  /\ \A i \in Items : sync[t].rows[i] # Nothing => RowRead(i, sync[t].rows[i])
  /\ \A i \in sync[t].todo : sync[t].rows[i] # Nothing
  /\ Recording(t) => ToRecord(sync[t].pending)
  /\ pc[t] = "put" => Requested(sync[t])

RunsSound == \A t \in Triggers : Running(t) => RunSound(t)

\* The native items of an item that no mapping holds, nor one about to be
\* saved: each was left by an exit of the app.
ToBe(i, n) == \E t \in Triggers : /\ Recording(t) /\ sync[t].pending.item = i
                                  /\ sync[t].pending.value # Nothing /\ sync[t].pending.value.native = n
Held(i, n) == mapping[i] # Nothing /\ mapping[i].native = n
Mirrors(i) == {n \in Natives : Exists(n) /\ native[n].item = i}
Orphans(i) == {n \in Mirrors(i) : ~Held(i, n) /\ ~ToBe(i, n)}

OrphansCounted == \A i \in Items : Cardinality(Orphans(i)) <= faults

IInv ==
  /\ Shape /\ OneSync /\ RowsRevised /\ NativesOfKind /\ MappingsSound /\ ProposedSound /\ RunsSound
  /\ OrphansCounted

LEMMA TypesFromShape == Shape => TypeOK
<1> SUFFICES ASSUME Shape PROVE TypeOK
  OBVIOUS
<1>1. ASSUME NEW t \in Triggers, pc[t] # "idle"
      PROVE  /\ sync[t].connection \in Connection /\ sync[t].rows \in [Items -> Row \cup {Nothing}]
             /\ sync[t].todo \subseteq Items /\ sync[t].conflicts \subseteq Items
             /\ pc[t] = "record" => sync[t].pending \in Write
             /\ pc[t] = "put" => sync[t].pending \in Request
  <2>1. sync[t] \in Run
    BY <1>1 DEF Shape, Running
  <2>2. QED
    BY <2>1 DEF Run, Shape, Recording
<1>2. row \in [Items -> Row \cup {Nothing}]
  BY DEF Shape
<1>3. QED
  BY <1>1, <1>2 DEF Shape, TypeOK, Revisions

LEMMA NativesFinite ==
  /\ IsFiniteSet(Natives)
  /\ \A S \in SUBSET Natives : IsFiniteSet(S) /\ Cardinality(S) \in Nat
<1>1. IsFiniteSet(Natives)
  BY FS_Interval, CompanionAssumption DEF Natives
<1>2. QED
  BY <1>1, FS_Subset, FS_CardinalityType

\* Orphans are only ever added one at a time, by an exit of the app.
LEMMA OrphansStay ==
  ASSUME OrphansCounted, faults \in Nat, faults' \in Nat, faults <= faults',
         \A i \in Items : Orphans(i)' \subseteq Orphans(i)
  PROVE  OrphansCounted'
<1>1. ASSUME NEW i \in Items PROVE Cardinality(Orphans(i)') <= faults'
  <2>1. Orphans(i) \in SUBSET Natives /\ Orphans(i)' \in SUBSET Natives
    BY DEF Orphans, Mirrors
  <2>2. PICK b \in SUBSET Natives : b = Orphans(i)'
    BY <2>1
  <2>3. PICK a \in SUBSET Natives : a = Orphans(i)
    BY <2>1
  <2>4. b \subseteq a /\ Cardinality(a) <= faults
    BY <2>2, <2>3 DEF OrphansCounted
  <2>5. Cardinality(b) <= Cardinality(a) /\ Cardinality(a) \in Nat /\ Cardinality(b) \in Nat
    BY <2>4, NativesFinite, FS_Subset
  <2>6. Cardinality(b) <= faults'
    BY <2>4, <2>5
  <2>7. QED
    BY <2>2, <2>6
<1>2. QED
  BY <1>1 DEF OrphansCounted

LEMMA OrphanLeft ==
  ASSUME OrphansCounted, faults \in Nat, faults' = faults + 1, NEW n,
         \A i \in Items : Orphans(i)' \subseteq Orphans(i) \cup {n}
  PROVE  OrphansCounted'
<1>1. ASSUME NEW i \in Items PROVE Cardinality(Orphans(i)') <= faults'
  <2>1. Orphans(i) \in SUBSET Natives /\ Orphans(i)' \in SUBSET Natives
    BY DEF Orphans, Mirrors
  <2>2. PICK b \in SUBSET Natives : b = Orphans(i)'
    BY <2>1
  <2>3. PICK a \in SUBSET Natives : a = Orphans(i)
    BY <2>1
  <2>4. b \subseteq a \cup {n} /\ Cardinality(a) <= faults
    BY <2>2, <2>3 DEF OrphansCounted
  <2>5. IsFiniteSet(a) /\ Cardinality(a) \in Nat /\ Cardinality(b) \in Nat
    BY NativesFinite
  <2>6. /\ IsFiniteSet(a \cup {n})
        /\ Cardinality(a \cup {n}) = IF n \in a THEN Cardinality(a) ELSE Cardinality(a) + 1
    BY <2>5, FS_AddElement
  <2>7. Cardinality(b) <= Cardinality(a \cup {n})
    BY <2>4, <2>6, FS_Subset
  <2>8. Cardinality(a \cup {n}) <= Cardinality(a) + 1 /\ Cardinality(a \cup {n}) \in Nat
    BY <2>5, <2>6
  <2>9. Cardinality(b) <= faults'
    BY <2>4, <2>5, <2>7, <2>8
  <2>10. QED
    BY <2>2, <2>9
<1>2. QED
  BY <1>1 DEF OrphansCounted

\* The trigger whose sync takes a step is the only one.
LEMMA StepOfRun ==
  ASSUME IInv, NEW t \in Triggers, \A u \in Triggers : Running(u) => u = t, proposed' = Nothing,
         NEW p \in {"idle", "fetch", "items", "record", "put"}, NEW s,
         pc' = [pc EXCEPT ![t] = p], sync' = [sync EXCEPT ![t] = s],
         p # "idle" => s \in Run, p = "record" => s.pending \in Write, p = "put" => s.pending \in Request
  PROVE  /\ pc'[t] = p /\ sync'[t] = s
         /\ pc' \in [Triggers -> {"idle", "fetch", "items", "record", "put"}]
         /\ DOMAIN sync' = Triggers /\ \A u \in Triggers : Running(u)' => sync'[u] \in Run
         /\ \A u \in Triggers : /\ Recording(u)' => sync'[u].pending \in Write
                                /\ pc'[u] = "put" => sync'[u].pending \in Request
         /\ \A u \in Triggers : Running(u)' => u = t
         /\ OneSync'
<1>1. pc \in [Triggers -> {"idle", "fetch", "items", "record", "put"}] /\ DOMAIN sync = Triggers
  BY DEF IInv, Shape
<1>2. pc'[t] = p /\ sync'[t] = s /\ \A u \in Triggers : u # t => pc'[u] = pc[u] /\ sync'[u] = sync[u]
  BY <1>1
<1>3. pc' \in [Triggers -> {"idle", "fetch", "items", "record", "put"}] /\ DOMAIN sync' = Triggers
  BY <1>1
<1>4. \A u \in Triggers : Running(u)' => u = t
  BY <1>2 DEF Running
<1>5. \A u \in Triggers : /\ Running(u)' => sync'[u] \in Run
                          /\ Recording(u)' => sync'[u].pending \in Write
                          /\ pc'[u] = "put" => sync'[u].pending \in Request
  BY <1>2, <1>4 DEF Running, Recording
<1>6. OneSync'
  BY <1>4 DEF OneSync
<1>7. QED
  BY <1>2, <1>3, <1>4, <1>5, <1>6

LEMMA InitInv == Init => IInv
<1> SUFFICES ASSUME Init PROVE IInv
  OBVIOUS
<1>1. row \in [Items -> Row] /\ \A i \in Items : /\ row[i].revision = 0 /\ row[i].completed = FALSE
                                                 /\ row[i].cancelled = FALSE
  <2>1. row \in [Items -> [content : Contents \ Undatable, cancelled : {FALSE}, completed : {FALSE},
                           revision : {0}]]
    BY DEF Init
  <2>2. ASSUME NEW i \in Items
        PROVE  row[i] \in Row /\ row[i].revision = 0 /\ row[i].completed = FALSE /\ row[i].cancelled = FALSE
    <3>1. row[i] \in [content : Contents \ Undatable, cancelled : {FALSE}, completed : {FALSE}, revision : {0}]
      BY <2>1
    <3>2. PICK c \in Contents : row[i] = [content |-> c, cancelled |-> FALSE, completed |-> FALSE, revision |-> 0]
      BY <3>1
    <3>3. [content |-> c, cancelled |-> FALSE, completed |-> FALSE, revision |-> 0] \in Row
      BY DEF Row, Revisions
    <3>4. QED
      BY <3>2, <3>3
  <2>3. QED
    BY <2>1, <2>2
<1>2. connection \in Connection
  BY DEF Init, Connection
<1>3. /\ native = [n \in Natives |-> Nothing] /\ mapping = [i \in Items |-> Nothing]
      /\ pc = [t \in Triggers |-> "idle"] /\ sync = [t \in Triggers |-> Nothing]
      /\ written = [n \in Natives |-> {}] /\ heard = [n \in Natives |-> {}]
      /\ proposed = Nothing /\ changes = 0 /\ faults = 0 /\ edits = 0 /\ settings = 0 /\ review = {}
  BY DEF Init
<1>4. Shape
  BY <1>1, <1>2, <1>3, CompanionAssumption DEF Shape, Running, Recording
<1>5. OneSync /\ NativesOfKind /\ MappingsSound /\ ProposedSound /\ RunsSound
  BY <1>3 DEF OneSync, NativesOfKind, Exists, MappingsSound, ProposedSound, RunsSound, Running
<1>6. RowsRevised
  BY <1>1, <1>3 DEF RowsRevised, OfKind
<1>7. ASSUME NEW i \in Items PROVE Cardinality(Orphans(i)) <= faults
  <2>1. Orphans(i) = {}
    BY <1>3 DEF Orphans, Mirrors, Exists
  <2>2. QED
    BY <1>3, <2>1, FS_EmptySet
<1>8. QED
  BY <1>4, <1>5, <1>6, <1>7 DEF IInv, OrphansCounted

-----------------------------------------------------------------------------
(* The household and the user.                                             *)

\* A change gives the row a revision that no sync has read.
LEMMA ChangedKeeps ==
  ASSUME IInv, NEW i \in Items, NEW new \in Row, OfKind(i, new.completed, new.cancelled), Changed(i, new)
  PROVE  IInv'
<1>1. PICK r : r = [new EXCEPT !.revision = changes + 1]
  OBVIOUS
<1>2. changes \in Nat /\ changes' = changes + 1 /\ row' = [row EXCEPT ![i] = r] /\ row \in [Items -> Row]
  BY <1>1 DEF Changed, IInv, Shape
<1>3. /\ r \in Row /\ r.revision = changes + 1 /\ r.completed = new.completed /\ r.cancelled = new.cancelled
  BY <1>1, <1>2 DEF Row, Revisions
<1>4. row' \in [Items -> Row] /\ row'[i] = r /\ \A j \in Items : j # i => row'[j] = row[j]
  BY <1>2, <1>3
<1>5. /\ UNCHANGED <<native, written, heard, edits, faults, settings, mapping, connection, proposed, pc, sync, review>>
  BY DEF Changed, history, bounds
<1>6. Shape'
  BY <1>2, <1>4, <1>5 DEF IInv, Shape, Running, Recording
<1>7. OneSync' /\ NativesOfKind' /\ MappingsSound' /\ ProposedSound'
  BY <1>5 DEF IInv, OneSync, NativesOfKind, MappingsSound, ProposedSound, Running, Exists, Made
<1>8. \A j \in Items : row[j].revision \in Nat /\ row[j].revision <= changes
  BY <1>2 DEF IInv, RowsRevised, Row, Revisions
<1>9. RowsRevised'
  <2>1. ASSUME NEW j \in Items PROVE row'[j].revision <= changes' /\ OfKind(j, row'[j].completed, row'[j].cancelled)
    <3>1. CASE j = i
      BY <1>2, <1>3, <1>4, <3>1
    <3>2. CASE j # i
      BY <1>2, <1>4, <1>8, <3>2 DEF IInv, RowsRevised
    <3>3. QED
      BY <3>1, <3>2
  <2>2. QED
    BY <2>1 DEF RowsRevised, OfKind
<1>10. ASSUME NEW t \in Triggers, Running(t) PROVE RunSound(t)'
  <2>1. RunSound(t) /\ sync[t] \in Run
    BY <1>10 DEF IInv, RunsSound, Shape
  <2>2. ASSUME NEW j \in Items, sync[t].rows[j] # Nothing PROVE RowRead(j, sync[t].rows[j])'
    <3>1. RowRead(j, sync[t].rows[j])
      BY <2>1, <2>2 DEF RunSound
    <3>2. PICK read \in Row : read = sync[t].rows[j]
      BY <2>1, <2>2 DEF Run
    <3>3. read.revision \in Nat /\ read.revision <= changes
      BY <3>1, <3>2 DEF Row, RowRead, Revisions
    <3>4. row'[j].revision = read.revision => row'[j] = read
      BY <1>2, <1>3, <1>4, <3>1, <3>2, <3>3 DEF RowRead
    <3>5. read.revision <= changes'
      BY <1>2, <3>3
    <3>6. QED
      BY <1>5, <3>1, <3>2, <3>4, <3>5 DEF RowRead, OfKind
  <2>3. QED
    BY <1>5, <2>1, <2>2 DEF RunSound, Recording, ToRecord, Unmapped, Made, Exists, OfKind, Requested
<1>11. RunsSound'
  BY <1>5, <1>10 DEF RunsSound, Running
<1>12. OrphansCounted'
  BY <1>5 DEF IInv, OrphansCounted, Orphans, Mirrors, Held, ToBe, Recording, Exists
<1>13. QED
  BY <1>6, <1>7, <1>9, <1>11, <1>12 DEF IInv

LEMMA ServerKeeps ==
  ASSUME IInv, NEW i \in Items,
         ToggleTask(i) \/ \E c \in Contents, x \in BOOLEAN : EditBooking(i, c, x)
  PROVE  IInv'
<1>1. row[i] \in Row /\ OfKind(i, row[i].completed, row[i].cancelled)
  BY DEF IInv, Shape, RowsRevised
<1>2. CASE ToggleTask(i)
  <2>1. PICK new : new = [row[i] EXCEPT !.completed = ~@]
    OBVIOUS
  <2>2. new \in Row /\ new.cancelled = row[i].cancelled
    BY <1>1, <2>1 DEF Row
  <2>3. KindOf[i] = "reminder" /\ Changed(i, new)
    BY <1>2, <2>1 DEF ToggleTask
  <2>4. OfKind(i, new.completed, new.cancelled)
    BY <1>1, <2>2, <2>3 DEF OfKind
  <2>5. QED
    BY <2>2, <2>3, <2>4, ChangedKeeps
<1>3. ASSUME NEW c \in Contents, NEW x \in BOOLEAN, EditBooking(i, c, x) PROVE IInv'
  <2>1. PICK new : new = [row[i] EXCEPT !.content = c, !.cancelled = x]
    OBVIOUS
  <2>2. new \in Row /\ new.completed = row[i].completed
    BY <1>1, <2>1 DEF Row
  <2>3. KindOf[i] = "event" /\ Changed(i, new)
    BY <1>3, <2>1 DEF EditBooking
  <2>4. OfKind(i, new.completed, new.cancelled)
    BY <1>1, <2>2, <2>3 DEF OfKind
  <2>5. QED
    BY <2>2, <2>3, <2>4, ChangedKeeps
<1>4. QED
  BY <1>2, <1>3

\* The user does not create items, and leaves each its item.
LEMMA EditedKeeps ==
  ASSUME IInv, NEW n \in Natives, NEW value, Edited(n, value),
         value = Deleted \/ (/\ value \in Native /\ value.item = native[n].item
                             /\ OfKind(native[n].item, value.completed, FALSE))
  PROVE  IInv'
<1>1. /\ Exists(n) /\ native' = [native EXCEPT ![n] = value] /\ edits' = edits + 1 /\ edits < MaxEdits
      /\ UNCHANGED <<row, changes, written, heard, mapping, connection, proposed, pc, sync, review, faults,
                     settings>>
  BY DEF Edited, serverVars, history
<1>2. value # Nothing /\ native \in [Natives -> Native \cup {Nothing, Deleted}]
  BY CompanionAssumption DEF IInv, Shape
<1>3. \A m \in Natives : m # n => native'[m] = native[m]
  BY <1>1, <1>2
<1>4. native'[n] = value
  BY <1>1, <1>2
<1>5. Shape'
  <2>1. edits' \in 0..MaxEdits
    BY <1>1, CompanionAssumption DEF IInv, Shape
  <2>2. native' \in [Natives -> Native \cup {Nothing, Deleted}]
    BY <1>1, <1>2
  <2>3. QED
    BY <1>1, <2>1, <2>2 DEF IInv, Shape, Running, Recording
<1>6. /\ \A m \in Natives : Exists(m)' => Exists(m) /\ native'[m].item = native[m].item
      /\ \A m \in Natives : native[m] # Nothing => native'[m] # Nothing
  BY <1>1, <1>2, <1>3, <1>4 DEF Exists
<1>7. OneSync' /\ RowsRevised' /\ ProposedSound'
  BY <1>1 DEF IInv, OneSync, RowsRevised, ProposedSound, Running, OfKind
<1>8. NativesOfKind'
  <2>1. ASSUME NEW m \in Natives, Exists(m)' PROVE OfKind(native'[m].item, native'[m].completed, FALSE)
    <3>1. CASE m = n
      BY <1>4, <2>1, <3>1 DEF Exists
    <3>2. CASE m # n
      BY <1>3, <1>6, <2>1, <3>2 DEF IInv, NativesOfKind
    <3>3. QED
      BY <3>1, <3>2
  <2>2. QED
    BY <2>1 DEF NativesOfKind, OfKind
<1>9. ASSUME NEW i \in Items, NEW m \in Natives, Made(i, m) PROVE Made(i, m)'
  BY <1>6, <1>9 DEF Made
<1>10. MappingsSound'
  <2>1. \A i \in Items : mapping[i] # Nothing => mapping[i].native \in Natives
    BY DEF IInv, Shape, Mapping
  <2>2. \A i \in Items : mapping[i] # Nothing => Made(i, mapping[i].native)'
    <3>1. ASSUME NEW i \in Items, mapping[i] # Nothing PROVE Made(i, mapping[i].native)'
      <4>1. PICK m \in Natives : m = mapping[i].native
        BY <2>1, <3>1
      <4>2. Made(i, m)'
        BY <1>9, <3>1, <4>1 DEF IInv, MappingsSound
      <4>3. QED
        BY <1>1, <4>1, <4>2
    <3>2. QED
      BY <3>1
  <2>3. QED
    BY <1>1, <2>2 DEF IInv, MappingsSound, Made, OfKind
<1>11. ASSUME NEW t \in Triggers, Running(t) PROVE RunSound(t)'
  <2>1. RunSound(t) /\ sync[t] \in Run
    BY <1>11 DEF IInv, RunsSound, Shape
  <2>2. ASSUME Recording(t) PROVE ToRecord(sync[t].pending)'
    <3>1. PICK write \in Write : write = sync[t].pending
      BY <2>2 DEF IInv, Shape
    <3>2. ToRecord(write)
      BY <2>1, <2>2, <3>1 DEF RunSound
    <3>3. write.item \in Items /\ write.value \in Mapping \cup {Nothing} /\ mapping[write.item] \in Mapping \cup {Nothing}
      BY DEF Write, IInv, Shape
    <3>4. Unmapped(write.item) => Unmapped(write.item)'
      BY <1>1, <1>6, <3>3 DEF Unmapped, Mapping
    <3>5. write.value # Nothing => Made(write.item, write.value.native)'
      BY <1>9, <3>2, <3>3 DEF ToRecord, Mapping
    <3>6. ToRecord(write)'
      BY <1>1, <3>2, <3>4, <3>5 DEF ToRecord, OfKind
    <3>7. QED
      BY <1>1, <3>1, <3>6
  <2>3. QED
    BY <1>1, <2>1, <2>2 DEF RunSound, Recording, RowRead, OfKind, Requested
<1>12. RunsSound'
  BY <1>1, <1>11 DEF RunsSound, Running
<1>13. \A i \in Items : Orphans(i)' \subseteq Orphans(i)
  BY <1>1, <1>6 DEF Orphans, Mirrors, Held, ToBe, Recording
<1>14. OrphansCounted'
  BY <1>1, <1>13, OrphansStay DEF IInv, Shape
<1>15. QED
  BY <1>5, <1>7, <1>8, <1>10, <1>12, <1>14 DEF IInv

LEMMA UserKeeps ==
  ASSUME IInv, NEW n \in Natives,
         \/ \E c \in Contents : EditNative(n, c)
         \/ CompleteNative(n) \/ DeleteNative(n)
  PROVE  IInv'
<1>1. Exists(n) => native[n] \in Native /\ OfKind(native[n].item, native[n].completed, FALSE)
  BY DEF IInv, Shape, NativesOfKind, Exists
<1>2. ASSUME NEW c \in Contents, EditNative(n, c) PROVE IInv'
  <2>1. PICK value : value = [native[n] EXCEPT !.content = c]
    OBVIOUS
  <2>2. Edited(n, value) /\ Exists(n)
    BY <1>2, <2>1 DEF EditNative, Edited
  <2>3. value \in Native /\ value.item = native[n].item /\ value.completed = native[n].completed
    BY <1>1, <2>1, <2>2 DEF Native
  <2>4. QED
    BY <1>1, <2>2, <2>3, EditedKeeps
<1>3. CASE CompleteNative(n)
  <2>1. PICK value : value = [native[n] EXCEPT !.completed = ~@]
    OBVIOUS
  <2>2. Edited(n, value) /\ Exists(n) /\ KindOf[native[n].item] = "reminder"
    BY <1>3, <2>1 DEF CompleteNative
  <2>3. value \in Native /\ value.item = native[n].item
    BY <1>1, <2>1, <2>2 DEF Native
  <2>4. OfKind(native[n].item, value.completed, FALSE)
    BY <2>2 DEF OfKind
  <2>5. QED
    BY <2>2, <2>3, <2>4, EditedKeeps
<1>4. CASE DeleteNative(n)
  BY <1>4, EditedKeeps DEF DeleteNative
<1>5. QED
  BY <1>2, <1>3, <1>4

-----------------------------------------------------------------------------
(* Settings: no sync runs between the guards and the new connection, so    *)
(* nothing is mapped that the guards did not see.                          *)

LEMMA ProposeKeeps ==
  ASSUME IInv, NEW c \in Connection, Propose(c)
  PROVE  IInv'
<1>1. /\ proposed' = c /\ \A t \in Triggers : ~Running(t)
      /\ c.address # connection.address => \A i \in Items : mapping[i] = Nothing
      /\ settings < MaxSettings /\ settings' = settings + 1
      /\ UNCHANGED <<row, changes, native, written, heard, mapping, connection, pc, sync, review, edits, faults>>
  BY DEF Propose, Proposable, Syncing, Running, serverVars, history
<1>2. settings' \in 0..MaxSettings
  BY <1>1, CompanionAssumption DEF IInv, Shape
<1>3. Shape'
  BY <1>1, <1>2 DEF IInv, Shape, Running, Recording
<1>4. OneSync' /\ ProposedSound' /\ RunsSound'
  BY <1>1 DEF OneSync, ProposedSound, RunsSound, Running
<1>5. RowsRevised' /\ NativesOfKind' /\ MappingsSound' /\ OrphansCounted'
  BY <1>1 DEF IInv, RowsRevised, NativesOfKind, MappingsSound, OrphansCounted, Orphans, Mirrors, Held, ToBe,
              Recording, Exists, Made, OfKind
<1>6. QED
  BY <1>3, <1>4, <1>5 DEF IInv

LEMMA ConfigureKeeps ==
  ASSUME IInv, Configure
  PROVE  IInv'
<1>1. /\ proposed' = Nothing /\ proposed # Nothing /\ proposed \in Connection /\ \A t \in Triggers : pc[t] = "idle"
      /\ UNCHANGED <<row, changes, native, written, heard, mapping, pc, sync, review, edits, faults, settings>>
  BY DEF IInv, Shape, OneSync, Configure, serverVars, history, bounds
<1>2. /\ connection' \in Connection
      /\ connection'.address \in {connection.address, proposed.address}
  <2>1. CASE UNCHANGED connection
    BY <2>1 DEF IInv, Shape
  <2>2. ASSUME NEW granted \in SUBSET proposed.kinds, connection' = [proposed EXCEPT !.kinds = granted]
        PROVE  connection' \in Connection /\ connection'.address = proposed.address
    BY <1>1, <2>2 DEF Connection
  <2>3. QED
    BY <2>1, <2>2 DEF Configure
<1>3. Shape'
  BY <1>1, <1>2 DEF IInv, Shape, Running, Recording
<1>4. OneSync' /\ ProposedSound' /\ RunsSound'
  BY <1>1 DEF OneSync, ProposedSound, RunsSound, Running
<1>5. \A i \in Items : mapping[i] # Nothing => ServerOf[i] = connection'.address
  BY <1>1, <1>2 DEF IInv, MappingsSound, ProposedSound
<1>6. MappingsSound'
  BY <1>1, <1>5 DEF IInv, MappingsSound, Made, Exists, OfKind
<1>7. RowsRevised' /\ NativesOfKind' /\ OrphansCounted'
  BY <1>1 DEF IInv, RowsRevised, NativesOfKind, OrphansCounted, Orphans, Mirrors, Held, ToBe,
              Recording, Exists, OfKind
<1>8. QED
  BY <1>3, <1>4, <1>6, <1>7 DEF IInv

-----------------------------------------------------------------------------
(* A sync.                                                                 *)

\* A step that only moves the sync on: nothing it held to be saved is lost.
LEMMA QuietStep ==
  ASSUME IInv, NEW t \in Triggers, \A u \in Triggers : Running(u) => u = t, ~Recording(t),
         proposed = Nothing, NEW p \in {"idle", "fetch", "items", "put"}, NEW s,
         pc' = [pc EXCEPT ![t] = p], sync' = [sync EXCEPT ![t] = s],
         p # "idle" => /\ s \in Run /\ s.connection = connection
                       /\ \A i \in Items : s.rows[i] # Nothing => RowRead(i, s.rows[i])
                       /\ \A i \in s.todo : s.rows[i] # Nothing,
         p = "put" => s.pending \in Request /\ Requested(s),
         UNCHANGED <<row, changes, native, written, heard, mapping, connection, proposed, edits, settings>>,
         faults' \in 0..MaxFaults, faults <= faults', review' \subseteq Items
  PROVE  IInv'
<1>1. /\ pc'[t] = p /\ sync'[t] = s
      /\ pc' \in [Triggers -> {"idle", "fetch", "items", "record", "put"}]
      /\ DOMAIN sync' = Triggers /\ \A u \in Triggers : Running(u)' => sync'[u] \in Run
      /\ \A u \in Triggers : /\ Recording(u)' => sync'[u].pending \in Write
                             /\ pc'[u] = "put" => sync'[u].pending \in Request
      /\ \A u \in Triggers : Running(u)' => u = t
      /\ OneSync'
  BY StepOfRun
<1>2. Shape'
  BY <1>1 DEF IInv, Shape
<1>3. RowsRevised' /\ NativesOfKind' /\ MappingsSound' /\ ProposedSound'
  BY DEF IInv, RowsRevised, NativesOfKind, MappingsSound, ProposedSound, Exists, Made, OfKind
<1>4. ASSUME p # "idle" PROVE RunSound(t)'
  BY <1>1, <1>4 DEF RunSound, Recording, RowRead, OfKind, Requested
<1>5. RunsSound'
  BY <1>1, <1>4 DEF RunsSound, Running
<1>6. \A u \in Triggers : ~Recording(u) /\ ~Recording(u)'
  BY <1>1 DEF Recording, Running
<1>7. \A i \in Items : Orphans(i)' \subseteq Orphans(i)
  BY <1>6 DEF Orphans, Mirrors, Held, ToBe, Exists
<1>8. OrphansCounted'
  <2>1. faults \in Nat /\ faults' \in Nat
    BY CompanionAssumption DEF IInv, Shape
  <2>2. QED
    BY <1>7, <2>1, OrphansStay DEF IInv
<1>9. QED
  BY <1>1, <1>2, <1>3, <1>5, <1>8 DEF IInv

\* What is known of the sync a step belongs to.
LEMMA AtStep ==
  ASSUME IInv, NEW t \in Triggers, Running(t)
  PROVE  /\ \A u \in Triggers : Running(u) => u = t
         /\ proposed = Nothing /\ sync[t] \in Run /\ RunSound(t)
         /\ faults \in 0..MaxFaults /\ review \subseteq Items
         /\ faults \in Nat /\ faults <= faults
BY CompanionAssumption DEF IInv, Shape, OneSync, RunsSound, Running

LEMMA StartKeeps ==
  ASSUME IInv, NEW t \in Triggers, Start(t)
  PROVE  IInv'
<1>1. PICK s : s = [connection |-> connection, rows |-> [i \in Items |-> Nothing],
                    todo |-> {}, conflicts |-> {}, pending |-> Nothing]
  OBVIOUS
<1>2. /\ pc' = [pc EXCEPT ![t] = "fetch"] /\ sync' = [sync EXCEPT ![t] = s]
      /\ \A u \in Triggers : ~Running(u)
      /\ proposed = Nothing
      /\ UNCHANGED <<row, changes, native, written, heard, mapping, connection, proposed, edits, settings, faults,
                     review>>
  BY <1>1 DEF Start, Startable, Syncing, Running, serverVars, history, bounds
<1>3. s \in Run /\ s.connection = connection /\ s.todo = {} /\ \A i \in Items : s.rows[i] = Nothing
  BY <1>1 DEF IInv, Shape, Run
<1>4. ~Recording(t)
  BY <1>2 DEF Running, Recording
<1>5. faults \in 0..MaxFaults /\ faults <= faults /\ review \subseteq Items
  BY CompanionAssumption DEF IInv, Shape
<1>6. QED
  BY <1>2, <1>3, <1>4, <1>5, QuietStep

\* The rows are those of the server the sync talks to, as they are now.
LEMMA FetchKeeps ==
  ASSUME IInv, NEW t \in Triggers, Fetch(t)
  PROVE  IInv'
<1>1. pc[t] = "fetch" /\ Running(t) /\ ~Recording(t)
  BY DEF Fetch, Running, Recording
<1>2. PICK rows : rows = [i \in Items |->
        IF ServerOf[i] = sync[t].connection.address THEN row[i] ELSE Nothing]
  OBVIOUS
<1>3. PICK todo : todo = {i \in Items : rows[i] # Nothing}
  OBVIOUS
<1>4. PICK s : s = [sync[t] EXCEPT !.rows = rows, !.todo = todo]
  OBVIOUS
<1>5. sync[t] \in Run /\ sync[t].connection = connection /\ DOMAIN sync = Triggers
  BY <1>1, AtStep DEF RunSound, IInv, Shape
<1>6. /\ pc' = [pc EXCEPT ![t] = "items"] /\ sync' = [sync EXCEPT ![t] = s]
      /\ UNCHANGED <<row, changes, native, written, heard, mapping, connection, proposed, edits, settings, faults,
                     review>>
  BY <1>2, <1>3, <1>4, <1>5 DEF Fetch, Run, serverVars, history, bounds
<1>7. rows \in [Items -> Row \cup {Nothing}] /\ todo \in SUBSET Items
  BY <1>2, <1>3 DEF IInv, Shape
<1>8. s \in Run /\ s.connection = connection /\ s.rows = rows /\ s.todo = todo
  BY <1>4, <1>5, <1>7 DEF Run
<1>9. ASSUME NEW i \in Items, rows[i] # Nothing PROVE RowRead(i, rows[i])
  <2>1. ServerOf[i] = connection.address /\ rows[i] = row[i]
    BY <1>2, <1>5, <1>9
  <2>2. QED
    BY <2>1 DEF RowRead, IInv, RowsRevised
<1>10. QED
  BY <1>1, <1>3, <1>6, <1>8, <1>9, AtStep, QuietStep

\* Ending a sync, or passing over an item, leaves what it read as it was.
LEMMA RestOfRun ==
  ASSUME IInv, NEW t \in Triggers, Running(t), ~Recording(t), NEW s \in Run,
         s.connection = sync[t].connection, s.rows = sync[t].rows, s.todo \subseteq sync[t].todo,
         pc' = [pc EXCEPT ![t] = "items"], sync' = [sync EXCEPT ![t] = s],
         UNCHANGED <<row, changes, native, written, heard, mapping, connection, proposed, edits, settings, faults,
                     review>>
  PROVE  IInv'
<1>1. /\ s.connection = connection
      /\ \A j \in Items : s.rows[j] # Nothing => RowRead(j, s.rows[j])
      /\ \A j \in s.todo : s.rows[j] # Nothing
  BY AtStep DEF RunSound
<1>2. QED
  BY <1>1, AtStep, QuietStep

LEMMA PassKeeps ==
  ASSUME IInv, NEW t \in Triggers, NEW i \in sync[t].todo, pc[t] = "items", Pass(t, i),
         UNCHANGED <<serverVars, bounds, mapping, connection, proposed, review>>
  PROVE  IInv'
<1>1. Running(t) /\ ~Recording(t) /\ sync[t] \in Run /\ i \in Items
  BY AtStep DEF Running, Recording, Run
<1>2. UNCHANGED <<row, changes, native, written, heard, mapping, connection, proposed, edits, settings, faults,
                  review, pc>>
  BY DEF Pass, serverVars, history, bounds
<1>3. pc' = [pc EXCEPT ![t] = "items"]
  BY <1>2 DEF IInv, Shape
<1>4. PICK todo : todo = sync[t].todo \ {i}
  OBVIOUS
<1>5. PICK s : s = [sync[t] EXCEPT !.todo = todo]
  OBVIOUS
<1>6. s \in Run /\ s.connection = sync[t].connection /\ s.rows = sync[t].rows /\ s.todo = todo
      /\ s.conflicts = sync[t].conflicts
  BY <1>1, <1>4, <1>5 DEF Run
<1>7. PICK reported : reported = s.conflicts \cup {i}
  OBVIOUS
<1>8. PICK r : r = [s EXCEPT !.conflicts = reported]
  OBVIOUS
<1>9. r \in Run /\ r.connection = sync[t].connection /\ r.rows = sync[t].rows /\ r.todo = todo
  BY <1>1, <1>6, <1>7, <1>8 DEF Run
<1>10. sync' = [sync EXCEPT ![t] = s] \/ sync' = [sync EXCEPT ![t] = r]
  BY <1>4, <1>5, <1>7, <1>8 DEF Pass, Reported
<1>11. QED
  BY <1>1, <1>2, <1>3, <1>4, <1>6, <1>9, <1>10, RestOfRun

LEMMA SubmitKeeps ==
  ASSUME IInv, NEW t \in Triggers, NEW i \in sync[t].todo, pc[t] = "items", Submit(t, i),
         UNCHANGED <<serverVars, bounds, mapping, connection, proposed, review>>
  PROVE  IInv'
<1>1. Running(t) /\ ~Recording(t) /\ sync[t] \in Run /\ i \in Items /\ sync[t].rows[i] # Nothing
      /\ DOMAIN sync = Triggers
  BY AtStep DEF Running, Recording, Run, RunSound, IInv, Shape
<1>2. UNCHANGED <<row, changes, native, written, heard, mapping, connection, proposed, edits, settings, faults,
                  review>>
  BY DEF Submit, serverVars, history, bounds
<1>3. PICK item \in Row : item = sync[t].rows[i]
  BY <1>1 DEF Run
<1>4. Existing(i) /\ KindOf[i] = "reminder"
  BY DEF Submit, Submits
<1>5. NativeOf(i) \in Native
  BY <1>1, <1>4 DEF NativeOf, Existing, Exists, IInv, Shape, Mapping
<1>6. PICK request : request = [item |-> i, completed |-> NativeOf(i).completed,
                                revision |-> item.revision, answer |-> Nothing]
  OBVIOUS
<1>7. request \in Request /\ request.item = i /\ request.revision = item.revision
  BY <1>1, <1>3, <1>5, <1>6 DEF Request, Row, Native
<1>8. PICK todo : todo = sync[t].todo \ {i}
  OBVIOUS
<1>9. PICK s : s = [sync[t] EXCEPT !.todo = todo, !.pending = request]
  OBVIOUS
<1>10. s \in Run /\ s.connection = sync[t].connection /\ s.rows = sync[t].rows /\ s.todo = todo
       /\ s.pending = request
  BY <1>1, <1>7, <1>8, <1>9 DEF Run
<1>11. pc' = [pc EXCEPT ![t] = "put"] /\ sync' = [sync EXCEPT ![t] = s]
  BY <1>1, <1>3, <1>6, <1>8, <1>9 DEF Submit, Run
<1>12. Requested(s)
  BY <1>1, <1>3, <1>4, <1>7, <1>10 DEF Requested
<1>13. /\ s.connection = connection
       /\ \A j \in Items : s.rows[j] # Nothing => RowRead(j, s.rows[j])
       /\ \A j \in s.todo : s.rows[j] # Nothing
  BY <1>1, <1>8, <1>10, AtStep DEF RunSound
<1>14. QED
  BY <1>1, <1>2, <1>7, <1>10, <1>11, <1>12, <1>13, AtStep, QuietStep

LEMMA EndKeeps ==
  ASSUME IInv, NEW t \in Triggers, Finish(t) \/ Fail(t)
  PROVE  IInv'
<1>1. /\ Running(t) /\ ~Recording(t)
      /\ pc' = [pc EXCEPT ![t] = "idle"] /\ sync' = [sync EXCEPT ![t] = Nothing]
      /\ UNCHANGED <<row, changes, native, written, heard, mapping, connection, proposed, edits, settings>>
  BY DEF Finish, Fail, Running, Recording, serverVars, history, bounds
<1>2. sync[t] \in Run /\ faults \in 0..MaxFaults /\ review \subseteq Items
  BY <1>1, AtStep
<1>3. review' \subseteq Items
  BY <1>2 DEF Finish, Fail, Run
<1>4. faults' \in 0..MaxFaults /\ faults <= faults'
  BY <1>2, CompanionAssumption DEF Finish, Fail, bounds
<1>5. QED
  BY <1>1, <1>3, <1>4, AtStep, QuietStep

\* The app quits: what was about to be recorded stays as an orphan.
LEMMA QuitKeeps ==
  ASSUME IInv, Quit
  PROVE  IInv'
<1>1. /\ \A t \in Triggers : ~Running(t)'
      /\ pc' = [t \in Triggers |-> "idle"] /\ sync' = [t \in Triggers |-> Nothing] /\ proposed' = Nothing
      /\ faults < MaxFaults /\ faults' = faults + 1
      /\ UNCHANGED <<row, changes, native, written, heard, mapping, connection, review, edits, settings>>
  BY DEF Quit, Running, serverVars, history
<1>2. faults \in Nat /\ faults' \in 0..MaxFaults
  BY <1>1, CompanionAssumption DEF IInv, Shape
<1>3. Shape'
  BY <1>1, <1>2 DEF IInv, Shape, Running, Recording
<1>4. OneSync' /\ ProposedSound' /\ RunsSound'
  BY <1>1 DEF OneSync, ProposedSound, RunsSound
<1>5. RowsRevised' /\ NativesOfKind' /\ MappingsSound'
  BY <1>1 DEF IInv, RowsRevised, NativesOfKind, MappingsSound, Exists, Made, OfKind
<1>6. \A t \in Triggers : ~Recording(t)'
  BY <1>1 DEF Running, Recording
<1>7. PICK n : \A i \in Items : \A m : ToBe(i, m) => m = n
  <2>1. CASE \E t \in Triggers : Recording(t)
    <3>1. PICK t \in Triggers : Recording(t)
      BY <2>1
    <3>2. \A u \in Triggers : Recording(u) => u = t
      BY <3>1 DEF IInv, OneSync, Recording, Running
    <3>3. WITNESS sync[t].pending.value.native
    <3>4. QED
      BY <3>2 DEF ToBe
  <2>2. CASE ~\E t \in Triggers : Recording(t)
    BY <2>2 DEF ToBe
  <2>3. QED
    BY <2>1, <2>2
<1>8. \A i \in Items : Orphans(i)' \subseteq Orphans(i) \cup {n}
  BY <1>1, <1>6, <1>7 DEF Orphans, Mirrors, Held, ToBe, Exists
<1>9. OrphansCounted'
  BY <1>1, <1>2, <1>8, OrphanLeft DEF IInv
<1>10. QED
  BY <1>3, <1>4, <1>5, <1>9 DEF IInv

LEMMA RemoveKeeps ==
  ASSUME IInv, NEW t \in Triggers, NEW i \in sync[t].todo, pc[t] = "items", RemoveNative(t, i),
         UNCHANGED <<serverVars, bounds, mapping, connection, proposed, review>>
  PROVE  IInv'
<1>1. /\ Running(t) /\ ~Recording(t) /\ sync[t] \in Run /\ i \in Items /\ DOMAIN sync = Triggers
      /\ \A u \in Triggers : Running(u) => u = t
      /\ proposed = Nothing /\ RunSound(t)
  BY AtStep DEF Running, Recording, Run, IInv, Shape
<1>2. UNCHANGED <<row, changes, written, heard, mapping, connection, proposed, edits, settings, faults, review>>
  BY DEF RemoveNative, serverVars, history, bounds
<1>3. PICK write : write = [item |-> i, value |-> Nothing]
  OBVIOUS
<1>4. write \in Write /\ write.item = i /\ write.value = Nothing
  BY <1>1, <1>3 DEF Write
<1>5. PICK todo : todo = sync[t].todo \ {i}
  OBVIOUS
<1>6. PICK s : s = [sync[t] EXCEPT !.todo = todo, !.pending = write]
  OBVIOUS
<1>7. s \in Run /\ s.connection = sync[t].connection /\ s.rows = sync[t].rows /\ s.todo = todo
      /\ s.pending = write
  BY <1>1, <1>4, <1>5, <1>6 DEF Run
<1>8. pc' = [pc EXCEPT ![t] = "record"] /\ sync' = [sync EXCEPT ![t] = s]
  BY <1>1, <1>3, <1>5, <1>6 DEF RemoveNative, Run
<1>9. /\ pc'[t] = "record" /\ sync'[t] = s
      /\ pc' \in [Triggers -> {"idle", "fetch", "items", "record", "put"}]
      /\ DOMAIN sync' = Triggers /\ \A u \in Triggers : Running(u)' => sync'[u] \in Run
      /\ \A u \in Triggers : /\ Recording(u)' => sync'[u].pending \in Write
                             /\ pc'[u] = "put" => sync'[u].pending \in Request
      /\ \A u \in Triggers : Running(u)' => u = t
      /\ OneSync'
  BY <1>1, <1>2, <1>4, <1>7, <1>8, StepOfRun
<1>10. /\ native' \in [Natives -> Native \cup {Nothing, Deleted}]
       /\ \A m \in Natives : native'[m] = native[m] \/ (native'[m] = Deleted /\ native[m] # Nothing)
       /\ mapping[i] # Nothing => ~Exists(mapping[i].native)'
  <2>1. native \in [Natives -> Native \cup {Nothing, Deleted}] /\ mapping[i] \in Mapping \cup {Nothing}
    BY <1>1 DEF IInv, Shape
  <2>2. CASE Existing(i)
    <3>1. PICK n \in Natives : n = mapping[i].native
      BY <2>1, <2>2 DEF Existing, Mapping
    <3>2. native' = [native EXCEPT ![n] = Deleted] /\ native[n] # Nothing
      BY <2>2, <3>1 DEF RemoveNative, Existing, Exists
    <3>3. native'[n] = Deleted
      BY <2>1, <3>2
    <3>4. QED
      BY <1>2, <2>1, <3>1, <3>2, <3>3 DEF Exists
  <2>3. CASE ~Existing(i)
    <3>1. native' = native
      BY <2>3 DEF RemoveNative
    <3>2. QED
      BY <1>2, <2>1, <2>3, <3>1 DEF Existing, Exists
  <2>4. QED
    BY <2>2, <2>3
<1>11. /\ \A m \in Natives : Exists(m)' => Exists(m) /\ native'[m] = native[m]
       /\ \A m \in Natives : native[m] # Nothing => native'[m] # Nothing
  BY <1>10, CompanionAssumption DEF Exists
<1>12. Shape'
  BY <1>2, <1>9, <1>10 DEF IInv, Shape
<1>13. RowsRevised' /\ ProposedSound'
  BY <1>2 DEF IInv, RowsRevised, ProposedSound, OfKind
<1>14. NativesOfKind'
  BY <1>11 DEF IInv, NativesOfKind, OfKind
<1>15. MappingsSound'
  <2>1. ASSUME NEW j \in Items, mapping[j] # Nothing PROVE Made(j, mapping[j].native)'
    <3>1. PICK m \in Natives : m = mapping[j].native
      BY <2>1 DEF IInv, Shape, Mapping
    <3>2. Made(j, m)
      BY <2>1, <3>1 DEF IInv, MappingsSound
    <3>3. Made(j, m)'
      BY <1>11, <3>2 DEF Made
    <3>4. QED
      BY <1>2, <3>1, <3>3
  <2>2. QED
    BY <1>2, <2>1 DEF IInv, MappingsSound, Made, OfKind
<1>16. RunSound(t)'
  <2>1. ToRecord(write)'
    BY <1>2, <1>4, <1>10 DEF ToRecord, Unmapped
  <2>2. \A j \in Items : s.rows[j] # Nothing => RowRead(j, s.rows[j])'
    BY <1>1, <1>2, <1>7 DEF RunSound, RowRead, OfKind
  <2>3. \A j \in s.todo : s.rows[j] # Nothing
    BY <1>1, <1>5, <1>7 DEF RunSound
  <2>4. QED
    BY <1>1, <1>2, <1>7, <1>9, <2>1, <2>2, <2>3 DEF RunSound
<1>17. RunsSound'
  BY <1>9, <1>16 DEF RunsSound
<1>18. \A j \in Items : Orphans(j)' \subseteq Orphans(j)
  <2>1. \A j \in Items : \A m : ~ToBe(j, m)
    BY <1>1 DEF ToBe, Recording, Running
  <2>2. \A j \in Items : \A m : Held(j, m)' <=> Held(j, m)
    BY <1>2 DEF Held
  <2>3. \A j \in Items : Mirrors(j)' \subseteq Mirrors(j)
    BY <1>11 DEF Mirrors
  <2>4. QED
    BY <2>1, <2>2, <2>3 DEF Orphans
<1>19. OrphansCounted'
  <2>1. faults \in Nat /\ faults' = faults
    BY <1>2, CompanionAssumption DEF IInv, Shape
  <2>2. QED
    BY <1>18, <2>1, OrphansStay DEF IInv
<1>20. QED
  BY <1>9, <1>12, <1>13, <1>14, <1>15, <1>17, <1>19 DEF IInv

LEMMA FreshIsNew ==
  ASSUME \E m \in Natives : native[m] = Nothing
  PROVE  FreshNative \in Natives /\ native[FreshNative] = Nothing
<1> DEFINE S == {m \in Natives : native[m] = Nothing}
           R == OpToRel(<, Nat)
<1>1. S \in SUBSET Nat /\ S # {} /\ Natives \subseteq Nat
  BY CompanionAssumption DEF Natives
<1>2. PICK x \in S : \A y \in S : <<y, x>> \notin R
  BY <1>1, NatLessThanWellFounded, WFMin
<1>3. \A y \in S : <<y, x>> \notin {p \in Nat \X Nat : p[1] < p[2]}
  BY <1>2 DEF OpToRel
<1>4. \A m \in Natives : m < x => native[m] # Nothing
  BY <1>1, <1>3
<1>5. \E n \in Natives : native[n] = Nothing /\ \A m \in Natives : m < n => native[m] # Nothing
  BY <1>4
<1>6. QED
  BY <1>5 DEF FreshNative

\* The native item is the one mapped to the item, or one that never was.
LEMMA SaveKeeps ==
  ASSUME IInv, NEW t \in Triggers, NEW i \in sync[t].todo, pc[t] = "items", SaveNative(t, i),
         UNCHANGED <<serverVars, bounds, mapping, connection, proposed, review>>
  PROVE  IInv'
<1>1. /\ Running(t) /\ ~Recording(t) /\ sync[t] \in Run /\ i \in Items /\ DOMAIN sync = Triggers
      /\ \A u \in Triggers : Running(u) => u = t
      /\ proposed = Nothing /\ RunSound(t) /\ sync[t].rows[i] # Nothing
  BY AtStep DEF Running, Recording, Run, RunSound, IInv, Shape
<1>2. UNCHANGED <<row, changes, mapping, connection, proposed, edits, settings, faults, review>>
  BY DEF serverVars, bounds
<1>3. PICK item \in Row : item = sync[t].rows[i]
  BY <1>1 DEF Run
<1>4. ServerOf[i] = connection.address /\ OfKind(i, item.completed, FALSE)
  BY <1>1, <1>3 DEF RunSound, RowRead, OfKind
<1>5. PICK n : n = IF Existing(i) THEN mapping[i].native ELSE FreshNative
  OBVIOUS
<1>6. /\ native \in [Natives -> Native \cup {Nothing, Deleted}] /\ mapping \in [Items -> Mapping \cup {Nothing}]
      /\ written \in [Natives -> SUBSET Contents] /\ heard \in [Natives -> SUBSET BOOLEAN]
  BY DEF IInv, Shape
<1>7. /\ n \in Natives
      /\ \A j \in Items : mapping[j] # Nothing /\ mapping[j].native = n => j = i
      /\ Unmapped(i) \/ mapping[i].native = n
  <2>1. CASE Existing(i)
    <3>1. n = mapping[i].native /\ mapping[i] # Nothing /\ n \in Natives
      BY <1>1, <1>5, <1>6, <2>1 DEF Existing, Mapping
    <3>2. QED
      BY <1>1, <3>1 DEF IInv, MappingsSound
  <2>2. CASE ~Existing(i)
    <3>1. n \in Natives /\ native[n] = Nothing
      BY <1>5, <2>2, FreshIsNew DEF SaveNative
    <3>2. \A j \in Items : mapping[j] # Nothing => mapping[j].native # n
      BY <3>1 DEF IInv, MappingsSound, Made
    <3>3. QED
      BY <2>2, <3>1, <3>2 DEF Unmapped, Existing
  <2>3. QED
    BY <2>1, <2>2
<1>8. PICK v : v = [item |-> i, content |-> item.content, completed |-> item.completed]
  OBVIOUS
<1>9. v \in Native /\ v.item = i /\ v.completed = item.completed
  BY <1>1, <1>3, <1>8 DEF Native, Row
<1>10. PICK value : value = [native |-> n, revision |-> item.revision,
                             fingerprint |-> item.content, completed |-> item.completed]
  OBVIOUS
<1>11. value \in Mapping /\ value.native = n /\ value.completed = item.completed
  BY <1>3, <1>7, <1>10 DEF Mapping, Row
<1>12. PICK write : write = [item |-> i, value |-> value]
  OBVIOUS
<1>13. write \in Write /\ write.item = i /\ write.value = value
  BY <1>1, <1>11, <1>12 DEF Write
<1>14. PICK todo : todo = sync[t].todo \ {i}
  OBVIOUS
<1>15. PICK s : s = [sync[t] EXCEPT !.todo = todo, !.pending = write]
  OBVIOUS
<1>16. s \in Run /\ s.connection = sync[t].connection /\ s.rows = sync[t].rows /\ s.todo = todo
       /\ s.pending = write
  BY <1>1, <1>13, <1>14, <1>15 DEF Run
<1>17. /\ pc' = [pc EXCEPT ![t] = "record"] /\ sync' = [sync EXCEPT ![t] = s]
       /\ native' = [native EXCEPT ![n] = v]
       /\ written' = [written EXCEPT ![n] = @ \cup {item.content}]
       /\ heard' = [heard EXCEPT ![n] = @ \cup {item.completed}]
  BY <1>1, <1>3, <1>5, <1>8, <1>10, <1>12, <1>14, <1>15 DEF SaveNative, Run
<1>18. /\ pc'[t] = "record" /\ sync'[t] = s
       /\ pc' \in [Triggers -> {"idle", "fetch", "items", "record", "put"}]
       /\ DOMAIN sync' = Triggers /\ \A u \in Triggers : Running(u)' => sync'[u] \in Run
       /\ \A u \in Triggers : /\ Recording(u)' => sync'[u].pending \in Write
                              /\ pc'[u] = "put" => sync'[u].pending \in Request
       /\ \A u \in Triggers : Running(u)' => u = t
       /\ OneSync'
  BY <1>1, <1>2, <1>13, <1>16, <1>17, StepOfRun
<1>19. /\ native' \in [Natives -> Native \cup {Nothing, Deleted}]
       /\ native'[n] = v /\ \A m \in Natives : m # n => native'[m] = native[m]
       /\ v # Nothing /\ v # Deleted
  BY <1>6, <1>7, <1>9, <1>17, CompanionAssumption
<1>20. /\ written' \in [Natives -> SUBSET Contents] /\ heard' \in [Natives -> SUBSET BOOLEAN]
       /\ \A m \in Natives : written[m] \subseteq written'[m] /\ heard[m] \subseteq heard'[m]
  <2>1. item.content \in Contents /\ item.completed \in BOOLEAN
    BY <1>3 DEF Row
  <2>2. written' \in [Natives -> SUBSET Contents] /\ \A m \in Natives : written[m] \subseteq written'[m]
    BY <1>6, <1>7, <1>17, <2>1
  <2>3. heard' \in [Natives -> SUBSET BOOLEAN] /\ \A m \in Natives : heard[m] \subseteq heard'[m]
    BY <1>6, <1>7, <1>17, <2>1
  <2>4. QED
    BY <2>2, <2>3
<1>21. Shape'
  BY <1>2, <1>18, <1>19, <1>20 DEF IInv, Shape
<1>22. RowsRevised' /\ ProposedSound'
  BY <1>2 DEF IInv, RowsRevised, ProposedSound, OfKind
<1>23. NativesOfKind'
  <2>1. ASSUME NEW m \in Natives, Exists(m)' PROVE OfKind(native'[m].item, native'[m].completed, FALSE)
    <3>1. CASE m = n
      BY <1>4, <1>9, <1>19, <3>1
    <3>2. CASE m # n
      BY <1>19, <2>1, <3>2 DEF IInv, NativesOfKind, Exists
    <3>3. QED
      BY <3>1, <3>2
  <2>2. QED
    BY <2>1 DEF NativesOfKind, OfKind
<1>24. ASSUME NEW j \in Items, NEW m \in Natives, m = n => j = i, m # n => Made(j, m)
       PROVE  Made(j, m)'
  <2>1. CASE m = n
    BY <1>9, <1>19, <1>24, <2>1 DEF Made
  <2>2. CASE m # n
    BY <1>19, <1>24, <2>2 DEF Made, Exists
  <2>3. QED
    BY <2>1, <2>2
<1>25. MappingsSound'
  <2>1. ASSUME NEW j \in Items, mapping[j] # Nothing
        PROVE  /\ Made(j, mapping[j].native)'
               /\ mapping[j].fingerprint \in written'[mapping[j].native]
               /\ mapping[j].completed \in heard'[mapping[j].native]
    <3>1. PICK m \in Natives : m = mapping[j].native
      BY <1>6, <2>1 DEF Mapping
    <3>2. Made(j, m)
      BY <2>1, <3>1 DEF IInv, MappingsSound
    <3>3. Made(j, m)'
      BY <1>7, <1>24, <2>1, <3>1, <3>2
    <3>4. mapping[j].fingerprint \in written[m] /\ mapping[j].completed \in heard[m]
      BY <2>1, <3>1 DEF IInv, MappingsSound
    <3>5. QED
      BY <1>2, <1>20, <3>1, <3>3, <3>4
  <2>2. QED
    BY <1>2, <2>1 DEF IInv, MappingsSound, OfKind
<1>26. RunSound(t)'
  <2>1. Made(i, n)'
    BY <1>1, <1>7, <1>24
  <2>2. Unmapped(i)' \/ mapping[i].native = n
    <3>1. CASE mapping[i] = Nothing
      BY <1>2, <3>1 DEF Unmapped
    <3>2. CASE mapping[i] # Nothing /\ mapping[i].native # n
      <4>1. PICK m \in Natives : m = mapping[i].native
        BY <1>1, <1>6, <3>2 DEF Mapping
      <4>2. ~Exists(m)
        BY <1>7, <3>2, <4>1 DEF Unmapped
      <4>3. ~Exists(m)'
        BY <1>19, <3>2, <4>1, <4>2 DEF Exists
      <4>4. QED
        BY <1>2, <4>1, <4>3 DEF Unmapped
    <3>3. QED
      BY <3>1, <3>2
  <2>3. ToRecord(write)'
    BY <1>2, <1>4, <1>7, <1>11, <1>13, <2>1, <2>2, CompanionAssumption DEF ToRecord, OfKind
  <2>4. \A j \in Items : s.rows[j] # Nothing => RowRead(j, s.rows[j])'
    BY <1>1, <1>2, <1>16 DEF RunSound, RowRead, OfKind
  <2>5. \A j \in s.todo : s.rows[j] # Nothing
    BY <1>1, <1>14, <1>16 DEF RunSound
  <2>6. QED
    BY <1>1, <1>2, <1>16, <1>18, <2>3, <2>4, <2>5 DEF RunSound
<1>27. RunsSound'
  BY <1>18, <1>26 DEF RunsSound
<1>28. \A j \in Items : Orphans(j)' \subseteq Orphans(j)
  <2>1. \A j \in Items : \A m : ~ToBe(j, m)
    BY <1>1 DEF ToBe, Recording, Running
  <2>2. \A j \in Items : \A m : Held(j, m)' <=> Held(j, m)
    BY <1>2 DEF Held
  <2>3. ToBe(i, n)'
    BY <1>11, <1>13, <1>16, <1>18, CompanionAssumption DEF ToBe, Recording
  <2>4. \A j \in Items : Mirrors(j)' \subseteq Mirrors(j) \cup {n} /\ (n \in Mirrors(j)' => j = i)
    BY <1>9, <1>19 DEF Mirrors, Exists
  <2>5. ASSUME NEW j \in Items, NEW m \in Orphans(j)' PROVE m \in Orphans(j)
    <3>1. m # n
      BY <2>3, <2>4, <2>5 DEF Orphans
    <3>2. m \in Mirrors(j)
      BY <2>4, <2>5, <3>1 DEF Orphans
    <3>3. QED
      BY <2>1, <2>2, <2>5, <3>2 DEF Orphans
  <2>6. QED
    BY <2>5
<1>29. OrphansCounted'
  <2>1. faults \in Nat /\ faults' = faults
    BY <1>2, CompanionAssumption DEF IInv, Shape
  <2>2. QED
    BY <1>28, <2>1, OrphansStay DEF IInv
<1>30. QED
  BY <1>18, <1>21, <1>22, <1>23, <1>25, <1>27, <1>29 DEF IInv

\* What the recorded mapping replaces is gone, or is the same native item.
LEMMA RecordKeeps ==
  ASSUME IInv, NEW t \in Triggers, Record(t)
  PROVE  IInv'
<1>1. /\ pc[t] = "record" /\ Running(t) /\ Recording(t) /\ sync[t] \in Run /\ DOMAIN sync = Triggers
      /\ \A u \in Triggers : Running(u) => u = t
      /\ proposed = Nothing /\ RunSound(t)
  BY AtStep DEF Record, Running, Recording, IInv, Shape
<1>2. UNCHANGED <<row, changes, native, connection, proposed, edits, settings, faults, review>>
  BY DEF Record, serverVars, bounds
<1>3. PICK write \in Write : write = sync[t].pending
  BY <1>1 DEF IInv, Shape
<1>4. PICK i \in Items : i = write.item
  BY DEF Write
<1>5. PICK value \in Mapping \cup {Nothing} : value = write.value
  BY DEF Write
<1>6. ToRecord(write)
  BY <1>1, <1>3 DEF RunSound
<1>7. PICK s : s = [sync[t] EXCEPT !.pending = Nothing]
  OBVIOUS
<1>8. s \in Run /\ s.connection = sync[t].connection /\ s.rows = sync[t].rows /\ s.todo = sync[t].todo
  BY <1>1, <1>7 DEF Run
<1>9. /\ pc' = [pc EXCEPT ![t] = "items"] /\ sync' = [sync EXCEPT ![t] = s]
      /\ mapping' = [mapping EXCEPT ![i] = value]
      /\ written' = [n \in Natives |-> IF value # Nothing /\ value.native = n THEN {value.fingerprint} ELSE written[n]]
      /\ heard' = [n \in Natives |-> IF value # Nothing /\ value.native = n THEN {value.completed} ELSE heard[n]]
  BY <1>1, <1>3, <1>4, <1>5, <1>7 DEF Record, Run
<1>10. /\ pc'[t] = "items" /\ sync'[t] = s
       /\ pc' \in [Triggers -> {"idle", "fetch", "items", "record", "put"}]
       /\ DOMAIN sync' = Triggers /\ \A u \in Triggers : Running(u)' => sync'[u] \in Run
       /\ \A u \in Triggers : /\ Recording(u)' => sync'[u].pending \in Write
                              /\ pc'[u] = "put" => sync'[u].pending \in Request
       /\ \A u \in Triggers : Running(u)' => u = t
       /\ OneSync'
  BY <1>1, <1>2, <1>8, <1>9, StepOfRun
<1>11. /\ mapping \in [Items -> Mapping \cup {Nothing}] /\ written \in [Natives -> SUBSET Contents]
       /\ heard \in [Natives -> SUBSET BOOLEAN]
  BY DEF IInv, Shape
<1>12. /\ mapping' \in [Items -> Mapping \cup {Nothing}]
       /\ mapping'[i] = value /\ \A j \in Items : j # i => mapping'[j] = mapping[j]
  BY <1>9, <1>11
<1>13. value # Nothing => value.fingerprint \in Contents /\ value.completed \in BOOLEAN /\ value.native \in Natives
  BY DEF Mapping
<1>14. written' \in [Natives -> SUBSET Contents] /\ heard' \in [Natives -> SUBSET BOOLEAN]
  BY <1>9, <1>11, <1>13
<1>15. Shape'
  BY <1>2, <1>10, <1>12, <1>14 DEF IInv, Shape
<1>16. RowsRevised' /\ NativesOfKind' /\ ProposedSound'
  BY <1>1, <1>2 DEF IInv, RowsRevised, NativesOfKind, ProposedSound, Exists, OfKind
<1>17. ASSUME NEW j \in Items, mapping'[j] # Nothing
       PROVE  /\ Made(j, mapping'[j].native)
              /\ ServerOf[j] = connection.address
              /\ mapping'[j].fingerprint \in written'[mapping'[j].native]
              /\ mapping'[j].completed \in heard'[mapping'[j].native]
              /\ OfKind(j, mapping'[j].completed, FALSE)
  <2>1. CASE j = i
    <3>1. mapping'[j] = value /\ value # Nothing
      BY <1>12, <1>17, <2>1
    <3>2. written'[value.native] = {value.fingerprint} /\ heard'[value.native] = {value.completed}
      BY <1>9, <1>13, <3>1
    <3>3. QED
      BY <1>4, <1>5, <1>6, <2>1, <3>1, <3>2 DEF ToRecord
  <2>2. CASE j # i
    <3>1. mapping'[j] = mapping[j] /\ mapping[j] # Nothing /\ mapping[j].native \in Natives
      BY <1>11, <1>12, <1>17, <2>2 DEF Mapping
    <3>2. value # Nothing => value.native # mapping[j].native
      BY <1>4, <1>5, <1>6, <2>2, <3>1 DEF ToRecord
    <3>3. written'[mapping[j].native] = written[mapping[j].native] /\ heard'[mapping[j].native] = heard[mapping[j].native]
      BY <1>9, <3>1, <3>2
    <3>4. QED
      BY <3>1, <3>3 DEF IInv, MappingsSound
  <2>3. QED
    BY <2>1, <2>2
<1>18. \A j, k \in Items :
         mapping'[j] # Nothing /\ mapping'[k] # Nothing /\ mapping'[j].native = mapping'[k].native => j = k
  <2>1. ASSUME NEW j \in Items, j # i, mapping'[j] # Nothing, mapping'[i] # Nothing
        PROVE  mapping'[j].native # mapping'[i].native
    BY <1>4, <1>5, <1>6, <1>12, <2>1 DEF ToRecord
  <2>2. QED
    BY <1>12, <2>1 DEF IInv, MappingsSound
<1>19. MappingsSound'
  BY <1>2, <1>17, <1>18 DEF MappingsSound, Made, Exists, OfKind
<1>20. RunSound(t)'
  BY <1>1, <1>2, <1>8, <1>10 DEF RunSound, RowRead, OfKind, Recording
<1>21. RunsSound'
  BY <1>10, <1>20 DEF RunsSound
<1>22. ASSUME NEW j \in Items, NEW m \in Orphans(j)' PROVE m \in Orphans(j)
  <2>1. m \in Mirrors(j) /\ Exists(m) /\ ~Held(j, m)'
    BY <1>2, <1>22 DEF Orphans, Mirrors, Exists
  <2>2. CASE j # i
    <3>1. ~ToBe(j, m)
      BY <1>1, <1>3, <1>4, <2>2 DEF ToBe, Recording, Running
    <3>2. QED
      BY <1>12, <2>1, <2>2, <3>1 DEF Orphans, Held
  <2>3. CASE j = i
    <3>1. value = Nothing \/ value.native # m
      BY <1>12, <2>1, <2>3 DEF Held
    <3>2. ~ToBe(i, m)
      BY <1>1, <1>3, <1>5, <3>1 DEF ToBe, Recording, Running
    <3>3. ~Held(i, m)
      BY <1>4, <1>5, <1>6, <2>1, <3>1 DEF ToRecord, Unmapped, Held
    <3>4. QED
      BY <2>1, <2>3, <3>2, <3>3 DEF Orphans
  <2>4. QED
    BY <2>2, <2>3
<1>23. OrphansCounted'
  <2>1. faults \in Nat /\ faults' = faults
    BY <1>2, CompanionAssumption DEF IInv, Shape
  <2>2. QED
    BY <1>22, <2>1, OrphansStay DEF IInv
<1>24. QED
  BY <1>10, <1>15, <1>16, <1>19, <1>21, <1>23 DEF IInv

\* The server takes a completion: the row gets a revision the sync has not read.
LEMMA CompleteKeeps ==
  ASSUME IInv, NEW t \in Triggers, Complete(t)
  PROVE  IInv'
<1>1. /\ pc[t] = "put" /\ Running(t) /\ ~Recording(t) /\ sync[t] \in Run /\ DOMAIN sync = Triggers
      /\ \A u \in Triggers : Running(u) => u = t
      /\ proposed = Nothing /\ RunSound(t)
  BY AtStep DEF Complete, Running, Recording, IInv, Shape
<1>2. UNCHANGED <<native, written, mapping, connection, proposed, edits, settings, faults, review, pc>>
  BY DEF Complete, bounds
<1>3. pc' = [pc EXCEPT ![t] = "put"]
  BY <1>1, <1>2 DEF IInv, Shape
<1>4. PICK r \in Request : r = sync[t].pending
  BY <1>1 DEF IInv, Shape
<1>5. Requested(sync[t]) /\ KindOf[r.item] = "reminder" /\ r.item \in Items /\ r.completed \in BOOLEAN
  BY <1>1, <1>4 DEF RunSound, Requested, Request
<1>6. ASSUME NEW answer \in {"ok", "conflict"}, sync' = [sync EXCEPT ![t].pending.answer = answer]
      PROVE  \E s \in Run : /\ sync' = [sync EXCEPT ![t] = s]
                            /\ s.connection = sync[t].connection /\ s.rows = sync[t].rows /\ s.todo = sync[t].todo
                            /\ s.pending \in Request /\ Requested(s)
  <2>1. PICK q : q = [r EXCEPT !.answer = answer]
    OBVIOUS
  <2>2. q \in Request /\ q.item = r.item /\ q.revision = r.revision
    BY <1>6, <2>1 DEF Request
  <2>3. PICK s : s = [sync[t] EXCEPT !.pending = q]
    OBVIOUS
  <2>4. s \in Run /\ s.connection = sync[t].connection /\ s.rows = sync[t].rows /\ s.todo = sync[t].todo
        /\ s.pending = q
    BY <1>1, <2>2, <2>3 DEF Run
  <2>5. sync' = [sync EXCEPT ![t] = s]
    BY <1>1, <1>4, <1>6, <2>1, <2>3 DEF Run
  <2>6. Requested(s)
    BY <1>4, <1>5, <2>2, <2>4 DEF Requested
  <2>7. QED
    BY <2>2, <2>4, <2>5, <2>6
<1>7. CASE UNCHANGED <<row, changes, heard>> /\ sync' = [sync EXCEPT ![t].pending.answer = "conflict"]
  <2>1. PICK s \in Run : /\ sync' = [sync EXCEPT ![t] = s]
                         /\ s.connection = sync[t].connection /\ s.rows = sync[t].rows /\ s.todo = sync[t].todo
                         /\ s.pending \in Request /\ Requested(s)
    BY <1>6, <1>7
  <2>2. /\ s.connection = connection
        /\ \A i \in Items : s.rows[i] # Nothing => RowRead(i, s.rows[i])
        /\ \A i \in s.todo : s.rows[i] # Nothing
    BY <1>1, <2>1 DEF RunSound
  <2>3. QED
    BY <1>1, <1>2, <1>3, <1>7, <2>1, <2>2, AtStep, QuietStep
<1>8. CASE /\ changes' = changes + 1
           /\ row' = [row EXCEPT ![r.item].completed = r.completed, ![r.item].revision = changes + 1]
           /\ sync' = [sync EXCEPT ![t].pending.answer = "ok"]
           /\ heard' = IF mapping[r.item] = Nothing THEN heard
                       ELSE [heard EXCEPT ![mapping[r.item].native] = @ \cup {r.completed}]
  <2>1. PICK s \in Run : /\ sync' = [sync EXCEPT ![t] = s]
                         /\ s.connection = sync[t].connection /\ s.rows = sync[t].rows /\ s.todo = sync[t].todo
                         /\ s.pending \in Request /\ Requested(s)
    BY <1>6, <1>8
  <2>2. /\ pc'[t] = "put" /\ sync'[t] = s
        /\ pc' \in [Triggers -> {"idle", "fetch", "items", "record", "put"}]
        /\ DOMAIN sync' = Triggers /\ \A u \in Triggers : Running(u)' => sync'[u] \in Run
        /\ \A u \in Triggers : /\ Recording(u)' => sync'[u].pending \in Write
                               /\ pc'[u] = "put" => sync'[u].pending \in Request
        /\ \A u \in Triggers : Running(u)' => u = t
        /\ OneSync'
    BY <1>1, <1>2, <1>3, <2>1, StepOfRun
  <2>3. PICK i \in Items : i = r.item
    BY <1>5
  <2>4. row \in [Items -> Row] /\ changes \in Nat /\ heard \in [Natives -> SUBSET BOOLEAN]
        /\ mapping \in [Items -> Mapping \cup {Nothing}]
    BY DEF IInv, Shape
  <2>5. PICK new : new = [row[i] EXCEPT !.completed = r.completed, !.revision = changes + 1]
    OBVIOUS
  <2>6. new \in Row /\ new.revision = changes + 1 /\ new.cancelled = row[i].cancelled
    <3>1. row[i] \in Row /\ changes + 1 \in Nat /\ r.completed \in BOOLEAN
      BY <1>5, <2>4
    <3>2. new.revision = changes + 1 /\ new.cancelled = row[i].cancelled
      BY <2>5, <3>1 DEF Row
    <3>3. new \in Row
      BY <2>5, <3>1 DEF Row, Revisions
    <3>4. QED
      BY <3>2, <3>3
  <2>7. row' = [row EXCEPT ![i] = new]
    BY <1>8, <2>3, <2>4, <2>5
  <2>8. row' \in [Items -> Row] /\ row'[i] = new /\ \A j \in Items : j # i => row'[j] = row[j]
    BY <2>4, <2>6, <2>7
  <2>9. heard' \in [Natives -> SUBSET BOOLEAN] /\ \A n \in Natives : heard[n] \subseteq heard'[n]
    <3>1. CASE mapping[i] = Nothing
      BY <1>8, <2>3, <2>4, <3>1
    <3>2. CASE mapping[i] # Nothing
      <4>1. PICK n \in Natives : n = mapping[i].native
        BY <2>4, <3>2 DEF Mapping
      <4>2. heard' = [heard EXCEPT ![n] = @ \cup {r.completed}]
        BY <1>8, <2>3, <3>2, <4>1
      <4>3. QED
        BY <1>5, <2>4, <4>1, <4>2
    <3>3. QED
      BY <3>1, <3>2
  <2>10. Shape'
    BY SMTT(60), <1>2, <1>8, <2>2, <2>4, <2>8, <2>9 DEF IInv, Shape
  <2>11. \A j \in Items : row[j].revision \in Nat /\ row[j].revision <= changes
    BY <2>4 DEF IInv, RowsRevised, Row, Revisions
  <2>12. ASSUME NEW j \in Items PROVE row'[j].revision <= changes' /\ OfKind(j, row'[j].completed, row'[j].cancelled)
    <3>1. CASE j = i
      <4>1. row'[j] = new /\ KindOf[j] = "reminder" /\ OfKind(j, row[j].completed, row[j].cancelled)
        BY <1>5, <2>3, <2>8, <3>1 DEF IInv, RowsRevised
      <4>2. row'[j].revision = changes + 1 /\ row'[j].revision <= changes'
        BY <1>8, <2>4, <2>6, <4>1
      <4>3. OfKind(j, new.completed, new.cancelled)
        BY <2>6, <3>1, <4>1 DEF OfKind
      <4>4. QED
        BY <4>1, <4>2, <4>3
    <3>2. CASE j # i
      <4>1. row'[j] = row[j] /\ OfKind(j, row[j].completed, row[j].cancelled)
        BY <2>8, <3>2 DEF IInv, RowsRevised
      <4>2. row[j].revision \in Nat /\ row[j].revision <= changes /\ changes' = changes + 1 /\ changes \in Nat
        BY <1>8, <2>4, <2>11
      <4>3. row[j].revision <= changes'
        BY <4>2
      <4>4. QED
        BY <4>1, <4>3
    <3>3. QED
      BY <3>1, <3>2
  <2>13. RowsRevised'
    BY <2>12 DEF RowsRevised, OfKind
  <2>14. NativesOfKind' /\ ProposedSound'
    BY <1>2 DEF IInv, NativesOfKind, ProposedSound, Exists, OfKind
  <2>15. MappingsSound'
    <3>1. \A j \in Items : mapping[j] # Nothing => mapping[j].completed \in heard'[mapping[j].native]
      BY <2>4, <2>9 DEF IInv, MappingsSound, Mapping
    <3>2. QED
      BY <1>2, <3>1 DEF IInv, MappingsSound, Exists, Made, OfKind
  <2>16. ASSUME NEW j \in Items, s.rows[j] # Nothing PROVE RowRead(j, s.rows[j])'
    <3>1. PICK read \in Row : read = s.rows[j]
      BY <2>1, <2>16 DEF Run
    <3>2. RowRead(j, read) /\ read.revision \in Nat /\ read.revision <= changes
      BY <1>1, <2>1, <2>16, <3>1 DEF RunSound, RowRead, Row, Revisions
    <3>3. row'[j].revision = read.revision => row'[j] = read
      BY <2>4, <2>6, <2>8, <3>2 DEF RowRead
    <3>4. read.revision <= changes'
      BY <1>8, <2>4, <3>2
    <3>5. RowRead(j, read)'
      BY <1>2, <3>2, <3>3, <3>4 DEF RowRead, OfKind
    <3>6. QED
      BY <3>1, <3>5 DEF RowRead, OfKind
  <2>17. RunSound(t)'
    BY <1>1, <1>2, <2>1, <2>2, <2>16 DEF RunSound, Recording, Requested
  <2>18. RunsSound'
    BY <2>2, <2>17 DEF RunsSound
  <2>19. \A j \in Items : Orphans(j)' \subseteq Orphans(j)
    <3>1. \A u \in Triggers : ~Recording(u)
      BY <1>1 DEF Recording, Running
    <3>2. QED
      BY <1>2, <3>1 DEF Orphans, Mirrors, Held, ToBe, Exists
  <2>20. faults \in Nat /\ faults' = faults
    BY <1>2, CompanionAssumption DEF IInv, Shape
  <2>21. OrphansCounted'
    BY <2>19, <2>20, OrphansStay DEF IInv
  <2>22. QED
    BY <2>2, <2>10, <2>13, <2>14, <2>15, <2>18, <2>21 DEF IInv
<1>9. QED
  BY <1>4, <1>7, <1>8 DEF Complete, serverVars

\* The answer: the completion that was sent is what both sides know.
LEMMA AnswerKeeps ==
  ASSUME IInv, NEW t \in Triggers, Answer(t)
  PROVE  IInv'
<1>1. /\ pc[t] = "put" /\ Running(t) /\ ~Recording(t) /\ sync[t] \in Run /\ DOMAIN sync = Triggers
      /\ \A u \in Triggers : Running(u) => u = t
      /\ proposed = Nothing /\ RunSound(t)
  BY AtStep DEF Answer, Running, Recording, IInv, Shape
<1>2. /\ UNCHANGED <<row, changes, native, written, connection, proposed, edits, settings, faults, review>>
      /\ pc' = [pc EXCEPT ![t] = "items"]
  BY DEF Answer, serverVars, bounds
<1>3. PICK r \in Request : r = sync[t].pending
  BY <1>1 DEF IInv, Shape
<1>4. r.item \in Items /\ r.completed \in BOOLEAN /\ KindOf[r.item] = "reminder"
  BY <1>1, <1>3 DEF RunSound, Requested, Request
<1>5. PICK s : s = [sync[t] EXCEPT !.pending = Nothing]
  OBVIOUS
<1>6. s \in Run /\ s.connection = sync[t].connection /\ s.rows = sync[t].rows /\ s.todo = sync[t].todo
  BY <1>1, <1>5 DEF Run
<1>7. CASE /\ UNCHANGED <<mapping, heard>>
           /\ sync' = [sync EXCEPT ![t] = [s EXCEPT !.conflicts = Reported(s, r.item)]]
  <2>1. PICK reported : reported = s.conflicts \cup {r.item}
    OBVIOUS
  <2>2. PICK q : q = [s EXCEPT !.conflicts = reported]
    OBVIOUS
  <2>3. reported \subseteq Items
    BY <1>4, <1>6, <2>1 DEF Run
  <2>4. q \in Run /\ q.connection = sync[t].connection /\ q.rows = sync[t].rows /\ q.todo = sync[t].todo
    BY <1>6, <2>2, <2>3 DEF Run
  <2>5. sync' = [sync EXCEPT ![t] = q]
    BY <1>7, <2>1, <2>2 DEF Reported
  <2>6. QED
    BY <1>1, <1>2, <1>7, <2>4, <2>5, RestOfRun
<1>8. CASE /\ sync' = [sync EXCEPT ![t] = s]
           /\ mapping' = [mapping EXCEPT ![r.item] =
                 IF @ = Nothing THEN Nothing ELSE [@ EXCEPT !.completed = Acknowledged(r)]]
           /\ heard' = IF mapping[r.item] = Nothing THEN heard
                       ELSE [heard EXCEPT ![mapping[r.item].native] = {r.completed}]
  <2>1. PICK i \in Items : i = r.item
    BY <1>4
  <2>2. mapping \in [Items -> Mapping \cup {Nothing}] /\ heard \in [Natives -> SUBSET BOOLEAN]
    BY DEF IInv, Shape
  <2>3. CASE mapping[i] = Nothing
    <3>1. UNCHANGED <<mapping, heard>>
      BY <1>8, <2>1, <2>2, <2>3
    <3>2. QED
      BY <1>1, <1>2, <1>6, <1>8, <3>1, RestOfRun
  <2>4. CASE mapping[i] # Nothing
    <3>1. PICK n \in Natives : n = mapping[i].native
      BY <2>2, <2>4 DEF Mapping
    <3>2. PICK m : m = [mapping[i] EXCEPT !.completed = r.completed]
      OBVIOUS
    <3>3. m \in Mapping /\ m.native = n /\ m.completed = r.completed /\ m.fingerprint = mapping[i].fingerprint
          /\ m # Nothing
      BY <1>4, <2>2, <2>4, <3>1, <3>2, CompanionAssumption DEF Mapping
    <3>4. mapping' = [mapping EXCEPT ![i] = m] /\ heard' = [heard EXCEPT ![n] = {r.completed}]
      BY <1>8, <2>1, <2>2, <2>4, <3>1, <3>2 DEF Acknowledged
    <3>5. /\ mapping' \in [Items -> Mapping \cup {Nothing}] /\ mapping'[i] = m
          /\ \A j \in Items : j # i => mapping'[j] = mapping[j]
      BY <2>2, <3>3, <3>4
    <3>6. /\ heard' \in [Natives -> SUBSET BOOLEAN] /\ heard'[n] = {r.completed}
          /\ \A k \in Natives : k # n => heard'[k] = heard[k]
      BY <1>4, <2>2, <3>4
    <3>7. /\ pc'[t] = "items" /\ sync'[t] = s
          /\ pc' \in [Triggers -> {"idle", "fetch", "items", "record", "put"}]
          /\ DOMAIN sync' = Triggers /\ \A u \in Triggers : Running(u)' => sync'[u] \in Run
          /\ \A u \in Triggers : /\ Recording(u)' => sync'[u].pending \in Write
                                 /\ pc'[u] = "put" => sync'[u].pending \in Request
          /\ \A u \in Triggers : Running(u)' => u = t
          /\ OneSync'
      BY <1>1, <1>2, <1>6, <1>8, StepOfRun
    <3>8. Shape'
      BY <1>2, <3>5, <3>6, <3>7 DEF IInv, Shape
    <3>9. RowsRevised' /\ NativesOfKind' /\ ProposedSound'
      BY <1>1, <1>2 DEF IInv, RowsRevised, NativesOfKind, ProposedSound, Exists, OfKind
    <3>10. \A j \in Items : /\ mapping'[j] # Nothing <=> mapping[j] # Nothing
                            /\ mapping[j] # Nothing => /\ mapping'[j].native = mapping[j].native
                                                       /\ mapping'[j].fingerprint = mapping[j].fingerprint
      BY <2>4, <3>1, <3>3, <3>5
    <3>11. ASSUME NEW j \in Items, mapping[j] # Nothing
           PROVE  /\ mapping'[j].completed \in heard'[mapping[j].native]
                  /\ OfKind(j, mapping'[j].completed, FALSE)
      <4>1. CASE j = i
        BY <1>4, <2>1, <3>1, <3>3, <3>5, <3>6, <4>1 DEF OfKind
      <4>2. CASE j # i
        <5>1. mapping'[j] = mapping[j] /\ mapping[j].native \in Natives
          BY <2>2, <3>5, <3>11, <4>2 DEF Mapping
        <5>2. mapping[j].native # n
          BY <2>4, <3>1, <3>11, <4>2 DEF IInv, MappingsSound
        <5>3. QED
          BY <3>6, <3>11, <5>1, <5>2 DEF IInv, MappingsSound
      <4>3. QED
        BY <4>1, <4>2
    <3>12. MappingsSound'
      <4>1. ASSUME NEW j \in Items, mapping'[j] # Nothing
            PROVE  /\ Made(j, mapping'[j].native)
                   /\ ServerOf[j] = connection.address
                   /\ mapping'[j].fingerprint \in written[mapping'[j].native]
                   /\ mapping'[j].completed \in heard'[mapping'[j].native]
                   /\ OfKind(j, mapping'[j].completed, FALSE)
        BY <3>10, <3>11, <4>1 DEF IInv, MappingsSound
      <4>2. \A j, k \in Items :
              mapping'[j] # Nothing /\ mapping'[k] # Nothing /\ mapping'[j].native = mapping'[k].native => j = k
        BY <3>10 DEF IInv, MappingsSound
      <4>3. QED
        BY <1>2, <4>1, <4>2 DEF MappingsSound, Made, Exists, OfKind
    <3>13. RunSound(t)'
      BY <1>1, <1>2, <1>6, <3>7 DEF RunSound, RowRead, OfKind, Recording
    <3>14. RunsSound'
      BY <3>7, <3>13 DEF RunsSound
    <3>15. \A j \in Items : Orphans(j)' \subseteq Orphans(j)
      <4>1. \A u \in Triggers : ~Recording(u)
        BY <1>1 DEF Recording, Running
      <4>2. \A j \in Items : \A k : Held(j, k)' <=> Held(j, k)
        BY <3>10 DEF Held
      <4>3. \A j \in Items : Mirrors(j)' = Mirrors(j)
        BY <1>2 DEF Mirrors, Exists
      <4>4. QED
        BY <4>1, <4>2, <4>3 DEF Orphans, ToBe
    <3>16. faults \in Nat /\ faults' = faults
      BY <1>2, CompanionAssumption DEF IInv, Shape
    <3>17. OrphansCounted'
      BY <3>15, <3>16, OrphansStay DEF IInv
    <3>18. QED
      BY <3>7, <3>8, <3>9, <3>12, <3>14, <3>17 DEF IInv
  <2>5. QED
    BY <2>3, <2>4
<1>9. QED
  BY <1>3, <1>5, <1>7, <1>8 DEF Answer

LEMMA HandleKeeps ==
  ASSUME IInv, NEW t \in Triggers, NEW i \in sync[t].todo, Handle(t, i)
  PROVE  IInv'
BY PassKeeps, RemoveKeeps, SaveKeeps, SubmitKeeps DEF Handle

LEMMA Stutters == ASSUME IInv, UNCHANGED vars PROVE IInv'
<1>1. UNCHANGED <<row, changes, native, mapping, connection, proposed, pc, sync, review, written, heard, edits, faults, settings>>
  BY DEF vars
<1>2. Shape' /\ OneSync' /\ RowsRevised' /\ NativesOfKind' /\ MappingsSound' /\ ProposedSound'
  BY <1>1 DEF IInv, Shape, OneSync, RowsRevised, NativesOfKind, MappingsSound, ProposedSound, Running,
              Recording, Exists, Made, OfKind
<1>3. RunsSound'
  BY ZenonT(20), <1>1 DEF IInv, RunsSound, RunSound, Running, Recording, RowRead, OfKind, ToRecord, Unmapped, Made, Exists,
              Requested
<1>4. OrphansCounted'
  BY <1>1 DEF IInv, OrphansCounted, Orphans, Mirrors, Held, ToBe, Recording, Exists
<1>5. QED
  BY <1>2, <1>3, <1>4 DEF IInv

LEMMA NextInv == IInv /\ [Next]_vars => IInv'
<1> SUFFICES ASSUME IInv, [Next]_vars PROVE IInv'
  OBVIOUS
<1>1. ASSUME NEW i \in Items,
             ToggleTask(i) \/ \E c \in Contents, x \in BOOLEAN : EditBooking(i, c, x)
      PROVE  IInv'
  BY <1>1, ServerKeeps
<1>2. ASSUME NEW n \in Natives,
             \/ \E c \in Contents : EditNative(n, c)
             \/ CompleteNative(n) \/ DeleteNative(n)
      PROVE  IInv'
  BY <1>2, UserKeeps
<1>3. ASSUME NEW a \in Servers, NEW k \in SUBSET Kinds, Propose([address |-> a, kinds |-> k]) PROVE IInv'
  <2>1. [address |-> a, kinds |-> k] \in Connection
    BY DEF Connection
  <2>2. QED
    BY <1>3, <2>1, ProposeKeeps
<1>4. CASE Configure
  BY <1>4, ConfigureKeeps
<1>5. ASSUME NEW t \in Triggers, Sync(t) PROVE IInv'
  BY <1>5, StartKeeps, FetchKeeps, HandleKeeps, RecordKeeps, CompleteKeeps, AnswerKeeps, EndKeeps DEF Sync
<1>6. ASSUME NEW t \in Triggers, Fail(t) PROVE IInv'
  BY <1>6, EndKeeps
<1>7. CASE Quit
  BY <1>7, QuitKeeps
<1>8. CASE UNCHANGED vars
  BY <1>8, Stutters
<1>9. QED
  BY <1>1, <1>2, <1>3, <1>4, <1>5, <1>6, <1>7, <1>8 DEF Next

LEMMA AlwaysInv == Spec => []IInv
BY InitInv, NextInv, PTL DEF Spec

-----------------------------------------------------------------------------
(* What follows.                                                           *)

\* Every variable keeps its type: a sync holds rows, items and requests of
\* the projection, whatever overlaps with it.
THEOREM TypesKept == Spec => []TypeOK
<1>1. IInv => TypeOK
  BY TypesFromShape DEF IInv
<1>2. QED
  BY <1>1, AlwaysInv, PTL

\* An item that is mirrored has one native item, save for those that exits
\* of the app left behind, and only items of the paired server are mapped:
\* however many triggers overlap, whatever is edited, deleted or reconfigured
\* in between.
THEOREM MirroredOnceHolds == Spec => []MirroredOnce
<1>1. IInv => MirroredOnce
  <2> SUFFICES ASSUME IInv PROVE MirroredOnce
    OBVIOUS
  <2>1. PairedOnly
    BY DEF IInv, MappingsSound, PairedOnly
  <2>2. ASSUME NEW i \in Items PROVE Cardinality(Mirrors(i)) <= 1 + faults
    <3>1. PICK n : \A m \in Mirrors(i) : Held(i, m) \/ ToBe(i, m) => m = n
      <4>1. CASE \E m \in Mirrors(i) : Held(i, m)
        <5>1. PICK m \in Mirrors(i) : Held(i, m)
          BY <4>1
        <5>2. \A k \in Mirrors(i) : Held(i, k) => k = m
          BY <5>1 DEF Held
        <5>3. \A k \in Mirrors(i) : ToBe(i, k) => k = m
          BY <5>1 DEF IInv, RunsSound, RunSound, Running, Recording, ToRecord, Unmapped, ToBe, Held, Mirrors
        <5>4. QED
          BY <5>2, <5>3
      <4>2. CASE ~\E m \in Mirrors(i) : Held(i, m)
        <5>1. \A k, m : ToBe(i, k) /\ ToBe(i, m) => k = m
          BY DEF ToBe, IInv, OneSync, Running, Recording
        <5>2. QED
          BY <4>2, <5>1
      <4>3. QED
        BY <4>1, <4>2
    <3>2. Mirrors(i) \subseteq Orphans(i) \cup {n}
      BY <3>1 DEF Orphans
    <3>3. Orphans(i) \in SUBSET Natives /\ Mirrors(i) \in SUBSET Natives
      BY DEF Orphans, Mirrors
    <3>4. IsFiniteSet(Orphans(i)) /\ Cardinality(Orphans(i)) \in Nat /\ Cardinality(Mirrors(i)) \in Nat
      BY <3>3, NativesFinite
    <3>5. /\ IsFiniteSet(Orphans(i) \cup {n})
          /\ Cardinality(Orphans(i) \cup {n}) =
               IF n \in Orphans(i) THEN Cardinality(Orphans(i)) ELSE Cardinality(Orphans(i)) + 1
      BY <3>4, FS_AddElement
    <3>6. Cardinality(Mirrors(i)) <= Cardinality(Orphans(i) \cup {n})
      BY <3>2, <3>5, FS_Subset
    <3>7. Cardinality(Orphans(i)) <= faults /\ faults \in Nat
      BY CompanionAssumption DEF IInv, OrphansCounted, Shape
    <3>8. QED
      BY <3>4, <3>5, <3>6, <3>7
  <2>3. NoDuplicates
    BY <2>2 DEF NoDuplicates, Mirrors
  <2>4. QED
    BY <2>1, <2>3 DEF MirroredOnce
<1>2. QED
  BY <1>1, AlwaysInv, PTL

\* A sync only touches what the companion left in a native item it mapped.
LEMMA SyncSparesEdits ==
  ASSUME IInv, NEW t \in Triggers, NEW i \in sync[t].todo, pc[t] = "items",
         RemoveNative(t, i) \/ SaveNative(t, i),
         NEW n \in Natives, Exists(n), native'[n] # native[n]
  PROVE  native[n].content \in written[n] /\ native[n].completed \in heard[n]
<1>1. /\ sync[t] \in Run /\ i \in Items /\ RunSound(t) /\ sync[t].rows[i] # Nothing
  BY AtStep DEF Running, Run, RunSound
<1>2. PICK item \in Row : item = sync[t].rows[i]
  BY <1>1 DEF Run
<1>3. OfKind(i, item.completed, item.cancelled) /\ KindOf[i] \in {"event", "reminder"}
  BY <1>1, <1>2, CompanionAssumption DEF RunSound, RowRead, Kinds
<1>4. native \in [Natives -> Native \cup {Nothing, Deleted}] /\ mapping[i] \in Mapping \cup {Nothing}
  BY <1>1 DEF IInv, Shape
<1>5. Existing(i) /\ n = mapping[i].native /\ ~Conflict(i, item)
  <2>1. CASE RemoveNative(t, i)
    <3>1. Existing(i)
      BY <2>1 DEF RemoveNative
    <3>2. mapping[i].native \in Natives
      BY <1>4, <3>1 DEF Existing, Mapping
    <3>3. n = mapping[i].native
      BY <1>4, <2>1, <3>1, <3>2 DEF RemoveNative
    <3>4. QED
      BY <1>2, <2>1, <3>1, <3>3 DEF RemoveNative
  <2>2. CASE SaveNative(t, i)
    <3>1. PICK k : k = IF Existing(i) THEN mapping[i].native ELSE FreshNative
      OBVIOUS
    <3>2. PICK v : native' = [native EXCEPT ![k] = v]
      BY <2>2, <3>1 DEF SaveNative
    <3>3. n = k
      BY <1>4, <3>2
    <3>4. Existing(i)
      <4>1. SUFFICES ASSUME ~Existing(i) PROVE FALSE
        OBVIOUS
      <4>2. native[FreshNative] = Nothing
        BY <2>2, <4>1, FreshIsNew DEF SaveNative
      <4>3. QED
        BY <3>1, <3>3, <4>1, <4>2 DEF Exists
    <3>5. QED
      BY <1>2, <2>2, <3>1, <3>3, <3>4 DEF SaveNative
  <2>3. QED
    BY <2>1, <2>2
<1>6. /\ mapping[i] # Nothing /\ mapping[i].fingerprint \in written[n] /\ mapping[i].completed \in heard[n]
      /\ OfKind(i, mapping[i].completed, FALSE) /\ native[n].item = i
  BY <1>1, <1>5 DEF Existing, IInv, MappingsSound, Made
<1>7. native[n].content = mapping[i].fingerprint
  BY <1>5 DEF Conflict, NativeOf
<1>8. native[n].completed = mapping[i].completed
  <2>1. CASE KindOf[i] = "event"
    BY <1>6, <2>1 DEF IInv, NativesOfKind, OfKind
  <2>2. CASE KindOf[i] = "reminder"
    <3>1. ~RemoveNative(t, i)
      BY <1>2, <1>3, <2>2 DEF RemoveNative, OfKind
    <3>2. mapping[i].revision # item.revision
      BY <1>2, <1>5, <3>1 DEF SaveNative, UpToDate
    <3>3. QED
      BY <1>5, <2>2, <3>2 DEF Conflict, NativeOf
  <2>3. QED
    BY <1>3, <2>1, <2>2
<1>9. QED
  BY <1>6, <1>7, <1>8

\* Whoever else steps either leaves Calendar and Reminders alone or is the user.
LEMMA EditsSpared ==
  ASSUME IInv, Next, NEW n \in Natives, Exists(n), native'[n] # native[n], edits' = edits
  PROVE  native[n].content \in written[n] /\ native[n].completed \in heard[n]
<1>1. edits \in Nat /\ edits + 1 # edits
  BY CompanionAssumption DEF IInv, Shape
<1>2. ASSUME NEW m \in Natives, NEW value PROVE ~Edited(m, value)
  BY <1>1 DEF Edited
<1>3. ASSUME NEW t \in Triggers, Sync(t)
      PROVE  pc[t] = "items" /\ \E i \in sync[t].todo : RemoveNative(t, i) \/ SaveNative(t, i)
  <2>1. UNCHANGED native => FALSE
    OBVIOUS
  <2>2. ~Start(t) /\ ~Fetch(t) /\ ~Record(t) /\ ~Complete(t) /\ ~Answer(t) /\ ~Finish(t)
    BY <2>1 DEF Start, Fetch, Record, Complete, Answer, Finish
  <2>3. \A i \in sync[t].todo : ~Pass(t, i) /\ ~Submit(t, i)
    BY <2>1 DEF Pass, Submit
  <2>4. QED
    BY <1>3, <2>2, <2>3 DEF Sync, Handle
<1>4. PICK t \in Triggers : Sync(t)
  <2>1. \A i \in Items, c \in Contents, x \in BOOLEAN : ~EditBooking(i, c, x) /\ ~ToggleTask(i)
    BY DEF EditBooking, ToggleTask, Changed
  <2>2. \A m \in Natives, c \in Contents : ~EditNative(m, c)
    BY <1>2 DEF EditNative
  <2>3. \A m \in Natives : ~CompleteNative(m) /\ ~DeleteNative(m)
    BY <1>2 DEF CompleteNative, DeleteNative
  <2>4. \A c : ~Propose(c)
    BY DEF Propose
  <2>5. ~Configure /\ ~Quit
    BY DEF Configure, Quit
  <2>6. \A u \in Triggers : ~Fail(u)
    BY DEF Fail
  <2>7. \A i \in Items : ~ToggleTask(i)
    BY DEF ToggleTask, Changed
  <2>8. QED
    BY <2>1, <2>2, <2>3, <2>4, <2>5, <2>6, <2>7 DEF Next
<1>5. QED
  BY <1>3, <1>4, SyncSparesEdits

\* The server takes a completion only for the row as this sync has read it.
LEMMA RemoteSpared ==
  ASSUME IInv, Next, NEW t \in Triggers, pc[t] = "put", sync'[t] # sync[t], row' # row
  PROVE  row[sync[t].pending.item] = sync[t].rows[sync[t].pending.item]
<1>1. Running(t) /\ RunSound(t) /\ Requested(sync[t]) /\ sync[t].pending \in Request
  BY AtStep DEF Running, RunSound, IInv, Shape
<1>2. CASE Complete(t)
  <2>1. Accepts(sync[t].pending)
    BY <1>2 DEF Complete, serverVars
  <2>2. PICK i \in Items : i = sync[t].pending.item
    BY <1>1 DEF Request
  <2>3. RowRead(i, sync[t].rows[i]) /\ row[i].revision = sync[t].rows[i].revision
    BY <1>1, <2>1, <2>2 DEF RunSound, Requested, Accepts
  <2>4. QED
    BY <2>2, <2>3 DEF RowRead
<1>3. CASE UNCHANGED row \/ UNCHANGED sync
  BY <1>3
<1>4. ASSUME NEW u \in Triggers, Sync(u) PROVE (u = t /\ Complete(t)) \/ UNCHANGED row
  <2>1. Start(u) \/ Fetch(u) \/ Record(u) \/ Answer(u) \/ Finish(u) => UNCHANGED row
    BY DEF Start, Fetch, Record, Answer, Finish, serverVars
  <2>2. \A i : Handle(u, i) => UNCHANGED row
    BY DEF Handle, serverVars
  <2>3. Complete(u) => u = t
    BY <1>1, AtStep DEF Complete, Running
  <2>4. QED
    BY <1>4, <2>1, <2>2, <2>3 DEF Sync
<1>5. ASSUME ~\E u \in Triggers : Sync(u) PROVE UNCHANGED row \/ UNCHANGED sync
  <2>1. \A i \in Items, c \in Contents, x \in BOOLEAN : EditBooking(i, c, x) => UNCHANGED sync
    BY DEF EditBooking, Changed
  <2>2. \A i \in Items : ToggleTask(i) => UNCHANGED sync
    BY DEF ToggleTask, Changed
  <2>3. \A m \in Natives, c \in Contents : EditNative(m, c) => UNCHANGED sync
    BY DEF EditNative, Edited
  <2>4. \A m \in Natives : CompleteNative(m) \/ DeleteNative(m) => UNCHANGED sync
    BY DEF CompleteNative, DeleteNative, Edited
  <2>5. \A c : Propose(c) => UNCHANGED sync
    BY DEF Propose
  <2>6. Configure => UNCHANGED sync
    BY DEF Configure
  <2>7. Quit \/ (\E u \in Triggers : Fail(u)) => UNCHANGED row
    BY DEF Quit, Fail, serverVars
  <2>8. QED
    BY <1>5, <2>1, <2>2, <2>3, <2>4, <2>5, <2>6, <2>7 DEF Next
<1>6. QED
  BY <1>2, <1>3, <1>4, <1>5

\* Neither side loses what the other did not know: a sync overwrites or
\* removes a native item only as the companion left it, and a completion
\* changes only a row that is as the sync has read it.
THEOREM NeitherSideLoses == Spec => NeitherSideLost
<1>1. IInv /\ [Next]_vars =>
        [\A n \in Natives :
           (Exists(n) /\ native'[n] # native[n] /\ edits' = edits) =>
             /\ native[n].content \in written[n]
             /\ native[n].completed \in heard[n]]_vars
  BY EditsSpared
<1>2. IInv /\ [Next]_vars =>
        [\A t \in Triggers :
           (pc[t] = "put" /\ sync[t].pending.answer = Nothing /\ sync'[t] # sync[t]
              /\ row' # row) =>
             row[sync[t].pending.item] = sync[t].rows[sync[t].pending.item]]_vars
  BY RemoteSpared
<1>3. Spec => LocalEditsPreserved
  BY <1>1, AlwaysInv, PTL DEF Spec, LocalEditsPreserved
<1>4. Spec => RemoteChangeKept
  BY <1>2, AlwaysInv, PTL DEF Spec, RemoteChangeKept
<1>5. QED
  BY <1>3, <1>4 DEF NeitherSideLost
=============================================================================
