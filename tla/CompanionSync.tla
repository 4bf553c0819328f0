---------------------------- MODULE CompanionSync ----------------------------
(***************************************************************************)
(* The Mac companion (mac/Sources/TravelCompanion/main.swift): it mirrors  *)
(* the server's projection (workspace.rs, project) into Calendar and       *)
(* Reminders and sends completed reminders back.                           *)
(*                                                                         *)
(* sync runs on the main actor and gives it up only at network requests,   *)
(* so an item is handled in one piece.  Between two items, and while a     *)
(* request is under way, the household edits the trip and the user edits   *)
(* the calendar; the app may quit between any two writes, in particular    *)
(* between the native save and the save of its mapping.                    *)
(*                                                                         *)
(* A content stands for everything the fingerprint covers (title, notes,   *)
(* link, alarms, dates); completion is kept apart, as in the code.         *)
(***************************************************************************)
EXTENDS Integers, FiniteSets

CONSTANTS
  Items,        \* bookings, flight legs and tasks, of all servers
  KindOf,       \* [Items -> Kinds]
  ServerOf,     \* [Items -> Servers]
  Servers,
  Contents,
  Undatable,    \* contents without usable dates
  Triggers,     \* what starts a sync: the timer, waking up, saving settings
  Nothing, Deleted,
  MaxNative,    \* bound: native items ever created
  MaxChanges,   \* bound: no change on the servers after this revision
  MaxEdits,     \* bound: edits made in Calendar and Reminders
  MaxFaults,    \* bound: failed requests or saves and exits of the app
  MaxSettings   \* bound: times the settings are saved

Kinds     == {"event", "reminder"}
Natives   == 1 .. MaxNative
Revisions == Nat

VARIABLES
  row,         \* the projection's items as the servers hold them
  changes,     \* changes so far, the newest revision (updated_at)
  native,      \* Calendar and Reminders
  mapping,     \* UserDefaults "mappings"
  connection,  \* UserDefaults "server", "calendars", "reminders"
  proposed,    \* settings waiting for permission (configuring), or Nothing
  pc, sync,    \* the runs of sync: where they are, what they hold
  review,      \* items the last complete sync reported
  written,     \* history: contents and completions of a native item that came
  heard,       \* from the companion or were taken by the server; more than
               \* one while the app has not saved which (or quit before it could)
  edits, faults, settings

vars == <<row, changes, native, mapping, connection, proposed, pc, sync, review,
          written, heard, edits, faults, settings>>
serverVars  == <<row, changes>>
history     == <<written, heard>>
bounds      == <<edits, faults, settings>>

Row     == [content : Contents, cancelled : BOOLEAN, completed : BOOLEAN,
            revision : Revisions]
Native  == [item : Items, content : Contents, completed : BOOLEAN]
Mapping == [native : Natives, revision : Revisions, fingerprint : Contents,
            completed : BOOLEAN]
Connection == [address : Servers, kinds : SUBSET Kinds]

ASSUME CompanionAssumption ==
  /\ KindOf \in [Items -> Kinds]
  /\ ServerOf \in [Items -> Servers]
  /\ Undatable \subseteq Contents
  /\ {Nothing, Deleted} \cap (Contents \cup Items \cup Servers \cup Triggers) = {}
  /\ Nothing # Deleted /\ Nothing \notin Mapping
  /\ Nothing \notin Native /\ Deleted \notin Native
  /\ {MaxNative, MaxChanges, MaxEdits, MaxFaults, MaxSettings} \subseteq Nat

\* A mapping about to be saved, or a completion on its way to the server.
Write   == [item : Items, value : Mapping \cup {Nothing}]
Request == [item : Items, completed : BOOLEAN, revision : Revisions,
            answer : {"ok", "conflict", Nothing}]

TypeOK ==
  /\ row \in [Items -> Row \cup {Nothing}]
  /\ changes \in Revisions
  /\ native \in [Natives -> Native \cup {Nothing, Deleted}]
  /\ mapping \in [Items -> Mapping \cup {Nothing}]
  /\ connection \in Connection
  /\ proposed \in Connection \cup {Nothing}
  /\ pc \in [Triggers -> {"idle", "fetch", "items", "record", "put"}]
  /\ \A t \in Triggers : pc[t] # "idle" =>
       /\ sync[t].connection \in Connection
       /\ sync[t].rows \in [Items -> Row \cup {Nothing}]
       /\ sync[t].todo \subseteq Items
       /\ sync[t].conflicts \subseteq Items
       /\ pc[t] = "record" => sync[t].pending \in Write
       /\ pc[t] = "put" => sync[t].pending \in Request
  /\ review \subseteq Items
  /\ edits \in 0 .. MaxEdits /\ faults \in 0 .. MaxFaults
  /\ settings \in 0 .. MaxSettings

Init ==
  /\ row \in [Items -> [content : Contents \ Undatable, cancelled : {FALSE},
                        completed : {FALSE}, revision : {0}]]
  /\ changes = 0
  /\ native = [n \in Natives |-> Nothing]
  /\ mapping = [i \in Items |-> Nothing]
  /\ connection \in [address : Servers, kinds : {Kinds}]
  /\ proposed = Nothing
  /\ pc = [t \in Triggers |-> "idle"]
  /\ sync = [t \in Triggers |-> Nothing]
  /\ review = {}
  /\ written = [n \in Natives |-> {}]
  /\ heard = [n \in Natives |-> {}]
  /\ edits = 0 /\ faults = 0 /\ settings = 0

-----------------------------------------------------------------------------
(* The household and the user.                                             *)

Changed(i, new) ==
  /\ changes < MaxChanges
  /\ changes' = changes + 1
  /\ row' = [row EXCEPT ![i] = [new EXCEPT !.revision = changes + 1]]
  /\ UNCHANGED <<native, history, bounds, mapping, connection, proposed,
                 pc, sync, review>>

\* edit_booking: dates, title and status of a booking and its legs
EditBooking(i, content, cancelled) ==
  /\ KindOf[i] = "event"
  /\ Changed(i, [row[i] EXCEPT !.content = content, !.cancelled = cancelled])

\* toggle_task
ToggleTask(i) ==
  /\ KindOf[i] = "reminder"
  /\ Changed(i, [row[i] EXCEPT !.completed = ~@])

Exists(n) == native[n] \notin {Nothing, Deleted}

Edited(n, value) ==
  /\ Exists(n)
  /\ edits < MaxEdits
  /\ edits' = edits + 1
  /\ native' = [native EXCEPT ![n] = value]
  /\ UNCHANGED <<serverVars, history, mapping, connection, proposed, pc, sync,
                 review, faults, settings>>

EditNative(n, content) == Edited(n, [native[n] EXCEPT !.content = content])

CompleteNative(n) ==
  /\ Exists(n)
  /\ KindOf[native[n].item] = "reminder"
  /\ Edited(n, [native[n] EXCEPT !.completed = ~@])

DeleteNative(n) == Edited(n, Deleted)

-----------------------------------------------------------------------------
(* Settings.                                                               *)

Syncing == \E t \in Triggers : pc[t] # "idle"

\* Mutant: a sync that is still running does not hold the settings back.
ProposableAnytime(c) ==
  /\ proposed = Nothing
  /\ c.address # connection.address => \A i \in Items : mapping[i] = Nothing

\* enable's guards: no sync under way, and no other server while items of
\* this one are mapped.
Proposable(c) ==
  /\ proposed = Nothing /\ ~Syncing
  /\ c.address # connection.address => \A i \in Items : mapping[i] = Nothing

Propose(c) ==
  /\ Proposable(c)
  /\ settings < MaxSettings
  /\ settings' = settings + 1
  /\ proposed' = c
  /\ UNCHANGED <<serverVars, native, history, mapping, connection, pc, sync,
                 review, edits, faults>>

\* macOS grants some of what was asked, or the request fails.
Configure ==
  /\ proposed # Nothing
  /\ proposed' = Nothing
  /\ \/ UNCHANGED connection
     \/ \E granted \in SUBSET proposed.kinds :
          connection' = [proposed EXCEPT !.kinds = granted]
  /\ UNCHANGED <<serverVars, native, history, bounds, mapping, pc, sync,
                 review>>

-----------------------------------------------------------------------------
(* sync                                                                    *)

Startable(t) == ~Syncing /\ proposed = Nothing /\ connection.kinds # {}

Start(t) ==
  /\ Startable(t)
  /\ pc' = [pc EXCEPT ![t] = "fetch"]
  /\ sync' = [sync EXCEPT ![t] =
       [connection |-> connection, rows |-> [i \in Items |-> Nothing],
        todo |-> {}, conflicts |-> {}, pending |-> Nothing]]
  /\ UNCHANGED <<serverVars, native, history, bounds, mapping, connection,
                 proposed, review>>

Fetch(t) ==
  LET rows == [i \in Items |->
        IF ServerOf[i] = sync[t].connection.address THEN row[i] ELSE Nothing]
  IN  /\ pc[t] = "fetch"
      /\ pc' = [pc EXCEPT ![t] = "items"]
      /\ sync' = [sync EXCEPT ![t].rows = rows,
                              ![t].todo = {i \in Items : rows[i] # Nothing}]
      /\ UNCHANGED <<serverVars, native, history, bounds, mapping,
                     connection, proposed, review>>

Existing(i) == mapping[i] # Nothing /\ Exists(mapping[i].native)

NativeOf(i) == native[mapping[i].native]

\* A completion both sides may have changed, or a local edit of the content.
Conflict(i, item) ==
  /\ Existing(i)
  /\ \/ /\ KindOf[i] = "reminder"
        /\ mapping[i].revision # item.revision
        /\ NativeOf(i).completed # mapping[i].completed
     \/ NativeOf(i).content # mapping[i].fingerprint

\* Only a reminder completed or reopened here, on a row unchanged there.
Submits(i, item) ==
  /\ Existing(i) /\ KindOf[i] = "reminder"
  /\ mapping[i].revision = item.revision
  /\ NativeOf(i).completed # item.completed

\* Mutant: whatever was mirrored once at this revision still is.
UpToDateByRevision(i, item) ==
  mapping[i] # Nothing /\ mapping[i].revision = item.revision

UpToDate(i, item) == Existing(i) /\ mapping[i].revision = item.revision

Datable(i, item) == KindOf[i] = "event" => item.content \notin Undatable

\* Mutant: the row is reported in place of its id.
ReportedRow(s, i) == s.conflicts \cup {s.rows[i]}

Reported(s, i) == s.conflicts \cup {i}

\* The item needs nothing, or nothing can be done for it.
Pass(t, i) ==
  LET item == sync[t].rows[i]
      s    == [sync[t] EXCEPT !.todo = @ \ {i}]
      conflict == [s EXCEPT !.conflicts = Reported(s, i)]
      wanted == KindOf[i] \in sync[t].connection.kinds
      active == wanted /\ ~Conflict(i, item) /\ ~item.cancelled
  IN  /\ \/ ~wanted /\ sync' = [sync EXCEPT ![t] = s]
         \/ wanted /\ Conflict(i, item) /\ sync' = [sync EXCEPT ![t] = conflict]
         \/ /\ active /\ ~Submits(i, item) /\ UpToDate(i, item)
            /\ sync' = [sync EXCEPT ![t] = s]
         \/ /\ active /\ ~Submits(i, item) /\ ~UpToDate(i, item) /\ ~Datable(i, item)
            /\ sync' = [sync EXCEPT ![t] = conflict]
      /\ UNCHANGED <<pc, native, history>>

\* A cancelled item leaves the calendar; the mapping is dropped next.
RemoveNative(t, i) ==
  /\ KindOf[i] \in sync[t].connection.kinds
  /\ sync[t].rows[i].cancelled
  /\ ~Conflict(i, sync[t].rows[i])
  /\ native' = IF Existing(i)
               THEN [native EXCEPT ![mapping[i].native] = Deleted] ELSE native
  /\ pc' = [pc EXCEPT ![t] = "record"]
  /\ sync' = [sync EXCEPT ![t].todo = @ \ {i},
                          ![t].pending = [item |-> i, value |-> Nothing]]
  /\ UNCHANGED <<history>>

FreshNative == CHOOSE n \in Natives :
  native[n] = Nothing /\ \A m \in Natives : m < n => native[m] # Nothing

\* The native item is created or overwritten; its mapping is saved next.
SaveNative(t, i) ==
  LET item == sync[t].rows[i]
      n == IF Existing(i) THEN mapping[i].native ELSE FreshNative
  IN  /\ KindOf[i] \in sync[t].connection.kinds
      /\ ~Conflict(i, item) /\ ~item.cancelled /\ ~Submits(i, item)
      /\ ~UpToDate(i, item) /\ Datable(i, item)
      /\ Existing(i) \/ \E m \in Natives : native[m] = Nothing
      /\ native' = [native EXCEPT ![n] =
           [item |-> i, content |-> item.content, completed |-> item.completed]]
      /\ written' = [written EXCEPT ![n] = @ \cup {item.content}]
      /\ heard' = [heard EXCEPT ![n] = @ \cup {item.completed}]
      /\ pc' = [pc EXCEPT ![t] = "record"]
      /\ sync' = [sync EXCEPT ![t].todo = @ \ {i},
                              ![t].pending = [item |-> i, value |->
           [native |-> n, revision |-> item.revision,
            fingerprint |-> item.content, completed |-> item.completed]]]

\* The completion is sent, conditional on the revision of the projection.
Submit(t, i) ==
  LET item == sync[t].rows[i]
  IN  /\ KindOf[i] \in sync[t].connection.kinds
      /\ ~Conflict(i, item) /\ ~item.cancelled /\ Submits(i, item)
      /\ pc' = [pc EXCEPT ![t] = "put"]
      /\ sync' = [sync EXCEPT ![t].todo = @ \ {i},
                              ![t].pending =
           [item |-> i, completed |-> NativeOf(i).completed,
            revision |-> item.revision, answer |-> Nothing]]
      /\ UNCHANGED <<native, history>>

Handle(t, i) ==
  /\ pc[t] = "items"
  /\ i \in sync[t].todo
  /\ Pass(t, i) \/ RemoveNative(t, i) \/ SaveNative(t, i) \/ Submit(t, i)
  /\ UNCHANGED <<serverVars, bounds, mapping, connection, proposed, review>>

Record(t) ==
  LET write == sync[t].pending
  IN  /\ pc[t] = "record"
      /\ mapping' = [mapping EXCEPT ![write.item] = write.value]
      /\ written' = [n \in Natives |->
           IF write.value # Nothing /\ write.value.native = n
           THEN {write.value.fingerprint} ELSE written[n]]
      /\ heard' = [n \in Natives |->
           IF write.value # Nothing /\ write.value.native = n
           THEN {write.value.completed} ELSE heard[n]]
      /\ pc' = [pc EXCEPT ![t] = "items"]
      /\ sync' = [sync EXCEPT ![t].pending = Nothing]
      /\ UNCHANGED <<serverVars, native, bounds, connection, proposed, review>>

\* Mutant: the server takes the completion whatever became of the row.
AcceptsAnyway(r) == TRUE

Accepts(r) == row[r.item].revision = r.revision

\* workspace.rs, complete: the server compares and updates in one statement.
Complete(t) ==
  LET r == sync[t].pending
  IN  /\ pc[t] = "put" /\ r.answer = Nothing
      /\ \/ /\ Accepts(r)
            /\ changes' = changes + 1
            /\ row' = [row EXCEPT ![r.item].completed = r.completed,
                                  ![r.item].revision = changes + 1]
            /\ sync' = [sync EXCEPT ![t].pending.answer = "ok"]
            /\ heard' = IF mapping[r.item] = Nothing THEN heard
                        ELSE [heard EXCEPT ![mapping[r.item].native] = @ \cup {r.completed}]
         \/ /\ ~Accepts(r)
            /\ sync' = [sync EXCEPT ![t].pending.answer = "conflict"]
            /\ UNCHANGED <<serverVars, heard>>
      /\ UNCHANGED <<native, written, bounds, mapping, connection, proposed, pc,
                     review>>

\* Mutant: what the reminder says by now is acknowledged.
AcknowledgedNow(r) ==
  IF Existing(r.item) THEN NativeOf(r.item).completed ELSE r.completed

\* The submitted value, not what the reminder says by now.
Acknowledged(r) == r.completed

Answer(t) ==
  LET r == sync[t].pending
      s == [sync[t] EXCEPT !.pending = Nothing]
  IN  /\ pc[t] = "put" /\ r.answer # Nothing
      /\ pc' = [pc EXCEPT ![t] = "items"]
      /\ \/ /\ r.answer = "ok"
            /\ sync' = [sync EXCEPT ![t] = s]
            /\ mapping' = [mapping EXCEPT ![r.item] =
                 IF @ = Nothing THEN Nothing ELSE [@ EXCEPT !.completed = Acknowledged(r)]]
            /\ heard' = IF mapping[r.item] = Nothing THEN heard
                        ELSE [heard EXCEPT ![mapping[r.item].native] = {r.completed}]
         \/ /\ r.answer = "conflict"
            /\ sync' = [sync EXCEPT ![t] = [s EXCEPT !.conflicts = Reported(s, r.item)]]
            /\ UNCHANGED <<mapping, heard>>
      /\ UNCHANGED <<serverVars, native, written, bounds, connection, proposed,
                     review>>

Finish(t) ==
  /\ pc[t] = "items" /\ sync[t].todo = {}
  /\ pc' = [pc EXCEPT ![t] = "idle"]
  /\ sync' = [sync EXCEPT ![t] = Nothing]
  /\ review' = sync[t].conflicts
  /\ UNCHANGED <<serverVars, native, history, bounds, mapping, connection,
                 proposed>>

\* A request or a native save fails: the sync ends, without a report.
Fail(t) ==
  /\ pc[t] \in {"fetch", "items", "put"}
  /\ faults < MaxFaults
  /\ faults' = faults + 1
  /\ pc' = [pc EXCEPT ![t] = "idle"]
  /\ sync' = [sync EXCEPT ![t] = Nothing]
  /\ UNCHANGED <<serverVars, native, history, mapping, connection, proposed, review,
                 edits, settings>>

\* The app quits anywhere, and is opened again.
Quit ==
  /\ Syncing \/ proposed # Nothing
  /\ faults < MaxFaults
  /\ faults' = faults + 1
  /\ pc' = [t \in Triggers |-> "idle"]
  /\ sync' = [t \in Triggers |-> Nothing]
  /\ proposed' = Nothing
  /\ UNCHANGED <<serverVars, native, history, mapping, connection, review, edits,
                 settings>>

Sync(t) ==
  \/ Start(t) \/ Fetch(t)
  \/ pc[t] = "items" /\ \E i \in sync[t].todo : Handle(t, i)
  \/ Record(t) \/ Complete(t) \/ Answer(t) \/ Finish(t)

Next ==
  \/ \E i \in Items, c \in Contents, x \in BOOLEAN : EditBooking(i, c, x)
  \/ \E i \in Items : ToggleTask(i)
  \/ \E n \in Natives, c \in Contents : EditNative(n, c)
  \/ \E n \in Natives : CompleteNative(n) \/ DeleteNative(n)
  \/ \E a \in Servers, k \in SUBSET Kinds : Propose([address |-> a, kinds |-> k])
  \/ Configure
  \/ \E t \in Triggers : Sync(t) \/ Fail(t)
  \/ Quit

Spec == Init /\ [][Next]_vars

\* The timer starts a sync every minute and a sync goes on; permissions are
\* answered.  The household and the user owe nothing.
FairSpec == Spec /\ WF_vars(\E t \in Triggers : Sync(t)) /\ WF_vars(Configure)

-----------------------------------------------------------------------------
(* What must hold.                                                         *)

\* main.swift:301, "local edits were preserved": a sync overwrites or removes
\* a native item only as the companion left it, and a completion only if the
\* server had it.  (If the app quits or loses the answer before it has saved
\* what it wrote, it cannot tell an edit that restores the older value.)
LocalEditsPreserved ==
  [][\A n \in Natives :
       (Exists(n) /\ native'[n] # native[n] /\ edits' = edits) =>
         /\ native[n].content \in written[n]
         /\ native[n].completed \in heard[n]]_vars

\* Overlapping triggers never mirror one item twice; only quitting between
\* the native save and the save of the mapping can.
NoDuplicates ==
  \A i \in Items :
    Cardinality({n \in Natives : Exists(n) /\ native[n].item = i}) <= 1 + faults

\* main.swift:189: the mapped items are those of the paired server, also when
\* settings are saved while a sync waits for the network.
PairedOnly ==
  \A i \in Items : mapping[i] # Nothing => ServerOf[i] = connection.address

\* What a mirror is: one native item of an item of the paired server.
MirroredOnce == NoDuplicates /\ PairedOnly

\* A completion that arrives late changes only the row this sync has read,
\* never one the household has changed since.
RemoteChangeKept ==
  [][\A t \in Triggers :
       (pc[t] = "put" /\ sync[t].pending.answer = Nothing /\ sync'[t] # sync[t]
          /\ row' # row) =>
         row[sync[t].pending.item] = sync[t].rows[sync[t].pending.item]]_vars

\* Neither side loses what the other did not know: local edits are preserved
\* and remote changes kept, whatever overlaps (main.swift sync).
NeitherSideLost == LocalEditsPreserved /\ RemoteChangeKept

Shown(i) == ServerOf[i] = connection.address /\ KindOf[i] \in connection.kinds

Mirrored(i) ==
  IF row[i].cancelled THEN mapping[i] = Nothing
  ELSE /\ Existing(i)
       /\ NativeOf(i).content = row[i].content
       /\ NativeOf(i).completed = row[i].completed

\* No divergence stays silent: once people stop, every item of the projection
\* is mirrored or in the report of the last sync.
EventuallyMirroredOrReported ==
  <>[](\A i \in Items : Shown(i) => Mirrored(i) \/ i \in review)
=============================================================================
