---------------------------- MODULE LearnedParsers ----------------------------
(***************************************************************************)
(* Parsers proposed by a model of the owner's choice.  A receipt the rules *)
(* were not certain of is tried against the versions in force; if none     *)
(* fits, one proposal is bought within the day's budget, replayed against  *)
(* its own example and those of the version it replaces, and put in force; *)
(* then the receipt is tried again.  Two services may share the database.  *)
(***************************************************************************)
EXTENDS Naturals, FiniteSets, TravelParser

CONSTANTS
  Layouts,      \* formats of mail: sender, subject and literal text
  Packages,     \* the proposals a model may make
  Package,      \* name and formats a package reads, and whether it passes validate
  Readers,      \* receipts being read
  Services,     \* processes
  DailyLimit,   \* largest daily_call_limit
  MaxDays       \* bound on midnights

(* Its fields, patterns and limits are in valid and reads.                 *)
ParserPackage == [name : STRING, reads : SUBSET Layouts, valid : BOOLEAN]

Version == [fixtures : SUBSET Layouts, active : BOOLEAN]

ASSUME LearningAssumption ==
  /\ Package \in [Packages -> ParserPackage]
  /\ {DailyLimit, MaxDays} \subseteq Nat /\ None \notin Version

VARIABLES
  versions,     \* learned_parsers: examples, and whether in force
  limit,        \* intelligence.json: daily_call_limit, or None
  jobs,         \* learning_jobs of today
  days,
  home,         \* the process a receipt is read in
  turn,         \* lock "intelligence-global" of each process
  reading,      \* each receipt on its way
  shown,        \* history: formats each package was replayed on
  lessons,      \* history: examples behind the version in force of each name
  crossed       \* history: names two processes promoted at once

learning_vars == <<versions, limit, jobs, days, home, turn, reading, shown, lessons, crossed>>
log_vars == <<shown, lessons, crossed>>

Names == {Package[p].name : p \in Packages}
Unread == [step |-> "idle", layout |-> None, by |-> None, decision |-> "none", budget |-> 0,
           proposal |-> None, examples |-> {}, replaces |-> {}]

InForce(name) == {p \in Packages : versions[p] # None /\ versions[p].active /\ Package[p].name = name}
Fixtures(ps) == UNION {versions[p].fixtures : p \in ps}
Standing(name) == {<<p, versions[p].fixtures>> : p \in InForce(name)}

-----------------------------------------------------------------------------
(* A package reads a format if every field matches exactly once; it is     *)
(* used on it only if an example had the very layout; and only if no other *)
(* version fits as well.                                                   *)
validate(p) == Package[p].valid
extract(p, layout) == validate(p) /\ layout \in Package[p].reads
demonstrated(p, layout) == layout \in versions[p].fixtures
known(layout) ==
  LET candidates == {p \in Packages : /\ versions[p] # None /\ versions[p].active
                                      /\ demonstrated(p, layout) /\ extract(p, layout)}
  IN IF Cardinality(candidates) = 1 THEN candidates ELSE {}

-----------------------------------------------------------------------------
Configuration == 0..DailyLimit \cup {None}

LearningTypeOK ==
  /\ versions \in [Packages -> Version \cup {None}]
  /\ limit \in Configuration /\ jobs \in Nat /\ days \in 0..MaxDays
  /\ home \in [Readers -> Services] /\ turn \in [Services -> Readers \cup {None}]
  /\ \A r \in Readers : reading[r].layout \in Layouts \cup {None}
       /\ reading[r].step \in {"idle", "known", "attempt", "budget", "invoke", "replay", "swap", "again", "read"}
  /\ shown \in [Packages -> SUBSET Layouts] /\ lessons \in [Names -> SUBSET Layouts] /\ crossed \subseteq Names

LearningInit ==
  /\ versions = [p \in Packages |-> None] /\ limit \in {None, DailyLimit} /\ jobs = 0 /\ days = 0
  /\ home \in [Readers -> Services] /\ turn = [s \in Services |-> None]
  /\ reading = [r \in Readers |-> Unread]
  /\ shown = [p \in Packages |-> {}] /\ lessons = [n \in Names |-> {}] /\ crossed = {}

-----------------------------------------------------------------------------
Stands(r, step) == reading[r].step = step
Proceed(r, step) == reading' = [reading EXCEPT ![r].step = step]

(* A receipt the rules did not accept.                                     *)
Uncertain(r) ==
  /\ Stands(r, "idle")
  /\ \E layout \in Layouts : reading' = [reading EXCEPT ![r] = [Unread EXCEPT !.step = "known", !.layout = layout]]
  /\ UNCHANGED <<versions, limit, jobs, days, home, turn, log_vars>>

(* A learned reading always waits for a person.                            *)
Learned(r) ==
  /\ reading[r].step \in {"known", "again"} /\ known(reading[r].layout) # {}
  /\ \E p \in known(reading[r].layout) :
       reading' = [reading EXCEPT ![r].step = "read", ![r].by = p, ![r].decision = "quarantined"]
  /\ UNCHANGED <<versions, limit, jobs, days, home, turn, log_vars>>

Unlearned(r) ==
  /\ reading[r].step \in {"known", "again"} /\ known(reading[r].layout) = {}
  /\ IF Stands(r, "known") /\ limit # None
       THEN reading' = [reading EXCEPT ![r].step = "attempt", ![r].budget = limit]
       ELSE Proceed(r, "read")
  /\ UNCHANGED <<versions, limit, jobs, days, home, turn, log_vars>>

Persisted(r) ==
  /\ Stands(r, "read") /\ reading' = [reading EXCEPT ![r] = Unread]
  /\ UNCHANGED <<versions, limit, jobs, days, home, turn, log_vars>>

(* One proposal at a time in a process; those that waited do not look      *)
(* again before they ask.                                                  *)
attempt(r) ==
  /\ Stands(r, "attempt") /\ turn[home[r]] = None /\ turn' = [turn EXCEPT ![home[r]] = r] /\ Proceed(r, "budget")
  /\ UNCHANGED <<versions, limit, jobs, days, home, log_vars>>

(* Counted in one immediate transaction, before the model is called.       *)
CountJob(r) ==
  /\ Stands(r, "budget")
  /\ IF jobs < reading[r].budget
       THEN jobs' = jobs + 1 /\ Proceed(r, "invoke") /\ UNCHANGED turn
       ELSE Proceed(r, "again") /\ turn' = [turn EXCEPT ![home[r]] = None] /\ UNCHANGED jobs
  /\ UNCHANGED <<versions, limit, days, home, log_vars>>

(* A proposal for this sender, or none: no answer in time, an abstention.  *)
invoke(r) ==
  /\ Stands(r, "invoke")
  /\ \/ \E p \in Packages : reading' = [reading EXCEPT ![r].step = "replay", ![r].proposal = p]
        /\ UNCHANGED turn
     \/ Proceed(r, "again") /\ turn' = [turn EXCEPT ![home[r]] = None]
  /\ UNCHANGED <<versions, limit, jobs, days, home, log_vars>>

(* promote, first half: the new example and those of the version in force  *)
(* must come out as they did.                                              *)
Replays(p, layout) == extract(p, layout) /\ \A f \in Fixtures(InForce(Package[p].name)) : extract(p, f)

promote(r) ==
  /\ Stands(r, "replay")
  /\ LET p == reading[r].proposal
         old == InForce(Package[p].name)
     IN IF Replays(p, reading[r].layout)
          THEN /\ reading' = [reading EXCEPT ![r].step = "swap", ![r].replaces = Standing(Package[p].name),
                                             ![r].examples = {reading[r].layout} \cup Fixtures(old)]
               /\ UNCHANGED turn
          ELSE Proceed(r, "again") /\ turn' = [turn EXCEPT ![home[r]] = None]
  /\ UNCHANGED <<versions, limit, jobs, days, home, log_vars>>

(* Second half, one transaction: the name's versions retire, this one is   *)
(* in force with these examples, also if it was there before.              *)
Swapped(p, examples) ==
  [q \in Packages |->
     CASE q = p -> [fixtures |-> examples, active |-> TRUE]
       [] q # p /\ versions[q] # None /\ Package[q].name = Package[p].name -> [versions[q] EXCEPT !.active = FALSE]
       [] OTHER -> versions[q]]

Swap(r) ==
  /\ Stands(r, "swap")
  /\ LET p == reading[r].proposal
         name == Package[p].name
     IN /\ versions' = Swapped(p, reading[r].examples)
        /\ shown' = [shown EXCEPT ![p] = @ \cup reading[r].examples]
        /\ lessons' = [lessons EXCEPT ![name] = @ \cup {reading[r].layout}]
        /\ crossed' = IF Standing(name) = reading[r].replaces THEN crossed ELSE crossed \cup {name}
  /\ Proceed(r, "again") /\ turn' = [turn EXCEPT ![home[r]] = None]
  /\ UNCHANGED <<limit, jobs, days, home>>

(* The owner brings an earlier version back; its own examples are replayed.*)
(* The database lock keeps it out of a promotion of its own process.       *)
rollback(p) ==
  /\ versions[p] # None /\ \A f \in versions[p].fixtures : extract(p, f)
  /\ \E s \in Services : \A r \in Readers : Stands(r, "swap") => home[r] # s
  /\ versions' = Swapped(p, versions[p].fixtures)
  /\ lessons' = [lessons EXCEPT ![Package[p].name] = versions[p].fixtures]
  /\ crossed' = crossed \ {Package[p].name}
  /\ UNCHANGED <<limit, jobs, days, home, turn, reading, shown>>

put_configuration ==
  /\ \E l \in 0..DailyLimit : limit # l /\ limit' = l
  /\ UNCHANGED <<versions, jobs, days, home, turn, reading, log_vars>>

Midnight ==
  /\ days < MaxDays /\ days' = days + 1 /\ jobs' = 0
  /\ UNCHANGED <<versions, limit, home, turn, reading, log_vars>>

(* A process stops: its receipts are read again later; a job it counted    *)
(* stays counted.                                                          *)
ServiceStops(s) ==
  /\ \E r \in Readers : home[r] = s /\ ~Stands(r, "idle")
  /\ reading' = [r \in Readers |-> IF home[r] = s THEN Unread ELSE reading[r]]
  /\ turn' = [turn EXCEPT ![s] = None]
  /\ UNCHANGED <<versions, limit, jobs, days, home, log_vars>>

LearningNext ==
  \/ \E r \in Readers : \/ Uncertain(r) \/ Learned(r) \/ Unlearned(r) \/ Persisted(r) \/ attempt(r)
                        \/ CountJob(r) \/ invoke(r) \/ promote(r) \/ Swap(r)
  \/ \E p \in Packages : rollback(p)
  \/ \E s \in Services : ServiceStops(s)
  \/ put_configuration \/ Midnight

LearningSpec == LearningInit /\ [][LearningNext]_learning_vars

-----------------------------------------------------------------------------
(* What was learned is used only where it was shown, by one version of a   *)
(* name, and waits for a person; the version in force reads every example  *)
(* its predecessors were taught, unless two processes replaced it at once; *)
(* and a day never buys more than its budget, however processes stop and   *)
(* receipts wait for each other (learning.rs promote, known, rollback;     *)
(* intelligence.rs attempt).                                               *)
LearnedUnderSupervision ==
  /\ \A r \in Readers : reading[r].by # None =>
       reading[r].layout \in shown[reading[r].by] /\ reading[r].decision = "quarantined"
  /\ \A n \in Names : /\ Cardinality(InForce(n)) <= 1
                      /\ n \notin crossed => \A p \in InForce(n) : \A f \in lessons[n] : extract(p, f) /\ demonstrated(p, f)
  /\ jobs <= DailyLimit

(* Nothing enters the itinerary on its own but a complete machine-readable *)
(* reservation, and nothing learned is forgotten or goes unsupervised      *)
(* (travel_parser.rs, learning.rs, intelligence.rs).                       *)
ReadHonestly == AcceptedOnEvidence /\ LearnedUnderSupervision
=============================================================================
