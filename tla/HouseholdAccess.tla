--------------------------- MODULE HouseholdAccess ---------------------------
(***************************************************************************)
(* Who may do what on the family's trips.  The owner signs in with the     *)
(* service token, a browser by a short-lived handoff code, a member by an  *)
(* invitation link that is spent on first use, a guest by a share link     *)
(* that names one trip.  A protected request is resolved once, under the   *)
(* database lock (authorize), and handled later under the same lock taken  *)
(* again: invitations, revocations and other requests come in between.     *)
(* `via' records where a session came from.                                *)
(***************************************************************************)
EXTENDS Naturals, FiniteSets, FiniteSetsExt, FamilyBase

CONSTANTS
  Members, Tasks, Sessions, Codes, Shares, Requests,
  Owner,        \* the principal that authorize calls None
  Scopes,       \* the sets of trips an invitation may name
  SessionLife, HandoffLife, MaxHandoffs,
  MaxClock, MaxChanges

VARIABLES
  enforced,     \* a token is configured (AuthConfig::is_enforced)
  clock,
  members,      \* household_members
  sessions,     \* household_sessions
  handoffs,     \* live codes, in memory only
  minted,       \* codes handed out so far
  shares,       \* travel_share_links
  trips,        \* version (updated_at) of each trip
  tasks,        \* travel_tasks
  requests      \* principal of each writing request authorised and not yet handled

access_vars == <<enforced, clock, members, sessions, handoffs, minted, shares, trips, tasks, requests>>

Roles == {"editor", "viewer"}
MemberRow == [role : Roles, trips : SUBSET Trips, token : BOOLEAN, revoked : BOOLEAN]
SessionRow == [member : Members \cup {Owner}, expires : Nat, via : Members \cup Codes \cup {Owner}]
ShareRow == [trip : Trips, edit : BOOLEAN, expires : Nat, revoked : BOOLEAN]
TaskRow == [trip : Trips, done : BOOLEAN, version : 1..MaxChanges + 1]

ASSUME AccessAssumption ==
  /\ Owner \notin Members /\ None \notin Members \cup {Owner}
  /\ Codes \cap (Members \cup {Owner}) = {} /\ None \notin MemberRow
  /\ {SessionLife, HandoffLife, MaxHandoffs, MaxChanges} \subseteq Nat \ {0}
  /\ MaxClock \in Nat /\ Scopes \subseteq SUBSET Trips

AccessTypeOK ==
  /\ enforced \in BOOLEAN /\ clock \in 0..MaxClock
  /\ members \in [Members -> MemberRow \cup {None}]
  /\ sessions \in [Sessions -> SessionRow \cup {None}]
  /\ handoffs \subseteq [code : Codes, expires : Nat] /\ minted \subseteq Codes
  /\ \A h \in handoffs : h.code \in minted
  /\ Cardinality(handoffs) <= MaxHandoffs
  /\ shares \in [Shares -> ShareRow \cup {None}]
  /\ trips \in [Trips -> 1..MaxChanges + 1]
  /\ tasks \in [Tasks -> TaskRow \cup {None}]
  /\ requests \in [Requests -> Members \cup {Owner, None}]

AccessInit ==
  /\ enforced \in BOOLEAN /\ clock = 0
  /\ members = [m \in Members |-> None]
  /\ sessions = [s \in Sessions |-> None]
  /\ handoffs = {} /\ minted = {}
  /\ shares = [k \in Shares |-> None]
  /\ trips = [t \in Trips |-> 1]
  /\ tasks = [k \in Tasks |-> None]
  /\ requests = [r \in Requests |-> None]

-----------------------------------------------------------------------------
(* Signing in.                                                             *)

Invited(m) == members[m] # None
Enrolable(m) == Invited(m) /\ members[m].token /\ ~members[m].revoked

(* Mutant: an enrolment leaves its token in force.                         *)
ConsumedNever(m) == members

(* The enrolment token is replaced in the transaction that inserts the     *)
(* session.                                                                *)
Consumed(m) == [members EXCEPT ![m].token = FALSE]

session(s) ==
  /\ sessions[s] = None
  /\ \/ /\ enforced
        /\ sessions' = [sessions EXCEPT ![s] = [member |-> Owner, expires |-> clock + SessionLife, via |-> Owner]]
        /\ UNCHANGED members
     \/ \E m \in Members :
          /\ Enrolable(m)
          /\ sessions' = [sessions EXCEPT ![s] = [member |-> m, expires |-> clock + SessionLife, via |-> m]]
          /\ members' = Consumed(m)
  /\ UNCHANGED <<enforced, clock, handoffs, minted, shares, trips, tasks, requests>>

Unexpired == {h \in handoffs : h.expires > clock}

(* Only the bearer of the service token obtains a code; expired codes are  *)
(* dropped first, also when the limit then refuses the new one.            *)
issue(c) ==
  /\ enforced /\ c \notin minted
  /\ IF Cardinality(Unexpired) >= MaxHandoffs
       THEN handoffs' = Unexpired /\ UNCHANGED minted
       ELSE /\ handoffs' = Unexpired \cup {[code |-> c, expires |-> clock + HandoffLife]}
            /\ minted' = minted \cup {c}
  /\ UNCHANGED <<enforced, clock, members, sessions, shares, trips, tasks, requests>>

(* The code is gone before the session is written: a write that fails      *)
(* costs the code, and an expired code is removed and refused.             *)
Removed(h) == handoffs \ {h}

consume(s) ==
  /\ sessions[s] = None
  /\ \E h \in handoffs :
       /\ handoffs' = Removed(h)
       /\ \/ UNCHANGED sessions
          \/ /\ h.expires > clock
             /\ sessions' = [sessions EXCEPT ![s] = [member |-> Owner, expires |-> clock + SessionLife,
                  via |-> h.code]]
  /\ UNCHANGED <<enforced, clock, members, minted, shares, trips, tasks, requests>>

-----------------------------------------------------------------------------
(* Resolving a request: the principals authorize can return for what the   *)
(* request carries.                                                        *)

(* Mutant: a session counts without asking for its member again.           *)
ByOldSession(s) ==
  IF sessions[s] = None \/ sessions[s].expires <= clock THEN None ELSE sessions[s].member

BySession(s) ==
  IF sessions[s] = None \/ sessions[s].expires <= clock THEN None
  ELSE LET m == sessions[s].member
       IN IF m = Owner THEN Owner
          ELSE IF members[m].revoked THEN None ELSE m

ByBearer(m) == IF Enrolable(m) THEN m ELSE None

(* An open instance answers local names only.                              *)
local_host_boundary(remote) == enforced \/ ~remote

(* A write that does not present a bearer must echo the CSRF cookie from   *)
(* the same origin.                                                        *)
require_csrf(bearer, echoed) == bearer \/ echoed

(* The principals a request may be resolved to, by what it presents.       *)
ByCredential(bearer) ==
  IF bearer THEN {ByBearer(m) : m \in Members} \cup (IF enforced THEN {Owner} ELSE {})
            ELSE {BySession(s) : s \in Sessions} \cup (IF enforced THEN {} ELSE {Owner})

(* Members reach the handlers under household/ only, which are the ones    *)
(* below with ByMember; the role and the trips the handler is given never  *)
(* change after the invitation, so they are read from the row.             *)
authorize(r) ==
  /\ requests[r] = None
  /\ \E bearer, echoed, remote \in BOOLEAN :
       /\ local_host_boundary(remote) /\ require_csrf(bearer, echoed)
       /\ \E who \in ByCredential(bearer) \ {None} : requests' = [requests EXCEPT ![r] = who]
  /\ UNCHANGED <<enforced, clock, members, sessions, handoffs, minted, shares, trips, tasks>>

Handled(r) == requests' = [requests EXCEPT ![r] = None]
ByOwner(r) == requests[r] = Owner
ByMember(r) == requests[r] \in Members /\ members[requests[r]].role = "editor"

-----------------------------------------------------------------------------
(* Owner handlers, and the rows they write.                                *)

create_travel_task(k, t) == [tasks EXCEPT ![k] = [trip |-> t, done |-> FALSE, version |-> 1]]
create_travel_share_link(k, link) == [shares EXCEPT ![k] = link]
revoke_travel_share_link(k) == [shares EXCEPT ![k].revoked = TRUE]

invite(r, m) ==
  /\ ByOwner(r) /\ ~Invited(m)
  /\ \E role \in Roles, scope \in Scopes :
       members' = [members EXCEPT ![m] = [role |-> role, trips |-> scope, token |-> TRUE, revoked |-> FALSE]]
  /\ Handled(r)
  /\ UNCHANGED <<enforced, clock, sessions, handoffs, minted, shares, trips, tasks>>

revoke(r, m) ==
  /\ ByOwner(r) /\ Invited(m)
  /\ members' = [members EXCEPT ![m].revoked = TRUE]
  /\ Handled(r)
  /\ UNCHANGED <<enforced, clock, sessions, handoffs, minted, shares, trips, tasks>>

create_task(r, k, t) ==
  /\ ByOwner(r) /\ tasks[k] = None
  /\ tasks' = create_travel_task(k, t)
  /\ Handled(r)
  /\ UNCHANGED <<enforced, clock, members, sessions, handoffs, minted, shares, trips>>

create_share(r, k, t) ==
  /\ ByOwner(r) /\ shares[k] = None
  /\ \E edit \in BOOLEAN, expires \in {clock + 1} :
       shares' = create_travel_share_link(k, [trip |-> t, edit |-> edit, expires |-> expires, revoked |-> FALSE])
  /\ Handled(r)
  /\ UNCHANGED <<enforced, clock, members, sessions, handoffs, minted, trips, tasks>>

revoke_share(r, k) ==
  /\ ByOwner(r) /\ shares[k] # None
  /\ shares' = revoke_travel_share_link(k)
  /\ Handled(r)
  /\ UNCHANGED <<enforced, clock, members, sessions, handoffs, minted, trips, tasks>>

-----------------------------------------------------------------------------
(* Trips and tasks: compare-and-swap on updated_at, or a plain toggle.     *)

(* The bound: how often rows change after they were created.               *)
Changeable == MapThenSumSet(LAMBDA t : trips[t] - 1, Trips)
              + MapThenSumSet(LAMBDA k : IF tasks[k] = None THEN 0 ELSE tasks[k].version - 1, Tasks) < MaxChanges

NextVersion(k) == [tasks EXCEPT ![k].version = @ + 1]
toggle_travel_task(k) == [tasks EXCEPT ![k].version = @ + 1, ![k].done = ~@]

(* PUT of the owner or of an editor, each with the version it last saw.    *)
edit(r, t) ==
  /\ \/ ByOwner(r)
     \/ ByMember(r) /\ t \in members[requests[r]].trips
  /\ \E expected \in 1..MaxChanges + 1 :
       IF trips[t] = expected /\ Changeable
         THEN trips' = [trips EXCEPT ![t] = @ + 1]
         ELSE UNCHANGED trips
  /\ Handled(r)
  /\ UNCHANGED <<enforced, clock, members, sessions, handoffs, minted, shares, tasks>>

complete(r, k) ==
  /\ ByOwner(r) /\ tasks[k] # None
  /\ \E done \in BOOLEAN, expected \in 1..MaxChanges + 1 :
       IF tasks[k].version = expected /\ Changeable
         THEN tasks' = [NextVersion(k) EXCEPT ![k].done = done]
         ELSE UNCHANGED tasks
  /\ Handled(r)
  /\ UNCHANGED <<enforced, clock, members, sessions, handoffs, minted, shares, trips>>

(* Mutant: a task is looked up by its id alone.                            *)
InAnyTrip(r, k) == tasks[k].trip \in Trips

InScope(r, k) == tasks[k].trip \in members[requests[r]].trips

toggle_task(r, k) ==
  /\ ByOwner(r) /\ tasks[k] # None /\ Changeable
  /\ tasks' = toggle_travel_task(k)
  /\ Handled(r)
  /\ UNCHANGED <<enforced, clock, members, sessions, handoffs, minted, shares, trips>>

toggle(r, k) ==
  /\ ByMember(r) /\ tasks[k] # None /\ InScope(r, k) /\ Changeable
  /\ tasks' = toggle_travel_task(k)
  /\ Handled(r)
  /\ UNCHANGED <<enforced, clock, members, sessions, handoffs, minted, shares, trips>>

(* A refusal, or a read such as overview: the request ends, nothing moves. *)
respond(r) ==
  /\ requests[r] # None
  /\ Handled(r)
  /\ UNCHANGED <<enforced, clock, members, sessions, handoffs, minted, shares, trips, tasks>>

-----------------------------------------------------------------------------
(* Share links: one lookup and the effect, under one lock.                 *)

lookup_travel_share_link(k) == shares[k] # None /\ ~shares[k].revoked /\ shares[k].expires > clock

public_toggle_task(k, task) ==
  /\ lookup_travel_share_link(k) /\ shares[k].edit
  /\ tasks[task] # None /\ Changeable
  /\ tasks[task].trip = shares[k].trip
  /\ tasks' = toggle_travel_task(task)
  /\ UNCHANGED <<enforced, clock, members, sessions, handoffs, minted, shares, trips, requests>>

(* A restart loses the codes and the requests being handled.               *)
Restart ==
  /\ handoffs' = {} /\ requests' = [r \in Requests |-> None]
  /\ UNCHANGED <<enforced, clock, members, sessions, minted, shares, trips, tasks>>

Tick ==
  /\ clock < MaxClock /\ clock' = clock + 1
  /\ UNCHANGED <<enforced, members, sessions, handoffs, minted, shares, trips, tasks, requests>>

SignIn == \/ \E s \in Sessions : session(s) \/ consume(s)
          \/ \E c \in Codes : issue(c)

Handle(r) ==
  \/ \E m \in Members : invite(r, m) \/ revoke(r, m)
  \/ \E t \in Trips : edit(r, t)
  \/ \E k \in Tasks : complete(r, k) \/ toggle_task(r, k) \/ toggle(r, k) \/ \E t \in Trips : create_task(r, k, t)
  \/ \E k \in Shares : revoke_share(r, k) \/ \E t \in Trips : create_share(r, k, t)
  \/ respond(r)

AccessNext ==
  \/ SignIn
  \/ \E r \in Requests : authorize(r) \/ Handle(r)
  \/ \E k \in Shares, task \in Tasks : public_toggle_task(k, task)
  \/ Restart \/ Tick

AccessSpec == AccessInit /\ [][AccessNext]_access_vars

-----------------------------------------------------------------------------
(* An invitation link and a handoff code each open one session at most,    *)
(* whatever the retries, failed writes, restarts and concurrent clicks     *)
(* (household.rs session, browser_handoff.rs consume).                     *)
CapabilitySpentOnce ==
  \A s1, s2 \in Sessions :
    /\ sessions[s1] # None /\ sessions[s2] # None
    /\ sessions[s1].via = sessions[s2].via /\ sessions[s1].via # Owner
    => s1 = s2

(* Revocation closes every door: a revoked member opens no session and     *)
(* gets no request admitted, by link, by an older session or otherwise.    *)
RevokedStaysOut ==
  [][\A m \in Members : Invited(m) /\ members[m].revoked =>
       /\ members'[m].revoked
       /\ \A s \in Sessions : sessions[s] = None => sessions'[s] = None \/ sessions'[s].member # m
       /\ \A r \in Requests : requests[r] = None => requests'[r] = None \/ requests'[r] # m]_access_vars

(* Every change of a task or a trip is the work of somebody entitled to    *)
(* it: a request of the owner, one of an editor whose invitation names the *)
(* trip the task is on, or a live editable share of that very trip.        *)
Entitled(r, t) ==
  /\ requests[r] # None /\ requests'[r] = None
  /\ \/ requests[r] = Owner
     \/ t \in members[requests[r]].trips /\ members[requests[r]].role = "editor"
ChangesAreEntitled ==
  [][/\ \A k \in Tasks : tasks[k] # tasks'[k] /\ tasks[k] # None =>
          \/ \E r \in Requests : Entitled(r, tasks[k].trip)
          \/ \E h \in Shares : lookup_travel_share_link(h) /\ shares[h].edit /\ shares[h].trip = tasks[k].trip
     /\ \A t \in Trips : trips[t] # trips'[t] => \E r \in Requests : Entitled(r, t)]_access_vars

=============================================================================
