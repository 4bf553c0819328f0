----------------------- MODULE HouseholdAccessProofs ------------------------
(***************************************************************************)
(* Proofs about HouseholdAccess, Workspace and TripMatching, for any       *)
(* family, any number of trips, bookings, sessions, links and codes, any   *)
(* dates, places and reservations and any length of a session's life.      *)
(*                                                                         *)
(* Each capability is spent once because what opens a session by it also   *)
(* makes it useless, in the same step or before: Spent says so of every    *)
(* session that was opened by one.                                         *)
(*                                                                         *)
(* The family sees what the bookings say because the rows of each booking  *)
(* agree after every write, those of a booking written in part included:   *)
(* RowsAgree says so of its legs and of its reminder.                      *)
(*                                                                         *)
(* A trip takes in its bookings because its bounds only widen.  That one   *)
(* trip is chosen for what it is and not for its place in the list is a    *)
(* fact about the weighing of any number of trips: FoundOut.               *)
(***************************************************************************)
EXTENDS MCFamily, FiniteSetTheorems, NaturalsInduction, SequenceTheorems, TLAPS

\* What the tables hold.  The versions of trips and tasks are any numbers
\* here: how many there can be is a bound of the checked instances.
Tables ==
  /\ clock \in Nat
  /\ members \in [Members -> MemberRow \cup {None}]
  /\ sessions \in [Sessions -> SessionRow \cup {None}]
  /\ handoffs \subseteq [code : Codes, expires : Nat] /\ minted \subseteq Codes
  /\ shares \in [Shares -> ShareRow \cup {None}]
  /\ trips \in [Trips -> Nat]
  /\ tasks \in [Tasks -> [trip : Trips, done : BOOLEAN, version : Nat] \cup {None}]
  /\ requests \in [Requests -> Members \cup {Owner, None}]

\* A live code was handed out, and once only.
CodesAreFresh ==
  /\ \A h \in handoffs : h.code \in minted
  /\ \A h1, h2 \in handoffs : h1.code = h2.code => h1 = h2

\* The invitation or the code a session was opened by opens nothing any more.
Spent(s) ==
  sessions[s] # None =>
    /\ sessions[s].via \in Members =>
         Invited(sessions[s].via) /\ ~members[sessions[s].via].token
    /\ sessions[s].via \in Codes =>
         /\ sessions[s].via \in minted
         /\ \A h \in handoffs : h.code # sessions[s].via

AccessInv ==
  /\ Tables /\ CodesAreFresh /\ CapabilitySpentOnce
  /\ \A s \in Sessions : Spent(s)

-----------------------------------------------------------------------------
(* Tables.                                                                 *)

LEMMA Lives == {SessionLife, HandoffLife} \subseteq Nat /\ None \notin Members
BY AccessAssumption

LEMMA SignInTables == ASSUME Tables, SignIn PROVE Tables'
<1> USE DEF Tables
<1>1. ASSUME NEW s \in Sessions, session(s) PROVE Tables'
  <2>1. \A who \in Members \cup {Owner} :
          [member |-> who, expires |-> clock + SessionLife, via |-> who] \in SessionRow
    BY Lives DEF SessionRow
  <2>2. \A m \in Members : Enrolable(m) => Consumed(m) \in [Members -> MemberRow \cup {None}]
    BY ZenonT(20) DEF Enrolable, Invited, Consumed, MemberRow
  <2> QED
    BY <1>1, <2>1, <2>2 DEF session
<1>2. ASSUME NEW s \in Sessions, consume(s) PROVE Tables'
  <2>1. \A h \in handoffs :
          [member |-> Owner, expires |-> clock + SessionLife, via |-> h.code] \in SessionRow
    BY Lives DEF SessionRow
  <2> QED
    BY <1>2, <2>1 DEF consume, Removed
<1>3. ASSUME NEW c \in Codes, issue(c) PROVE Tables'
  BY <1>3, Lives DEF issue, Unexpired
<1> QED
  BY <1>1, <1>2, <1>3 DEF SignIn

LEMMA AuthorizeTables ==
  ASSUME Tables, NEW r \in Requests, authorize(r)
  PROVE  Tables' /\ \E who \in Members \cup {Owner} : requests' = [requests EXCEPT ![r] = who]
<1>1. \A s \in Sessions : BySession(s) \in Members \cup {Owner, None}
  BY DEF Tables, BySession, SessionRow
<1>2. \A m \in Members : ByBearer(m) \in Members \cup {None}
  BY DEF ByBearer
<1>3. \A bearer \in BOOLEAN : ByCredential(bearer) \subseteq Members \cup {Owner, None}
  BY <1>1, <1>2 DEF ByCredential
<1>4. PICK who \in Members \cup {Owner} : requests' = [requests EXCEPT ![r] = who]
  BY <1>3 DEF authorize
<1> QED
  BY <1>4 DEF Tables, authorize

LEMMA HandleTables == ASSUME Tables, NEW r \in Requests, Handle(r) PROVE Tables'
<1> USE DEF Tables
<1>0. requests' = [requests EXCEPT ![r] = None] /\ requests' \in [Requests -> Members \cup {Owner, None}]
  BY DEF Handle, Handled, invite, revoke, edit, complete, toggle_task, toggle, create_task,
     revoke_share, create_share, respond
<1>1. ASSUME NEW m \in Members, invite(r, m) PROVE Tables'
  BY <1>0, <1>1, AccessAssumption DEF invite, MemberRow
<1>2. ASSUME NEW m \in Members, revoke(r, m) PROVE Tables'
  BY ZenonT(60), <1>0, <1>2 DEF revoke, Invited, MemberRow
<1>3. ASSUME NEW t \in Trips, edit(r, t) PROVE Tables'
  BY <1>0, <1>3 DEF edit
<1>4. ASSUME NEW k \in Tasks, complete(r, k) PROVE Tables'
  BY <1>0, <1>4 DEF complete, NextVersion
<1>5. ASSUME NEW k \in Tasks, toggle_task(r, k) \/ toggle(r, k) PROVE Tables'
  BY <1>0, <1>5 DEF toggle_task, toggle, toggle_travel_task
<1>6. ASSUME NEW k \in Tasks, NEW t \in Trips, create_task(r, k, t) PROVE Tables'
  BY <1>0, <1>6 DEF create_task, create_travel_task
<1>7. ASSUME NEW k \in Shares, NEW t \in Trips, create_share(r, k, t) PROVE Tables'
  BY <1>0, <1>7 DEF create_share, create_travel_share_link, ShareRow
<1>8. ASSUME NEW k \in Shares, revoke_share(r, k) PROVE Tables'
  BY ZenonT(20), <1>0, <1>8 DEF revoke_share, revoke_travel_share_link, ShareRow
<1>9. ASSUME respond(r) PROVE Tables'
  BY <1>0, <1>9 DEF respond
<1> QED
  BY <1>1, <1>2, <1>3, <1>4, <1>5, <1>6, <1>7, <1>8, <1>9 DEF Handle

LEMMA NextTables == ASSUME Tables, [AccessNext]_access_vars PROVE Tables'
<1>1. CASE UNCHANGED access_vars
  BY <1>1 DEF Tables, access_vars
<1>2. ASSUME NEW k \in Shares, NEW task \in Tasks, public_toggle_task(k, task) PROVE Tables'
  BY <1>2 DEF Tables, public_toggle_task, toggle_travel_task
<1>3. CASE Restart
  BY <1>3 DEF Tables, Restart
<1>4. CASE Tick
  BY <1>4 DEF Tables, Tick
<1> QED
  BY <1>1, <1>2, <1>3, <1>4, SignInTables, AuthorizeTables, HandleTables DEF AccessNext

-----------------------------------------------------------------------------
(* Capabilities.                                                           *)

\* An invitation's row stays a row.
LEMMA RowStays ==
  ASSUME NEW row \in MemberRow
  PROVE  /\ [row EXCEPT !.token = FALSE] # None /\ ~[row EXCEPT !.token = FALSE].token
         /\ [row EXCEPT !.revoked = TRUE] # None /\ [row EXCEPT !.revoked = TRUE].token = row.token
<1>1. [row EXCEPT !.token = FALSE] \in MemberRow /\ [row EXCEPT !.revoked = TRUE] \in MemberRow
  BY DEF MemberRow
<1> QED
  BY <1>1, AccessAssumption DEF MemberRow

\* Steps that open no session and issue nothing keep what was spent spent.
LEMMA NothingOpened ==
  ASSUME AccessInv, Tables', sessions' = sessions, minted' = minted,
         handoffs' \subseteq handoffs,
         \A m \in Members : Invited(m) => Invited(m)' /\ members'[m].token = members[m].token
  PROVE  AccessInv'
<1>1. CodesAreFresh' /\ CapabilitySpentOnce'
  BY DEF AccessInv, CodesAreFresh, CapabilitySpentOnce
<1>2. ASSUME NEW s \in Sessions PROVE Spent(s)'
  BY DEF AccessInv, Spent, Invited
<1> QED
  BY <1>1, <1>2 DEF AccessInv

LEMMA SessionSpends ==
  ASSUME AccessInv, Tables', NEW s \in Sessions, session(s)
  PROVE  AccessInv'
<1> USE DEF AccessInv, Tables
<1>1. CodesAreFresh'
  BY DEF session, CodesAreFresh
<1>2. PICK who \in Members \cup {Owner} :
        /\ sessions' = [sessions EXCEPT ![s] =
             [member |-> who, expires |-> clock + SessionLife, via |-> who]]
        /\ \/ who = Owner /\ members' = members
           \/ who \in Members /\ Enrolable(who) /\ members' = Consumed(who)
  <2>1. CASE /\ sessions' = [sessions EXCEPT ![s] =
                  [member |-> Owner, expires |-> clock + SessionLife, via |-> Owner]]
             /\ members' = members
    BY <2>1
  <2>2. ASSUME NEW m \in Members, Enrolable(m), members' = Consumed(m),
               sessions' = [sessions EXCEPT ![s] =
                 [member |-> m, expires |-> clock + SessionLife, via |-> m]]
        PROVE  \E who \in Members \cup {Owner} :
                 /\ sessions' = [sessions EXCEPT ![s] =
                      [member |-> who, expires |-> clock + SessionLife, via |-> who]]
                 /\ \/ who = Owner /\ members' = members
                    \/ who \in Members /\ Enrolable(who) /\ members' = Consumed(who)
    BY <2>2
  <2> QED
    BY <2>1, <2>2 DEF session
<1>3. who \in Members => Invited(who)' /\ ~members'[who].token /\ members[who].token
  <2> SUFFICES ASSUME who \in Members
               PROVE  Invited(who)' /\ ~members'[who].token /\ members[who].token
    OBVIOUS
  <2>1. Enrolable(who) /\ members' = Consumed(who) /\ members[who] \in MemberRow
    BY <1>2, AccessAssumption DEF Enrolable, Invited
  <2>2. members'[who] = [members[who] EXCEPT !.token = FALSE] /\ members[who].token
    BY <2>1 DEF Consumed, Enrolable
  <2> QED
    BY <2>1, <2>2, RowStays DEF Invited
<1>4. \A m \in Members : Invited(m) => Invited(m)' /\ (members'[m].token => members[m].token)
  <2>1. \A m \in Members : m # who => members'[m] = members[m]
    BY <1>2 DEF Consumed
  <2> QED
    BY <1>3, <2>1 DEF Invited
<1>5. ASSUME NEW x \in Sessions PROVE Spent(x)'
  <2>1. handoffs' = handoffs /\ minted' = minted
    BY DEF session
  <2>2. CASE x = s
    BY <1>2, <1>3, <2>1, <2>2, AccessAssumption DEF Spent, Invited
  <2>3. CASE x # s
    BY <1>2, <1>4, <2>1, <2>3 DEF Spent, Invited
  <2> QED
    BY <2>2, <2>3
<1>6. \A x \in Sessions : x # s /\ sessions[x] # None /\ who # Owner => sessions[x].via # who
  BY <1>2, <1>3 DEF Spent
<1>7. CapabilitySpentOnce'
  BY <1>2, <1>6 DEF CapabilitySpentOnce
<1> QED
  BY <1>1, <1>5, <1>7

LEMMA ConsumeSpends ==
  ASSUME AccessInv, Tables', NEW s \in Sessions, consume(s)
  PROVE  AccessInv'
<1> USE DEF AccessInv, Tables
<1>1. PICK h \in handoffs :
        /\ handoffs' = Removed(h)
        /\ \/ UNCHANGED sessions
           \/ sessions' = [sessions EXCEPT ![s] =
                [member |-> Owner, expires |-> clock + SessionLife, via |-> h.code]]
  BY DEF consume
<1>2. members' = members /\ minted' = minted /\ handoffs' \subseteq handoffs
  BY <1>1 DEF consume, Removed
<1>3. CASE UNCHANGED sessions
  BY <1>2, <1>3, NothingOpened DEF Invited
<1>4. CASE sessions' = [sessions EXCEPT ![s] =
             [member |-> Owner, expires |-> clock + SessionLife, via |-> h.code]]
  <2>1. CodesAreFresh'
    BY <1>2 DEF CodesAreFresh
  <2>2. h.code \in Codes /\ h.code \in minted /\ \A g \in handoffs' : g.code # h.code
    BY <1>1 DEF Removed, CodesAreFresh
  <2>3. ASSUME NEW x \in Sessions PROVE Spent(x)'
    <3>1. CASE x = s
      BY <1>2, <1>4, <2>2, <3>1, AccessAssumption DEF Spent
    <3>2. CASE x # s
      BY <1>2, <1>4, <3>2 DEF Spent, Invited
    <3> QED
      BY <3>1, <3>2
  <2>4. \A x \in Sessions : sessions[x] # None => sessions[x].via # h.code
    BY <2>2 DEF Spent
  <2>5. CapabilitySpentOnce'
    BY <1>4, <2>4 DEF CapabilitySpentOnce
  <2> QED
    BY <2>1, <2>3, <2>5
<1> QED
  BY <1>1, <1>3, <1>4

LEMMA IssueIsFresh ==
  ASSUME AccessInv, Tables', NEW c \in Codes, issue(c)
  PROVE  AccessInv'
<1> USE DEF AccessInv, Tables
<1>1. Unexpired \subseteq handoffs
  BY DEF Unexpired
<1>2. CASE handoffs' = Unexpired /\ minted' = minted
  BY <1>1, <1>2, NothingOpened DEF issue, Invited
<1>3. CASE /\ handoffs' = Unexpired \cup {[code |-> c, expires |-> clock + HandoffLife]}
           /\ minted' = minted \cup {c}
  <2>1. c \notin minted /\ sessions' = sessions /\ members' = members
    BY DEF issue
  <2>2. CodesAreFresh'
    BY <1>1, <1>3, <2>1 DEF CodesAreFresh
  <2>3. ASSUME NEW x \in Sessions PROVE Spent(x)'
    BY <1>1, <1>3, <2>1 DEF Spent, Invited
  <2>4. CapabilitySpentOnce'
    BY <2>1 DEF CapabilitySpentOnce
  <2> QED
    BY <2>2, <2>3, <2>4
<1> QED
  BY <1>2, <1>3 DEF issue

LEMMA AccessInvNext == ASSUME AccessInv, [AccessNext]_access_vars PROVE AccessInv'
<1>0. Tables /\ Tables'
  BY NextTables DEF AccessInv
<1>1. CASE SignIn
  BY <1>0, <1>1, SessionSpends, ConsumeSpends, IssueIsFresh DEF SignIn
<1>2. ASSUME NEW r \in Requests, NEW m \in Members, invite(r, m) PROVE AccessInv'
  BY <1>0, <1>2, NothingOpened DEF invite, Invited, Tables
<1>3. ASSUME NEW r \in Requests, NEW m \in Members, revoke(r, m) PROVE AccessInv'
  <2>1. \A x \in Members : Invited(x) => Invited(x)' /\ members'[x].token = members[x].token
    <3>1. members[m] \in MemberRow /\ members'[m] = [members[m] EXCEPT !.revoked = TRUE]
          /\ \A x \in Members : x # m => members'[x] = members[x]
      BY <1>0, <1>3 DEF revoke, Invited, Tables
    <3> QED
      BY <3>1, RowStays DEF Invited
  <2> QED
    BY <1>0, <1>3, <2>1, NothingOpened DEF revoke
<1>4. CASE Restart
  BY <1>0, <1>4, NothingOpened DEF Restart, Invited
<1>5. CASE UNCHANGED <<members, sessions, handoffs, minted>>
  BY <1>0, <1>5, NothingOpened DEF Invited
<1>6. ASSUME NEW r \in Requests, authorize(r) PROVE AccessInv'
  BY <1>5, <1>6 DEF authorize
<1>7. ASSUME NEW r \in Requests, Handle(r) PROVE AccessInv'
  BY <1>2, <1>3, <1>5, <1>7 DEF Handle, edit, complete, toggle_task, toggle, create_task,
     revoke_share, create_share, respond
<1> QED
  BY <1>1, <1>4, <1>5, <1>6, <1>7 DEF AccessNext, access_vars, public_toggle_task, Tick

LEMMA AccessInvInit == AccessInit => AccessInv
BY DEF AccessInit, AccessInv, Tables, CodesAreFresh, CapabilitySpentOnce, Spent

LEMMA AccessInvariant == AccessSpec => []AccessInv
BY AccessInvInit, AccessInvNext, PTL DEF AccessSpec

\* An invitation link and a handoff code each open one session at most,
\* whatever the retries, failed writes, restarts and concurrent clicks
\* (household.rs session, browser_handoff.rs consume).
THEOREM SpentOnce == AccessSpec => []CapabilitySpentOnce
<1>1. AccessInv => CapabilitySpentOnce
  BY DEF AccessInv
<1> QED
  BY <1>1, AccessInvariant, PTL

-----------------------------------------------------------------------------
(* Revocation and entitlement.                                             *)

Revoked(m) == Invited(m) /\ members[m].revoked

LEMMA RevokedRow ==
  ASSUME Tables, AccessNext, NEW m \in Members, Revoked(m)
  PROVE  members'[m].revoked
<1> USE DEF Tables, Revoked, Invited
<1>1. ASSUME NEW s \in Sessions, session(s) PROVE members'[m].revoked
  <2>1. ASSUME NEW x \in Members, Enrolable(x), members' = Consumed(x)
        PROVE  members'[m].revoked
    <3>1. x # m
      BY <2>1 DEF Enrolable
    <3> QED
      BY <2>1, <3>1 DEF Consumed
  <2> QED
    BY <1>1, <2>1 DEF session
<1>2. ASSUME NEW r \in Requests, NEW x \in Members, invite(r, x) \/ revoke(r, x)
      PROVE  members'[m].revoked
  BY <1>2 DEF invite, revoke, MemberRow
<1>3. CASE UNCHANGED members
  BY <1>3
<1> QED
  BY <1>1, <1>2, <1>3 DEF AccessNext, SignIn, consume, issue, authorize, Handle, edit, complete,
     toggle_task, toggle, create_task, revoke_share, create_share, respond, public_toggle_task,
     Restart, Tick

LEMMA RevokedSession ==
  ASSUME Tables, AccessNext, NEW m \in Members, Revoked(m),
         NEW s \in Sessions, sessions[s] = None
  PROVE  sessions'[s] = None \/ sessions'[s].member # m
<1> USE DEF Tables, Revoked
<1>1. ASSUME NEW x \in Sessions, session(x)
      PROVE  sessions'[s] = None \/ sessions'[s].member # m
  <2>1. PICK who \in Members \cup {Owner} :
          /\ sessions' = [sessions EXCEPT ![x] =
               [member |-> who, expires |-> clock + SessionLife, via |-> who]]
          /\ who = Owner \/ Enrolable(who)
    BY <1>1 DEF session
  <2>2. who # m
    BY <2>1, AccessAssumption DEF Enrolable
  <2> QED
    BY <2>1, <2>2
<1>2. ASSUME NEW x \in Sessions, consume(x)
      PROVE  sessions'[s] = None \/ sessions'[s].member # m
  BY <1>2, AccessAssumption DEF consume
<1>3. CASE UNCHANGED sessions
  BY <1>3
<1> QED
  BY <1>1, <1>2, <1>3 DEF AccessNext, SignIn, issue, authorize, Handle, invite, revoke, edit,
     complete, toggle_task, toggle, create_task, revoke_share, create_share, respond,
     public_toggle_task, Restart, Tick

LEMMA RevokedRequest ==
  ASSUME Tables, AccessNext, NEW m \in Members, Revoked(m),
         NEW r \in Requests, requests[r] = None
  PROVE  requests'[r] = None \/ requests'[r] # m
<1> USE DEF Tables, Revoked
<1>1. ASSUME NEW x \in Requests, authorize(x)
      PROVE  requests'[r] = None \/ requests'[r] # m
  <2>1. \A s \in Sessions : BySession(s) # m
    BY AccessAssumption DEF BySession
  <2>2. \A y \in Members : ByBearer(y) # m
    BY AccessAssumption DEF ByBearer, Enrolable
  <2>3. \A bearer \in BOOLEAN : m \notin ByCredential(bearer)
    BY <2>1, <2>2, AccessAssumption DEF ByCredential
  <2> QED
    BY <1>1, <2>3 DEF authorize
<1>2. ASSUME NEW x \in Requests, Handle(x)
      PROVE  requests'[r] = None
  <2>1. requests' = [requests EXCEPT ![x] = None]
    BY <1>2 DEF Handle, Handled, invite, revoke, edit, complete, toggle_task, toggle,
       create_task, revoke_share, create_share, respond
  <2> QED
    BY <2>1
<1>3. CASE Restart
  BY <1>3 DEF Restart
<1>4. CASE UNCHANGED requests
  BY <1>4
<1> QED
  BY <1>1, <1>2, <1>3, <1>4 DEF AccessNext, SignIn, session, consume, issue, public_toggle_task, Tick

\* Revocation closes every door: a revoked member opens no session and gets no
\* request admitted, by link, by an older session or otherwise
\* (household.rs revoke, auth.rs authorize).
THEOREM RevokedIsOut == AccessSpec => RevokedStaysOut
<1> DEFINE Out == \A m \in Members : Invited(m) /\ members[m].revoked =>
             /\ members'[m].revoked
             /\ \A s \in Sessions : sessions[s] = None => sessions'[s] = None \/ sessions'[s].member # m
             /\ \A r \in Requests : requests[r] = None => requests'[r] = None \/ requests'[r] # m
<1>1. AccessInv /\ [AccessNext]_access_vars => [Out]_access_vars
  BY RevokedRow, RevokedSession, RevokedRequest DEF AccessInv, Revoked
<1>2. AccessSpec => [][Out]_access_vars
  BY <1>1, AccessInvariant, PTL DEF AccessSpec
<1> QED
  BY <1>2 DEF RevokedStaysOut

\* A handler that changes a task or a trip is run for somebody entitled to it.
LEMMA HandlersEntitled ==
  ASSUME Tables, NEW r \in Requests, Handle(r)
  PROVE  /\ \A k \in Tasks : tasks[k] # tasks'[k] /\ tasks[k] # None => Entitled(r, tasks[k].trip)
         /\ \A t \in Trips : trips[t] # trips'[t] => Entitled(r, t)
<1> USE AccessAssumption DEF Tables, Entitled, ByOwner, ByMember
<1>1. requests'[r] = None
  BY DEF Handle, Handled, invite, revoke, edit, complete, toggle_task, toggle,
     create_task, revoke_share, create_share, respond
<1>2. ASSUME NEW t \in Trips, edit(r, t)
      PROVE  tasks' = tasks /\ Entitled(r, t) /\ \A x \in Trips : x # t => trips'[x] = trips[x]
  BY <1>1, <1>2 DEF edit
<1>3. ASSUME NEW k \in Tasks, complete(r, k)
      PROVE  trips' = trips /\ Entitled(r, tasks[k].trip)
             /\ \A x \in Tasks : x # k => tasks'[x] = tasks[x]
  BY <1>1, <1>3 DEF complete, NextVersion
<1>4. ASSUME NEW k \in Tasks, toggle_task(r, k) \/ toggle(r, k)
      PROVE  trips' = trips /\ Entitled(r, tasks[k].trip)
             /\ \A x \in Tasks : x # k => tasks'[x] = tasks[x]
  BY <1>1, <1>4 DEF toggle_task, toggle, toggle_travel_task, InScope
<1>5. ASSUME NEW k \in Tasks, NEW t \in Trips, create_task(r, k, t)
      PROVE  trips' = trips /\ \A x \in Tasks : tasks[x] # None => tasks'[x] = tasks[x]
  BY <1>5 DEF create_task, create_travel_task
<1>6. CASE UNCHANGED <<trips, tasks>>
  BY <1>6
<1> QED
  BY <1>2, <1>3, <1>4, <1>5, <1>6
     DEF Handle, invite, revoke, revoke_share, create_share, respond

\* Every change of a task or a trip is the work of somebody entitled to it: a
\* request of the owner, one of an editor whose invitation names the trip, or a
\* live editable share of that very trip (handlers/household.rs, travel.rs).
THEOREM OnlyEntitledChanges == AccessSpec => ChangesAreEntitled
<1> DEFINE Due ==
      /\ \A k \in Tasks : tasks[k] # tasks'[k] /\ tasks[k] # None =>
           \/ \E r \in Requests : Entitled(r, tasks[k].trip)
           \/ \E h \in Shares : lookup_travel_share_link(h) /\ shares[h].edit /\ shares[h].trip = tasks[k].trip
      /\ \A t \in Trips : trips[t] # trips'[t] => \E r \in Requests : Entitled(r, t)
<1>1. ASSUME Tables, AccessNext PROVE Due
  <2>1. ASSUME NEW r \in Requests, Handle(r) PROVE Due
    BY <1>1, <2>1, HandlersEntitled
  <2>2. ASSUME NEW h \in Shares, NEW task \in Tasks, public_toggle_task(h, task) PROVE Due
    <3>1. trips' = trips /\ \A k \in Tasks : k # task => tasks'[k] = tasks[k]
      BY <1>1, <2>2 DEF Tables, public_toggle_task, toggle_travel_task
    <3>2. lookup_travel_share_link(h) /\ shares[h].edit /\ shares[h].trip = tasks[task].trip
      BY <2>2 DEF public_toggle_task
    <3> QED
      BY <3>1, <3>2
  <2>3. CASE UNCHANGED <<trips, tasks>>
    BY <2>3
  <2> QED
    BY <1>1, <2>1, <2>2, <2>3 DEF AccessNext, SignIn, session, consume, issue, authorize,
       Restart, Tick
<1>2. AccessInv /\ [AccessNext]_access_vars => [Due]_access_vars
  BY <1>1 DEF AccessInv
<1>3. AccessSpec => [][Due]_access_vars
  BY <1>2, AccessInvariant, PTL DEF AccessSpec
<1> QED
  BY <1>3 DEF ChangesAreEntitled

-----------------------------------------------------------------------------
(* What the family sees.                                                   *)

\* The rows of one booking agree, whichever of them are written.
RowsAgree(b) ==
  IF bookings[b] = None THEN legs[b] = <<>> /\ alerts[b] = {}
  ELSE /\ \A i \in DOMAIN legs[b] : legs[b][i].trip = bookings[b].trip /\ legs[b][i].status = bookings[b].status
       /\ legs[b] # <<>> => legs[b][1].start = bookings[b].start
       /\ Len(legs[b]) = 2 => bookings[b].start # 0 /\ legs[b][2].start # 0
       /\ alerts[b] \in {{}, {[trip |-> bookings[b].trip, due |-> bookings[b].start]}}
       /\ alerts[b] # {} => bookings[b].start # 0 /\ bookings[b].status # "cancelled"

FamilyTables ==
  /\ bookings \in [Bookings -> BookingRow \cup {None}]
  /\ legs \in [Bookings -> Seq(Leg)] /\ \A b \in Bookings : Len(legs[b]) <= 2
  /\ alerts \in [Bookings -> SUBSET Reminder]

FamilyInv == FamilyTables /\ \A b \in Bookings : RowsAgree(b)

EventOf(b, i) == [booking |-> b, leg |-> i, start |-> legs[b][i].start, status |-> legs[b][i].status]

\* The feed of a trip, for one booking.
LEMMA EventsOf ==
  ASSUME NEW b \in Bookings, NEW t
  PROVE  LET events == {e \in public_calendar(t) : e.booking = b}
             here == {i \in 1..2 : i \in DOMAIN legs[b] /\ legs[b][i].trip = t}
         IN events = {EventOf(b, i) : i \in {j \in here : legs[b][j].start # 0}}
                     \cup (IF bookings[b] # None /\ bookings[b].trip = t /\ bookings[b].start # 0 /\ here = {}
                           THEN {[booking |-> b, leg |-> 0, start |-> bookings[b].start, status |-> bookings[b].status]}
                           ELSE {})
<1> DEFINE events == {e \in public_calendar(t) : e.booking = b}
           here == {i \in 1..2 : i \in DOMAIN legs[b] /\ legs[b][i].trip = t}
           own == [booking |-> b, leg |-> 0, start |-> bookings[b].start, status |-> bookings[b].status]
           legEvents == {EventOf(v[1], v[2]) : v \in {w \in ViewLegs(t) : legs[w[1]][w[2]].start # 0}}
           rowEvents == {[booking |-> c, leg |-> 0, start |-> bookings[c].start, status |-> bookings[c].status] :
                           c \in {c \in ViewBookings(t) : bookings[c].start # 0 /\ \A v \in ViewLegs(t) : v[1] # c}}
<1>1. public_calendar(t) = legEvents \cup rowEvents
  BY DEF public_calendar, EventOf
<1>2. \A v \in ViewLegs(t) : v = <<v[1], v[2]>> /\ v[1] \in Bookings
  BY DEF ViewLegs
<1>3. \A i : <<b, i>> \in ViewLegs(t) <=> i \in here
  BY DEF ViewLegs
<1>4. {e \in legEvents : e.booking = b} = {EventOf(b, i) : i \in {j \in here : legs[b][j].start # 0}}
  <2>1. ASSUME NEW e \in legEvents, e.booking = b
        PROVE  \E i \in here : legs[b][i].start # 0 /\ e = EventOf(b, i)
    <3>1. PICK v \in ViewLegs(t) : legs[v[1]][v[2]].start # 0 /\ e = EventOf(v[1], v[2])
      OBVIOUS
    <3>2. v[1] = b
      BY <2>1, <3>1 DEF EventOf
    <3>3. v[2] \in here
      BY <1>2, <1>3, <3>1, <3>2
    <3> QED
      BY <3>1, <3>2, <3>3
  <2>2. ASSUME NEW i \in here, legs[b][i].start # 0
        PROVE  EventOf(b, i) \in legEvents /\ EventOf(b, i).booking = b
    <3> DEFINE v == <<b, i>>
    <3>1. v \in ViewLegs(t) /\ v[1] = b /\ v[2] = i
      BY <1>3
    <3>2. EventOf(b, i).booking = b
      BY DEF EventOf
    <3> QED
      BY <2>2, <3>1, <3>2
  <2> QED
    BY <2>1, <2>2
<1>5. (\A v \in ViewLegs(t) : v[1] # b) <=> here = {}
  <2>1. ASSUME NEW v \in ViewLegs(t), v[1] = b PROVE v[2] \in here
    BY <1>2, <1>3, <2>1
  <2>2. ASSUME NEW i \in here PROVE <<b, i>> \in ViewLegs(t) /\ <<b, i>>[1] = b
    BY <1>3
  <2> QED
    BY <2>1, <2>2
<1>6. {e \in rowEvents : e.booking = b} =
        IF bookings[b] # None /\ bookings[b].trip = t /\ bookings[b].start # 0 /\ here = {} THEN {own} ELSE {}
  <2>1. ASSUME NEW e \in rowEvents, e.booking = b
        PROVE  e = own /\ bookings[b] # None /\ bookings[b].trip = t /\ bookings[b].start # 0 /\ here = {}
    BY <1>5, <2>1 DEF ViewBookings
  <2>2. ASSUME bookings[b] # None, bookings[b].trip = t, bookings[b].start # 0, here = {}
        PROVE  own \in rowEvents /\ own.booking = b
    BY <1>5, <2>2 DEF ViewBookings
  <2> QED
    BY <2>1, <2>2
<1> HIDE DEF legEvents, rowEvents, here, own
<1>7. events = {e \in legEvents : e.booking = b} \cup {e \in rowEvents : e.booking = b}
  BY <1>1
<1> QED
  BY <1>4, <1>6, <1>7 DEF here, own

FeedFor(b, t) == {e \in public_calendar(t) : e.booking = b}

Shows(b, t) ==
  /\ FeedFor(b, t) # {} /\ \E e \in FeedFor(b, t) : e.start = bookings[b].start
  /\ Cardinality(FeedFor(b, t)) = IF legs[b] = <<>> THEN 1 ELSE Len(legs[b])
  /\ \A e \in FeedFor(b, t) : e.status = bookings[b].status

LEMMA FeedFromRows == ASSUME FamilyInv PROVE FeedShowsBookings
<1> SUFFICES ASSUME NEW b \in Bookings, NEW t \in Trips
             PROVE  IF bookings[b] = None \/ bookings[b].trip # t \/ bookings[b].start = 0
                    THEN FeedFor(b, t) = {} ELSE Shows(b, t)
  BY DEF FeedShowsBookings, FeedFor, Shows
<1> DEFINE here == {i \in 1..2 : i \in DOMAIN legs[b] /\ legs[b][i].trip = t}
           own == [booking |-> b, leg |-> 0, start |-> bookings[b].start, status |-> bookings[b].status]
<1>1. FeedFor(b, t) =
        {EventOf(b, i) : i \in {j \in here : legs[b][j].start # 0}}
        \cup (IF bookings[b] # None /\ bookings[b].trip = t /\ bookings[b].start # 0 /\ here = {} THEN {own} ELSE {})
  BY EventsOf DEF FeedFor
<1>2. /\ RowsAgree(b) /\ Len(legs[b]) \in 0..2 /\ DOMAIN legs[b] = 1..Len(legs[b])
      /\ legs[b] = <<>> <=> Len(legs[b]) = 0
  <2>1. legs[b] \in Seq(Leg) /\ Len(legs[b]) <= 2 /\ RowsAgree(b)
    BY DEF FamilyInv, FamilyTables
  <2>2. Len(legs[b]) \in Nat /\ DOMAIN legs[b] = 1..Len(legs[b]) /\ (legs[b] = <<>> <=> Len(legs[b]) = 0)
    BY <2>1, LenProperties, EmptySeq
  <2>3. Len(legs[b]) \in 0..2
    <3>1. PICK n \in Nat : n = Len(legs[b])
      BY <2>2
    <3>2. n <= 2
      BY <2>1, <3>1
    <3>3. n \in 0..2
      BY <3>2
    <3> QED
      BY <3>1, <3>3
  <2> QED
    BY <2>1, <2>2, <2>3
<1>3. CASE bookings[b] = None
  BY <1>1, <1>2, <1>3 DEF RowsAgree
<1>4. CASE bookings[b] # None /\ bookings[b].trip # t
  BY <1>1, <1>2, <1>4 DEF RowsAgree
<1>5. CASE bookings[b] # None /\ bookings[b].trip = t /\ bookings[b].start = 0
  <2>1. \A j \in here : j = 1 /\ legs[b][1].start = 0
    <3>1. Len(legs[b]) # 2 /\ (legs[b] # <<>> => legs[b][1].start = 0)
      BY <1>2, <1>5 DEF RowsAgree
    <3> QED
      BY <1>2, <3>1
  <2> QED
    BY <1>1, <1>5, <2>1
<1>6. ASSUME bookings[b] # None, bookings[b].trip = t, bookings[b].start # 0 PROVE Shows(b, t)
  <2>1. \A i \in DOMAIN legs[b] : i \in here /\ legs[b][i].start # 0 /\ legs[b][i].status = bookings[b].status
    <3>1. ASSUME NEW i \in DOMAIN legs[b] PROVE i \in here /\ legs[b][i].status = bookings[b].status
      BY <1>2, <1>6 DEF RowsAgree
    <3>2. ASSUME NEW i \in DOMAIN legs[b] PROVE legs[b][i].start # 0
      <4>1. Len(legs[b]) \in {0, 1, 2} /\ i \in 1..Len(legs[b])
        BY <1>2
      <4>2. (i = 1 /\ Len(legs[b]) # 0) \/ (i = 2 /\ Len(legs[b]) = 2)
        BY <4>1
      <4> QED
        BY <1>2, <1>6, <4>2 DEF RowsAgree
    <3> QED
      BY <3>1, <3>2
  <2>2. here = DOMAIN legs[b]
    BY <2>1
  <2>3. CASE Len(legs[b]) = 0
    <3>1. here = {} /\ legs[b] = <<>>
      BY <1>2, <2>2, <2>3
    <3>2. FeedFor(b, t) = {own} /\ Cardinality({own}) = 1
      BY <1>1, <1>6, <3>1, FS_Singleton
    <3> QED
      BY <3>1, <3>2 DEF Shows
  <2>4. CASE Len(legs[b]) = 1
    <3>1. here = {1} /\ legs[b] # <<>>
      <4>1. 1..1 = {1}
        OBVIOUS
      <4> HIDE DEF here
      <4> QED
        BY <1>2, <2>2, <2>4, <4>1
    <3>2. FeedFor(b, t) = {EventOf(b, 1)}
      BY <1>1, <2>1, <3>1
    <3>4. Cardinality({EventOf(b, 1)}) = 1
      BY FS_Singleton
    <3>3. EventOf(b, 1).start = bookings[b].start /\ EventOf(b, 1).status = bookings[b].status
      BY <1>2, <1>6, <2>1, <3>1 DEF RowsAgree, EventOf
    <3> QED
      BY <2>4, <3>1, <3>2, <3>3, <3>4 DEF Shows
  <2>5. CASE Len(legs[b]) = 2
    <3>1. here = {1, 2} /\ legs[b] # <<>>
      BY <1>2, <2>2, <2>5
    <3>2. FeedFor(b, t) = {EventOf(b, 1), EventOf(b, 2)}
      BY <1>1, <2>1, <3>1
    <3>3. EventOf(b, 1).start = bookings[b].start
      BY <1>2, <1>6, <3>1 DEF RowsAgree, EventOf
    <3>4. \A i \in {1, 2} : EventOf(b, i).leg = i /\ EventOf(b, i).status = bookings[b].status
      BY <2>1, <3>1 DEF EventOf
    <3>5. Cardinality(FeedFor(b, t)) = 2
      <4>1. Cardinality({EventOf(b, 1)}) = 1 /\ IsFiniteSet({EventOf(b, 1)})
        BY FS_Singleton
      <4>2. EventOf(b, 2) \notin {EventOf(b, 1)} /\ FeedFor(b, t) = {EventOf(b, 1)} \cup {EventOf(b, 2)}
        BY <3>2, <3>4
      <4> QED
        BY <4>1, <4>2, FS_AddElement
    <3> QED
      BY <2>5, <3>1, <3>2, <3>3, <3>4, <3>5 DEF Shows
  <2> QED
    BY <1>2, <2>3, <2>4, <2>5
<1> QED
  BY <1>3, <1>4, <1>5, <1>6

LEMMA RemindersFromRows == ASSUME FamilyInv PROVE RemindersMatch
<1> SUFFICES ASSUME NEW b \in Bookings
             PROVE  /\ Cardinality(alerts[b]) <= 1
                    /\ \A a \in alerts[b] : a.due = bookings[b].start /\ a.trip = bookings[b].trip
                                            /\ bookings[b].status # "cancelled"
  BY DEF RemindersMatch
<1>1. RowsAgree(b)
  BY DEF FamilyInv
<1>2. CASE alerts[b] = {}
  BY <1>2, FS_EmptySet
<1>3. CASE alerts[b] # {}
  <2>1. alerts[b] = {[trip |-> bookings[b].trip, due |-> bookings[b].start]} /\ bookings[b].status # "cancelled"
    BY <1>1, <1>3 DEF RowsAgree
  <2> QED
    <3>1. Cardinality(alerts[b]) = 1
      BY <2>1, FS_Singleton
    <3> QED
      BY <2>1, <3>1
<1> QED
  BY <1>2, <1>3

-----------------------------------------------------------------------------
LEMMA LegsMapped ==
  ASSUME NEW s \in Seq(Leg), NEW f \in [DOMAIN s -> Leg]
  PROVE  f \in Seq(Leg) /\ Len(f) = Len(s) /\ DOMAIN f = DOMAIN s /\ (f = <<>> <=> s = <<>>)
<1>1. Len(s) \in Nat /\ DOMAIN s = 1..Len(s)
  BY LenProperties
<1>2. f \in [1..Len(s) -> Leg]
  BY <1>1
<1>3. f \in Seq(Leg) /\ Len(f) = Len(s)
  BY <1>1, <1>2, IsASeq
<1> QED
  BY <1>1, <1>3, EmptySeq, LenProperties

\* The reminders of a booking after a write: one, of its date, or none.
LEMMA AlertsWritten ==
  ASSUME NEW t \in Trips, NEW start \in When, NEW status, NEW kept,
         \A a \in kept : kept = {a} /\ a.trip = t, kept \subseteq Reminder
  PROVE  LET now == enqueue_booking_alerts_on(t, start, status, kept)
         IN /\ now \in {{}, {[trip |-> t, due |-> start]}} /\ now \subseteq Reminder
            /\ now # {} => start # 0 /\ status # "cancelled"
<1> DEFINE now == enqueue_booking_alerts_on(t, start, status, kept)
<1>1. CASE status = "cancelled" \/ start = 0
  BY <1>1 DEF enqueue_booking_alerts_on
<1>2. CASE status # "cancelled" /\ start # 0
  <2>1. now = LET left == {a \in kept : a.due = start} IN IF left = {} THEN {[trip |-> t, due |-> start]} ELSE left
    BY <1>2 DEF enqueue_booking_alerts_on, delete_travel_booking_reminders_except, enqueue_travel_alert_on
  <2>2. [trip |-> t, due |-> start] \in Reminder
    BY <1>2 DEF Reminder, When
  <2>3. \A a \in kept : a.due = start => a = [trip |-> t, due |-> start] /\ kept = {a}
    BY DEF Reminder
  <2> QED
    BY <1>2, <2>1, <2>2, <2>3
<1> QED
  BY <1>1, <1>2

LEMMA CreateAgrees ==
  ASSUME FamilyInv, NEW b \in Bookings, NEW t \in Trips, create_booking(b, t)
  PROVE  FamilyInv'
<1>1. PICK start \in When, status \in Status, row \in BOOLEAN, leg \in BOOLEAN, alert \in BOOLEAN :
        /\ (leg \/ alert) => row
        /\ bookings' = IF row THEN [bookings EXCEPT ![b] = [trip |-> t, start |-> start, status |-> status, version |-> 1]]
                       ELSE bookings
        /\ legs' = IF leg THEN [legs EXCEPT ![b] = <<[trip |-> t, start |-> start, status |-> status]>>] ELSE legs
        /\ alerts' = IF alert THEN [alerts EXCEPT ![b] = enqueue_booking_alerts_on(t, start, status, @)] ELSE alerts
  <2>1. PICK start \in When, status \in Status, done \in 0..Len(Writes) :
          /\ bookings' = IF \E i \in 1..done : Writes[i] = "booking"
               THEN [bookings EXCEPT ![b] = [trip |-> t, start |-> start, status |-> status, version |-> 1]]
               ELSE bookings
          /\ legs' = IF \E i \in 1..done : Writes[i] = "segment"
               THEN [legs EXCEPT ![b] = <<[trip |-> t, start |-> start, status |-> status]>>]
               ELSE legs
          /\ alerts' = IF \E i \in 1..done : Writes[i] = "alerts"
               THEN [alerts EXCEPT ![b] = enqueue_booking_alerts_on(t, start, status, @)]
               ELSE alerts
    BY Zenon DEF create_booking
  <2>2. \A i \in 1..done : 1 \in 1..done
    BY DEF Writes
  <2>3. Writes[1] = "booking"
    BY DEF Writes
  <2> QED
    BY <2>1, <2>2, <2>3
<1>2. bookings[b] = None /\ legs[b] = <<>> /\ alerts[b] = {}
  BY DEF create_booking, FamilyInv, RowsAgree
<1> DEFINE made == [trip |-> t, start |-> start, status |-> status, version |-> 1]
           reminders == enqueue_booking_alerts_on(t, start, status, {})
<1>3. made \in BookingRow
  BY DEF BookingRow
<1>4. /\ reminders \in {{}, {[trip |-> t, due |-> start]}} /\ reminders \subseteq Reminder
      /\ reminders # {} => start # 0 /\ status # "cancelled"
  BY AlertsWritten
<1>5. made.trip = t /\ made.start = start /\ made.status = status /\ made # None
  BY <1>3, WorkspaceAssumption DEF made
<1> DEFINE first == [trip |-> t, start |-> start, status |-> status]
<1>6. first \in Leg /\ first.trip = t /\ first.start = start /\ first.status = status
  BY DEF Leg
<1> HIDE DEF made, reminders, first
<1>7. <<first>> \in Seq(Leg) /\ Len(<<first>>) = 1 /\ <<first>>[1] = first /\ DOMAIN <<first>> = {1} /\ <<first>> # <<>>
  BY <1>6
<1>8. FamilyTables'
  <2>1. bookings' \in [Bookings -> BookingRow \cup {None}]
    BY <1>1, <1>3 DEF FamilyInv, FamilyTables, made
  <2>2. legs' \in [Bookings -> Seq(Leg)] /\ \A c \in Bookings : Len(legs'[c]) <= 2
    BY <1>1, <1>7 DEF FamilyInv, FamilyTables, first
  <2>3. alerts' \in [Bookings -> SUBSET Reminder]
    BY <1>1, <1>2, <1>4 DEF FamilyInv, FamilyTables, reminders
  <2> QED
    BY <2>1, <2>2, <2>3 DEF FamilyTables
<1>9. ASSUME NEW c \in Bookings, c # b PROVE RowsAgree(c)'
  <2>1. bookings'[c] = bookings[c] /\ legs'[c] = legs[c] /\ alerts'[c] = alerts[c]
    BY <1>1, <1>9 DEF FamilyInv, FamilyTables
  <2>2. RowsAgree(c)
    BY DEF FamilyInv
  <2> QED
    BY <2>1, <2>2 DEF RowsAgree
<1>10. RowsAgree(b)'
  <2>1. /\ bookings'[b] = IF row THEN made ELSE None
        /\ legs'[b] = IF leg THEN <<first>> ELSE <<>>
        /\ alerts'[b] = IF alert THEN reminders ELSE {}
    BY <1>1, <1>2 DEF FamilyInv, FamilyTables, made, first, reminders
  <2>2. CASE ~row
    BY <1>1, <2>1, <2>2 DEF RowsAgree
  <2>3. CASE row
    <3>1. bookings'[b] = made /\ (legs'[b] = <<>> \/ legs'[b] = <<first>>) /\ (alerts'[b] = {} \/ alerts'[b] = reminders)
      BY <2>1, <2>3
    <3>2. Len(<<>>) # 2 /\ DOMAIN <<>> = {}
      OBVIOUS
    <3> QED
      BY <1>4, <1>5, <1>6, <1>7, <3>1, <3>2 DEF RowsAgree
  <2> QED
    BY <2>2, <2>3
<1> QED
  BY <1>8, <1>9, <1>10 DEF FamilyInv

LEMMA ReceiptAgrees ==
  ASSUME FamilyInv, NEW b \in Bookings, NEW t \in Trips, ReceiptBooking(b, t)
  PROVE  FamilyInv'
<1>1. PICK start \in Days, second \in Days :
        /\ bookings' = [bookings EXCEPT ![b] = [trip |-> t, start |-> start, status |-> "confirmed", version |-> 1]]
        /\ legs' = [legs EXCEPT ![b] = <<[trip |-> t, start |-> start, status |-> "confirmed"],
                                         [trip |-> t, start |-> second, status |-> "confirmed"]>>]
        /\ alerts' = [alerts EXCEPT ![b] = enqueue_booking_alerts_on(t, start, "confirmed", @)]
  BY DEF ReceiptBooking
<1>2. alerts[b] = {}
  BY DEF ReceiptBooking, FamilyInv, RowsAgree
<1> DEFINE made == [trip |-> t, start |-> start, status |-> "confirmed", version |-> 1]
           reminders == enqueue_booking_alerts_on(t, start, "confirmed", {})
           first == [trip |-> t, start |-> start, status |-> "confirmed"]
           last == [trip |-> t, start |-> second, status |-> "confirmed"]
<1>3. start \in When /\ start # 0 /\ second \in When /\ second # 0 /\ "confirmed" \in Status
  BY WorkspaceAssumption DEF When, Status
<1>4. /\ reminders \in {{}, {[trip |-> t, due |-> start]}} /\ reminders \subseteq Reminder
  BY <1>3, AlertsWritten
<1>5. made \in BookingRow /\ made.trip = t /\ made.start = start /\ made.status = "confirmed" /\ made # None
  BY <1>3, WorkspaceAssumption DEF BookingRow
<1>6. /\ first \in Leg /\ first.trip = t /\ first.start = start /\ first.status = "confirmed"
      /\ last \in Leg /\ last.trip = t /\ last.start = second /\ last.status = "confirmed"
  BY <1>3 DEF Leg
<1> HIDE DEF made, reminders, first, last
<1>7. /\ <<first, last>> \in Seq(Leg) /\ Len(<<first, last>>) = 2 /\ DOMAIN <<first, last>> = {1, 2}
      /\ <<first, last>>[1] = first /\ <<first, last>>[2] = last
  BY <1>6
<1>8. FamilyTables'
  <2>1. bookings' \in [Bookings -> BookingRow \cup {None}]
    BY <1>1, <1>5 DEF FamilyInv, FamilyTables, made
  <2>2. legs' \in [Bookings -> Seq(Leg)] /\ \A c \in Bookings : Len(legs'[c]) <= 2
    BY <1>1, <1>7 DEF FamilyInv, FamilyTables, first, last
  <2>3. alerts' \in [Bookings -> SUBSET Reminder]
    BY <1>1, <1>2, <1>4 DEF FamilyInv, FamilyTables, reminders
  <2> QED
    BY <2>1, <2>2, <2>3 DEF FamilyTables
<1>9. ASSUME NEW c \in Bookings, c # b PROVE RowsAgree(c)'
  <2>1. bookings'[c] = bookings[c] /\ legs'[c] = legs[c] /\ alerts'[c] = alerts[c]
    BY <1>1, <1>9 DEF FamilyInv, FamilyTables
  <2>2. RowsAgree(c)
    BY DEF FamilyInv
  <2> QED
    BY <2>1, <2>2 DEF RowsAgree
<1>10. RowsAgree(b)'
  <2>1. bookings'[b] = made /\ legs'[b] = <<first, last>> /\ alerts'[b] = reminders
    BY <1>1, <1>2 DEF FamilyInv, FamilyTables, made, first, last, reminders
  <2> QED
    BY <1>3, <1>4, <1>5, <1>6, <1>7, <2>1 DEF RowsAgree
<1> QED
  BY <1>8, <1>9, <1>10 DEF FamilyInv

LEMMA EditAgrees ==
  ASSUME FamilyInv, NEW b \in Bookings, edit_booking(b)
  PROVE  FamilyInv'
<1>1. PICK start \in When, status \in Status :
        /\ start # bookings[b].start => Len(legs[b]) <= 1
        /\ bookings' = [bookings EXCEPT ![b].start = start, ![b].status = status, ![b].version = @ + 1]
        /\ legs' = [legs EXCEPT ![b] = LegsEdited(b, start, status)]
        /\ alerts' = [alerts EXCEPT ![b] = enqueue_booking_alerts_on(bookings[b].trip, start, status, @)]
  BY DEF edit_booking
<1>2. bookings[b] \in BookingRow /\ bookings[b] # None /\ RowsAgree(b)
  BY DEF edit_booking, FamilyInv, FamilyTables
<1>3. legs[b] \in Seq(Leg) /\ Len(legs[b]) <= 2 /\ alerts[b] \subseteq Reminder
  BY DEF FamilyInv, FamilyTables
<1> DEFINE made == [bookings[b] EXCEPT !.start = start, !.status = status, !.version = @ + 1]
           reminders == enqueue_booking_alerts_on(bookings[b].trip, start, status, alerts[b])
           edited == LegsEdited(b, start, status)
<1>4. /\ made \in BookingRow /\ made.trip = bookings[b].trip /\ made.start = start
      /\ made.status = status /\ made # None
  <2>1. /\ made \in BookingRow /\ made.trip = bookings[b].trip /\ made.start = start
        /\ made.status = status
    <3>1. PICK v \in Nat : v = bookings[b].version + 1
      BY <1>2 DEF BookingRow
    <3>2. made = [bookings[b] EXCEPT !.start = start, !.status = status, !.version = v]
      BY <3>1
    <3> HIDE DEF made
    <3> QED
      BY <1>2, <3>2 DEF BookingRow
  <2> QED
    BY <2>1, WorkspaceAssumption
<1>5. /\ reminders \in {{}, {[trip |-> bookings[b].trip, due |-> start]}} /\ reminders \subseteq Reminder
      /\ reminders # {} => start # 0 /\ status # "cancelled"
  <2>1. bookings[b].trip \in Trips
    BY <1>2 DEF BookingRow
  <2>2. \A a \in alerts[b] : alerts[b] = {a} /\ a.trip = bookings[b].trip
    BY <1>2 DEF RowsAgree
  <2> QED
    BY <1>3, <2>1, <2>2, AlertsWritten
<1>6. \A i \in DOMAIN legs[b] :
        /\ edited[i] \in Leg /\ edited[i].trip = legs[b][i].trip /\ edited[i].status = status
        /\ edited[i].start = IF Len(legs[b]) = 1 /\ start # bookings[b].start THEN start ELSE legs[b][i].start
  <2>1. \A i \in DOMAIN legs[b] : legs[b][i] \in Leg
    BY <1>3
  <2> QED
    BY <2>1 DEF LegsEdited, Leg
<1>7. edited \in Seq(Leg) /\ Len(edited) = Len(legs[b]) /\ DOMAIN edited = DOMAIN legs[b] /\ (edited = <<>> <=> legs[b] = <<>>)
  <2>1. edited \in [DOMAIN legs[b] -> Leg]
    BY <1>6 DEF LegsEdited
  <2> HIDE DEF edited
  <2> QED
    BY <1>3, <2>1, LegsMapped
<1> HIDE DEF made, reminders, edited
<1>8. bookings' = [bookings EXCEPT ![b] = made] /\ legs' = [legs EXCEPT ![b] = edited]
      /\ alerts' = [alerts EXCEPT ![b] = reminders]
  BY <1>1 DEF made, edited, reminders
<1>9. FamilyTables'
  BY <1>3, <1>4, <1>5, <1>7, <1>8 DEF FamilyInv, FamilyTables
<1>10. ASSUME NEW c \in Bookings, c # b PROVE RowsAgree(c)'
  <2>1. bookings'[c] = bookings[c] /\ legs'[c] = legs[c] /\ alerts'[c] = alerts[c]
    BY <1>8, <1>10 DEF FamilyInv, FamilyTables
  <2>2. RowsAgree(c)
    BY DEF FamilyInv
  <2> QED
    BY <2>1, <2>2 DEF RowsAgree
<1>11. RowsAgree(b)'
  <2>1. bookings'[b] = made /\ legs'[b] = edited /\ alerts'[b] = reminders
    BY <1>8 DEF FamilyInv, FamilyTables
  <2>2. \A i \in DOMAIN edited : edited[i].trip = made.trip /\ edited[i].status = made.status
    BY <1>2, <1>4, <1>6, <1>7 DEF RowsAgree
  <2>3. Len(legs[b]) \in Nat /\ DOMAIN legs[b] = 1..Len(legs[b])
    BY <1>3, LenProperties
  <2>4. edited # <<>> => edited[1].start = made.start
    <3>1. ASSUME legs[b] # <<>> PROVE edited[1].start = start
      <4>1. 1 \in DOMAIN legs[b] /\ legs[b][1].start = bookings[b].start
        BY <1>2, <1>3, <2>3, <3>1, EmptySeq DEF RowsAgree
      <4>2. ASSUME start # bookings[b].start PROVE Len(legs[b]) = 1
        <5>1. PICK n \in Nat : n = Len(legs[b])
          BY <2>3
        <5>2. n >= 1 /\ n <= 1
          BY <1>1, <2>3, <4>1, <4>2, <5>1
        <5>3. n = 1
          BY <5>2
        <5> QED
          BY <5>1, <5>3
      <4> QED
        BY <1>6, <4>1, <4>2
    <3> QED
      BY <1>4, <1>7, <3>1
  <2>5. Len(edited) = 2 => made.start # 0 /\ edited[2].start # 0
    <3>1. ASSUME Len(legs[b]) = 2 PROVE start # 0 /\ edited[2].start # 0
      <4>1. start = bookings[b].start /\ 2 \in DOMAIN legs[b]
        BY <1>1, <2>3, <3>1
      <4> QED
        BY <1>2, <1>6, <3>1, <4>1 DEF RowsAgree
    <3> QED
      BY <1>4, <1>7, <3>1
  <2> QED
    BY <1>4, <1>5, <2>1, <2>2, <2>4, <2>5 DEF RowsAgree
<1> QED
  BY <1>9, <1>10, <1>11 DEF FamilyInv

LEMMA LinkAgrees ==
  ASSUME FamilyInv, NEW b \in Bookings, link(b)
  PROVE  FamilyInv'
<1> DEFINE made == [bookings[b] EXCEPT !.version = @ + 1]
<1>1. bookings' = [bookings EXCEPT ![b] = made] /\ UNCHANGED <<legs, alerts>>
  BY DEF link
<1>2. bookings[b] \in BookingRow /\ bookings[b] # None
  BY DEF link, FamilyInv, FamilyTables
<1>3. /\ made \in BookingRow /\ made.trip = bookings[b].trip /\ made.start = bookings[b].start
      /\ made.status = bookings[b].status /\ made # None
  BY <1>2, WorkspaceAssumption DEF BookingRow
<1> HIDE DEF made
<1>4. FamilyTables'
  BY <1>1, <1>3 DEF FamilyInv, FamilyTables
<1>5. ASSUME NEW c \in Bookings PROVE RowsAgree(c)'
  <2>1. bookings'[c] = IF c = b THEN made ELSE bookings[c]
    BY <1>1 DEF FamilyInv, FamilyTables
  <2>2. RowsAgree(c)
    BY DEF FamilyInv
  <2>3. CASE c = b
    BY <1>1, <1>2, <1>3, <2>1, <2>2, <2>3 DEF RowsAgree
  <2>4. CASE c # b
    BY <1>1, <2>1, <2>2, <2>4 DEF RowsAgree
  <2> QED
    BY <2>3, <2>4
<1> QED
  BY <1>4, <1>5 DEF FamilyInv

LEMMA MoveAgrees ==
  ASSUME FamilyInv, NEW source \in Trips, NEW to \in Trips, move_bookings(source, to)
  PROVE  FamilyInv'
<1>1. PICK set \in SUBSET Bookings :
        /\ \A b \in set : bookings[b] # None
        /\ bookings' = [b \in Bookings |->
             IF b \in set THEN [bookings[b] EXCEPT !.trip = to, !.version = @ + 1] ELSE bookings[b]]
        /\ legs' = LegsMoved(set, to)
        /\ alerts' = AlertsMoved(set, to)
  BY DEF move_bookings
<1>2. ASSUME NEW b \in Bookings
      PROVE  /\ bookings'[b] \in BookingRow \cup {None} /\ legs'[b] \in Seq(Leg) /\ Len(legs'[b]) <= 2
             /\ alerts'[b] \subseteq Reminder /\ RowsAgree(b)'
  <2>1. RowsAgree(b) /\ bookings[b] \in BookingRow \cup {None} /\ legs[b] \in Seq(Leg) /\ Len(legs[b]) <= 2
        /\ alerts[b] \subseteq Reminder
    BY DEF FamilyInv, FamilyTables
  <2>2. CASE b \notin set
    <3>1. bookings'[b] = bookings[b] /\ legs'[b] = legs[b] /\ alerts'[b] = alerts[b]
      BY <1>1, <2>2 DEF LegsMoved, AlertsMoved
    <3> QED
      BY <2>1, <3>1 DEF RowsAgree
  <2>3. CASE b \in set
    <3> DEFINE made == [bookings[b] EXCEPT !.trip = to, !.version = @ + 1]
               moved == [i \in DOMAIN legs[b] |-> [legs[b][i] EXCEPT !.trip = to]]
               reminders == {[a EXCEPT !.trip = to] : a \in alerts[b]}
    <3>1. bookings'[b] = made /\ legs'[b] = moved /\ alerts'[b] = reminders
      BY <1>1, <2>3 DEF LegsMoved, AlertsMoved
    <3>2. /\ made \in BookingRow /\ made.trip = to /\ made.start = bookings[b].start
          /\ made.status = bookings[b].status /\ made # None
      <4>1. bookings[b] \in BookingRow
        BY <1>1, <2>1, <2>3
      <4>2. made \in BookingRow /\ made.trip = to /\ made.start = bookings[b].start /\ made.status = bookings[b].status
        <5>1. PICK v \in Nat : v = bookings[b].version + 1
          BY <4>1 DEF BookingRow
        <5>2. made = [bookings[b] EXCEPT !.trip = to, !.version = v]
          BY <5>1
        <5> HIDE DEF made
        <5> QED
          BY <4>1, <5>2 DEF BookingRow
      <4> QED
        BY <4>2, WorkspaceAssumption
    <3>3. \A i \in DOMAIN legs[b] :
            /\ moved[i] \in Leg /\ moved[i].trip = to /\ moved[i].status = legs[b][i].status
            /\ moved[i].start = legs[b][i].start
      <4>1. \A i \in DOMAIN legs[b] : legs[b][i] \in Leg
        BY <2>1
      <4>2. ASSUME NEW i \in DOMAIN legs[b] PROVE moved[i] = [legs[b][i] EXCEPT !.trip = to]
        OBVIOUS
      <4> HIDE DEF moved
      <4> QED
        BY <4>1, <4>2 DEF Leg
    <3>4. moved \in Seq(Leg) /\ Len(moved) = Len(legs[b]) /\ DOMAIN moved = DOMAIN legs[b] /\ (moved = <<>> <=> legs[b] = <<>>)
      <4>1. moved \in [DOMAIN legs[b] -> Leg]
        BY <3>3
      <4> HIDE DEF moved
      <4> QED
        BY <2>1, <4>1, LegsMapped
    <3>5. /\ reminders \in {{}, {[trip |-> to, due |-> bookings[b].start]}} /\ reminders \subseteq Reminder
          /\ reminders # {} => alerts[b] # {}
      <4>1. CASE alerts[b] = {}
        BY <4>1
      <4>2. CASE alerts[b] # {}
        <5> DEFINE a == [trip |-> bookings[b].trip, due |-> bookings[b].start]
        <5>1. alerts[b] = {a} /\ a \in Reminder
          BY <1>1, <2>1, <2>3, <4>2 DEF RowsAgree
        <5>2. [a EXCEPT !.trip = to] = [trip |-> to, due |-> bookings[b].start]
          OBVIOUS
        <5>3. [trip |-> to, due |-> bookings[b].start] \in Reminder
          BY <5>1 DEF Reminder
        <5> HIDE DEF a
        <5> QED
          BY <4>2, <5>1, <5>2, <5>3
      <4> QED
        BY <4>1, <4>2
    <3> HIDE DEF made, moved, reminders
    <3>6. Len(legs[b]) \in Nat /\ DOMAIN legs[b] = 1..Len(legs[b])
      BY <2>1, LenProperties
    <3>7. legs[b] # <<>> => 1 \in DOMAIN legs[b]
      BY <2>1, <3>6, EmptySeq
    <3>8. Len(legs[b]) = 2 => 2 \in DOMAIN legs[b]
      BY <3>6
    <3>9. RowsAgree(b)'
      <4>1. bookings[b] # None
        BY <1>1, <2>3
      <4>2. \A i \in DOMAIN moved : moved[i].trip = made.trip /\ moved[i].status = made.status
        BY <2>1, <3>2, <3>3, <3>4, <4>1 DEF RowsAgree
      <4>3. moved # <<>> => moved[1].start = made.start
        BY <2>1, <3>2, <3>3, <3>4, <3>7, <4>1 DEF RowsAgree
      <4>4. Len(moved) = 2 => made.start # 0 /\ moved[2].start # 0
        BY <2>1, <3>2, <3>3, <3>4, <3>8, <4>1 DEF RowsAgree
      <4>5. reminders # {} => made.start # 0 /\ made.status # "cancelled"
        BY <2>1, <3>2, <3>5, <4>1 DEF RowsAgree
      <4> QED
        BY <3>1, <3>2, <3>5, <4>2, <4>3, <4>4, <4>5 DEF RowsAgree
    <3> QED
      BY <2>1, <3>1, <3>2, <3>4, <3>5, <3>9
  <2> QED
    BY <2>2, <2>3
<1>3. FamilyTables'
  <2>1. DOMAIN bookings' = Bookings /\ DOMAIN legs' = Bookings /\ DOMAIN alerts' = Bookings
    BY <1>1 DEF LegsMoved, AlertsMoved
  <2>2. /\ bookings' = [b \in Bookings |-> bookings'[b]] /\ legs' = [b \in Bookings |-> legs'[b]]
        /\ alerts' = [b \in Bookings |-> alerts'[b]]
    BY <1>1 DEF LegsMoved, AlertsMoved
  <2> QED
    BY <1>2, <2>2 DEF FamilyTables
<1> QED
  BY <1>2, <1>3 DEF FamilyInv

\* What the family sees, in a trip's calendar feed and as reminders, is what the
\* bookings say, whichever rows of a booking entered by hand are written
\* (handlers/travel.rs create_booking, edit_booking, move_bookings).
THEOREM FamilySeesBookings == WorkspaceSpec => []FamilySees
<1>1. WorkspaceInit => FamilyInv
  BY EmptySeq DEF WorkspaceInit, FamilyInv, FamilyTables, RowsAgree
<1>2. FamilyInv /\ [WorkspaceNext]_workspace_vars => FamilyInv'
  <2> SUFFICES ASSUME FamilyInv, [WorkspaceNext]_workspace_vars PROVE FamilyInv'
    OBVIOUS
  <2>1. ASSUME UNCHANGED <<bookings, legs, alerts>> PROVE FamilyInv'
    BY <2>1 DEF FamilyInv, FamilyTables, RowsAgree
  <2>2. CASE UNCHANGED workspace_vars
    BY <2>1, <2>2 DEF workspace_vars
  <2>3. ASSUME NEW t \in Trips, edit_trip(t) PROVE FamilyInv'
    BY <2>1, <2>3 DEF edit_trip
  <2> QED
    BY <2>2, <2>3, CreateAgrees, ReceiptAgrees, EditAgrees, LinkAgrees, MoveAgrees DEF WorkspaceNext
<1>3. FamilyInv => FamilySees
  BY FeedFromRows, RemindersFromRows DEF FamilySees
<1> QED
  BY <1>1, <1>2, <1>3, PTL DEF WorkspaceSpec

-----------------------------------------------------------------------------
(* The choice of a trip.                                                   *)

\* A set of numbers has a least one.
LEMMA FirstNumber ==
  ASSUME NEW S \in SUBSET Nat, S # {}
  PROVE  \E n \in S : \A m \in S : ~(m < n)
<1> DEFINE R == OpToRel(<, Nat)
<1>1. PICK x \in S : \A y \in S : <<y, x>> \notin R
  BY NatLessThanWellFounded, WFMin
<1>2. \A y \in S : <<y, x>> \notin {p \in Nat \X Nat : p[1] < p[2]}
  BY <1>1 DEF OpToRel
<1>3. \A y \in S : ~(y < x)
  BY <1>2
<1> QED
  BY <1>3

\* What the trips weighed one by one come to: a function of how many of them
\* were weighed.
Score(r, n) == trip_match_score(journeys[n], r)
NotWeighed == [best |-> 0, score |-> 0, ambiguous |-> FALSE]
Weighs(g, r, k) ==
  g = [n \in 0..k |-> IF n = 0 THEN NotWeighed ELSE weigh(g[n - 1], n, Score(r, n))]

LEMMA WeighedOneByOne ==
  ASSUME NEW r, NEW top \in Nat
  PROVE  \E g : Weighs(g, r, top)
<1> DEFINE S == {k \in Nat : ~\E g : Weighs(g, r, k)}
<1>1. CASE S = {}
  BY <1>1
<1>2. CASE S # {}
  <2>1. PICK k \in S : \A m \in S : ~(m < k)
    BY <1>2, FirstNumber
  <2>2. CASE k = 0
    <3> DEFINE g == [n \in 0..0 |-> NotWeighed]
    <3>1. g = [n \in 0..0 |-> IF n = 0 THEN NotWeighed ELSE weigh(g[n - 1], n, Score(r, n))]
      <4>1. ASSUME NEW n \in 0..0 PROVE n = 0
        OBVIOUS
      <4> QED
        BY <4>1
    <3>2. Weighs(g, r, 0)
      BY <3>1 DEF Weighs
    <3> QED
      BY <2>1, <2>2, <3>2
  <2>3. CASE k # 0
    <3>0. k \in Nat /\ k - 1 \in Nat /\ k - 1 < k
      BY <2>3
    <3>1. PICK g : Weighs(g, r, k - 1)
      BY <2>1, <3>0
    <3> DEFINE h == [n \in 0..k |-> IF n = k THEN weigh(g[k - 1], k, Score(r, k)) ELSE g[n]]
               next(n) == IF n = 0 THEN NotWeighed ELSE weigh(h[n - 1], n, Score(r, n))
    <3>2. ASSUME NEW n \in 0..k PROVE h[n] = next(n)
      <4>1. n \in Nat /\ (n # 0 => n - 1 \in 0..k /\ n - 1 # k)
        BY <3>0
      <4>2. n # 0 => h[n - 1] = g[n - 1]
        BY <4>1
      <4>3. CASE n = k
        BY <2>3, <4>2, <4>3
      <4>4. CASE n # k
        <5>1. n \in 0..(k - 1)
          BY <3>0, <4>1, <4>4
        <5>2. g[n] = IF n = 0 THEN NotWeighed ELSE weigh(g[n - 1], n, Score(r, n))
          <6> HIDE DEF NotWeighed
          <6> QED
            BY <3>1, <5>1 DEF Weighs
        <5>3. h[n] = g[n]
          BY <4>4
        <5> QED
          BY <4>2, <5>2, <5>3
      <4> QED
        BY <4>3, <4>4
    <3>3. h = [n \in 0..k |-> next(n)]
      <4>1. h = [n \in 0..k |-> h[n]]
        OBVIOUS
      <4> HIDE DEF h, next
      <4> QED
        BY <3>2, <4>1
    <3>4. Weighs(h, r, k)
      <4> HIDE DEF h
      <4> QED
        BY <3>3 DEF Weighs, next
    <3> HIDE DEF h
    <3> QED
      BY <2>1, <3>4
  <2> QED
    BY <2>2, <2>3
<1> QED
  BY <1>1, <1>2

\* The recursion has a solution, so Weighing is one.
LEMMA WeighingIs ==
  ASSUME NEW r, Len(journeys) \in Nat
  PROVE  Weighs(Weighing(r), r, Len(journeys))
<1>1. PICK g : Weighs(g, r, Len(journeys))
  BY WeighedOneByOne
<1>2. Weighing(r) = CHOOSE at : at = [n \in 0..Len(journeys) |->
          IF n = 0 THEN NotWeighed ELSE weigh(at[n - 1], n, Score(r, n))]
  BY DEF Weighing, Score, NotWeighed
<1> QED
  BY <1>1, <1>2 DEF Weighs

LEMMA ScoreNat ==
  ASSUME NEW r, NEW n PROVE Score(r, n) \in Nat
<1>1. trip_place_relation(journeys[n], r) \in {"match", "unknown", "mismatch"}
  BY DEF trip_place_relation
<1> QED
  BY <1>1 DEF Score, trip_match_score

\* What weighing the first trips has found out about them.
FoundOut(at, r, n) ==
  /\ at = [best |-> at.best, score |-> at.score, ambiguous |-> at.ambiguous]
  /\ at.best \in 0..n /\ at.score \in Nat /\ at.ambiguous \in BOOLEAN
  /\ \A j \in 1..n : Score(r, j) <= at.score
  /\ at.score = 0 => at.best = 0 /\ ~at.ambiguous
  /\ at.score > 0 => at.best \in 1..n /\ Score(r, at.best) = at.score
  /\ at.ambiguous <=> at.score > 0 /\ \E j \in (1..n) \ {at.best} : Score(r, j) = at.score

LEMMA WeighedNext ==
  ASSUME NEW r, NEW n \in Nat, NEW at, FoundOut(at, r, n)
  PROVE  FoundOut(weigh(at, n + 1, Score(r, n + 1)), r, n + 1)
<1> DEFINE s == Score(r, n + 1)
           next == weigh(at, n + 1, s)
<1>1. s \in Nat /\ \A j \in 1..n : Score(r, j) \in Nat
  BY ScoreNat
<1>2. \A j \in 1..(n + 1) : j = n + 1 \/ j \in 1..n
  OBVIOUS
<1>3. n + 1 \in 1..(n + 1) /\ (1..n) \subseteq 1..(n + 1) /\ n + 1 \notin 1..n
  OBVIOUS
<1>4. CASE s > at.score
  <2>1. next = [best |-> n + 1, score |-> s, ambiguous |-> FALSE]
    BY <1>4 DEF weigh
  <2>2. s > 0
    BY <1>1, <1>4 DEF FoundOut
  <2>3. ASSUME NEW j \in (1..(n + 1)) \ {n + 1} PROVE Score(r, j) < s /\ Score(r, j) # s
    BY <1>1, <1>2, <1>4 DEF FoundOut
  <2>4. \A j \in 1..(n + 1) : Score(r, j) <= s
    BY <1>1, <1>2, <2>3
  <2> HIDE DEF next
  <2>5. next.best = n + 1 /\ next.score = s /\ next.ambiguous = FALSE
    BY <2>1
  <2>6. Score(r, next.best) = s
    BY <2>5
  <2>7. ~\E j \in (1..(n + 1)) \ {next.best} : Score(r, j) = next.score
    BY <2>3, <2>5
  <2>8. /\ next = [best |-> next.best, score |-> next.score, ambiguous |-> next.ambiguous]
        /\ next.best \in 0..(n + 1) /\ next.best \in 1..(n + 1)
        /\ next.score \in Nat /\ next.ambiguous \in BOOLEAN /\ next.score > 0
    BY <1>1, <2>1, <2>2, <2>5
  <2>9. /\ \A j \in 1..(n + 1) : Score(r, j) <= next.score
        /\ Score(r, next.best) = next.score
        /\ ~next.ambiguous /\ next.score # 0
    BY <1>1, <2>2, <2>4, <2>5, <2>6
  <2> QED
    BY <2>7, <2>8, <2>9 DEF FoundOut, next
<1>5. CASE ~(s > at.score)
  <2>1. next = [at EXCEPT !.ambiguous = @ \/ (s = at.score /\ s > 0)]
    BY <1>5 DEF weigh
  <2> HIDE DEF next
  <2>2. /\ next = [best |-> next.best, score |-> next.score, ambiguous |-> next.ambiguous]
        /\ next.best = at.best /\ next.score = at.score /\ next.ambiguous = (at.ambiguous \/ (s = at.score /\ s > 0))
    BY <2>1 DEF FoundOut
  <2>3. s <= at.score /\ at.score \in Nat
    BY <1>1, <1>5 DEF FoundOut
  <2>4. \A j \in 1..(n + 1) : Score(r, j) <= next.score
    BY <1>2, <2>2, <2>3 DEF FoundOut
  <2>5. next.ambiguous \in BOOLEAN /\ (next.score = 0 => next.best = 0 /\ ~next.ambiguous)
    BY <1>1, <2>2 DEF FoundOut
  <2>6. next.score > 0 => next.best \in 1..(n + 1) /\ Score(r, next.best) = next.score
    BY <1>3, <2>2 DEF FoundOut
  <2>7. next.best \in 0..(n + 1)
    BY <2>2 DEF FoundOut
  <2>8. next.ambiguous <=> next.score > 0 /\ \E j \in (1..(n + 1)) \ {next.best} : Score(r, j) = next.score
    <3>1. ASSUME next.ambiguous
          PROVE  next.score > 0 /\ \E j \in (1..(n + 1)) \ {next.best} : Score(r, j) = next.score
      <4>1. CASE at.ambiguous
        BY <1>3, <2>2, <4>1 DEF FoundOut
      <4>2. CASE s = at.score /\ s > 0
        <5>1. at.best # n + 1
          BY <1>3, <4>2 DEF FoundOut
        <5> QED
          BY <1>3, <2>2, <4>2, <5>1
      <4> QED
        BY <2>2, <3>1, <4>1, <4>2
    <3>2. ASSUME next.score > 0, NEW j \in (1..(n + 1)) \ {next.best}, Score(r, j) = next.score
          PROVE  next.ambiguous
      <4>1. CASE j = n + 1
        BY <2>2, <3>2, <4>1
      <4>2. CASE j \in 1..n
        BY <2>2, <3>2, <4>2 DEF FoundOut
      <4> QED
        BY <1>2, <4>1, <4>2
    <3> QED
      BY <3>1, <3>2
  <2>9. next.score \in Nat
    BY <2>2, <2>3
  <2> HIDE DEF s
  <2> QED
    BY <2>2, <2>4, <2>5, <2>6, <2>7, <2>8, <2>9 DEF FoundOut, s, next
<1> QED
  BY <1>4, <1>5

LEMMA WeighedAll ==
  ASSUME NEW r, NEW L \in Nat, NEW g, Weighs(g, r, L)
  PROVE  FoundOut(g[L], r, L)
<1> DEFINE S == {k \in 0..L : ~FoundOut(g[k], r, k)}
<1>1. CASE S = {}
  BY <1>1
<1>2. CASE S # {}
  <2>0. S \in SUBSET Nat
    OBVIOUS
  <2>1. PICK k \in S : \A m \in S : ~(m < k)
    <3> HIDE DEF S
    <3> QED
      BY <1>2, <2>0, FirstNumber
  <2>2. CASE k = 0
    <3>1. g[0] = NotWeighed
      BY DEF Weighs
    <3>2. FoundOut(g[0], r, 0)
      BY <3>1 DEF FoundOut, NotWeighed
    <3> QED
      BY <2>1, <2>2, <3>2
  <2>3. CASE k # 0
    <3> DEFINE p == k - 1
    <3>1. p \in Nat /\ p \in 0..L /\ p < k /\ k = p + 1 /\ k \in 0..L
      BY <2>1, <2>3
    <3>2. FoundOut(g[p], r, p)
      BY <2>1, <3>1
    <3>3. g[k] = weigh(g[p], k, Score(r, k))
      <4> HIDE DEF NotWeighed
      <4> QED
        BY <2>3, <3>1 DEF Weighs
    <3> HIDE DEF p
    <3>4. FoundOut(g[k], r, k)
      BY <3>1, <3>2, <3>3, WeighedNext
    <3> QED
      BY <2>1, <3>4
  <2> QED
    BY <2>2, <2>3
<1> QED
  BY <1>1, <1>2

\* The trip chosen is the one that matches better than every other, and there
\* is none only where no trip does.
LEMMA SelectedIsBest ==
  ASSUME NEW r, journeys \in Seq(Journey)
  PROVE  LET better(i, j) == trip_match_score(journeys[i], r) > trip_match_score(journeys[j], r)
             best == {i \in DOMAIN journeys : trip_match_score(journeys[i], r) > 0
                                           /\ \A j \in (DOMAIN journeys) \ {i} : better(i, j)}
             chosen == select_matching_trip(r)
         IN /\ best = IF chosen = 0 THEN {} ELSE {chosen}
            /\ chosen = 0 \/ chosen \in DOMAIN journeys
<1> DEFINE L == Len(journeys)
           at == Weighing(r)[L]
           chosen == select_matching_trip(r)
           best == {i \in 1..L : Score(r, i) > 0 /\ \A j \in (1..L) \ {i} : Score(r, i) > Score(r, j)}
<1>1. L \in Nat /\ DOMAIN journeys = 1..L
  BY LenProperties
<1>2. FoundOut(at, r, L)
  BY <1>1, WeighingIs, WeighedAll
<1>3. chosen = IF at.ambiguous THEN 0 ELSE at.best
  BY DEF select_matching_trip
<1> HIDE DEF at, L, chosen
<1>4. \A j \in 1..L : Score(r, j) \in Nat
  BY ScoreNat
<1>5. CASE chosen = 0
  <2>1. ASSUME NEW i \in best PROVE FALSE
    <3>1. Score(r, i) \in Nat /\ Score(r, i) > 0 /\ Score(r, i) <= at.score /\ at.score \in Nat /\ i \in 1..L
      BY <1>2, <1>4, <2>1 DEF FoundOut
    <3>2. at.score > 0 /\ at.score # 0
      BY <3>1
    <3>3. at.best \in 1..L /\ Score(r, at.best) = at.score
      BY <1>2, <3>2 DEF FoundOut
    <3>4. at.best = i
      <4>1. CASE at.best # i
        <5>1. Score(r, i) > Score(r, at.best)
          BY <2>1, <3>3, <4>1
        <5> QED
          BY <3>1, <3>3, <5>1
      <4> QED
        BY <4>1
    <3>5. at.ambiguous
      <4>1. at.best # 0
        BY <1>1, <3>3
      <4> QED
        BY <1>3, <1>5, <4>1
    <3>6. PICK j \in (1..L) \ {i} : Score(r, j) = at.score
      BY <1>2, <3>4, <3>5 DEF FoundOut
    <3>7. Score(r, i) > Score(r, j)
      BY <2>1, <3>6
    <3> QED
      BY <3>1, <3>6, <3>7
  <2>2. best = {}
    BY <2>1
  <2> QED
    BY <1>1, <1>5, <2>2 DEF Score, chosen
<1>6. CASE chosen # 0
  <2>1. ~at.ambiguous /\ chosen = at.best
    BY <1>3, <1>6
  <2>2. at.score > 0 /\ at.score \in Nat
    BY <1>2, <1>6, <2>1 DEF FoundOut
  <2>3. chosen \in 1..L /\ Score(r, chosen) = at.score
    BY <1>2, <2>1, <2>2 DEF FoundOut
  <2>4. ASSUME NEW j \in (1..L) \ {chosen} PROVE Score(r, chosen) > Score(r, j)
    <3>1. Score(r, j) # at.score
      BY <1>2, <2>1, <2>2 DEF FoundOut
    <3>2. Score(r, j) <= at.score /\ Score(r, j) \in Nat
      BY <1>2, <1>4 DEF FoundOut
    <3> QED
      BY <2>2, <2>3, <3>1, <3>2
  <2>5. chosen \in best
    BY <2>2, <2>3, <2>4
  <2>6. ASSUME NEW i \in best, i # chosen PROVE FALSE
    <3>1. Score(r, i) > Score(r, chosen) /\ Score(r, chosen) > Score(r, i)
      BY <2>3, <2>4, <2>6
    <3> QED
      BY <1>4, <2>3, <2>6, <3>1
  <2>7. best = {chosen}
    BY <2>5, <2>6
  <2> QED
    BY <1>1, <1>6, <2>3, <2>7 DEF Score, chosen
<1> QED
  BY <1>5, <1>6

-----------------------------------------------------------------------------
(* The dates of trips.                                                     *)

\* The import that was checked leaves no booking without its trip.
CheckedFits ==
  checked # None => \A i \in DOMAIN checked.filed : checked.filed[i].trip \in DOMAIN checked.trips

MatchingInv == MatchingTypeOK /\ BookingsWithinTrips /\ CheckedFits

\* A trip that is widened still takes in what it took in, and the new dates.
LEMMA ExpandedTakesIn ==
  ASSUME NEW trip \in Journey, NEW start \in Nat, NEW end \in Nat, NEW place \in DOMAIN Place \cup {None}
  PROVE  LET now == Expanded(trip, start, end, place)
         IN /\ now \in Journey
            /\ \A row \in FiledRow : TakesIn(trip, row) => TakesIn(now, row)
            /\ \A row \in FiledRow : row.start = start /\ row.end = end => TakesIn(now, row)
<1> DEFINE now == Expanded(trip, start, end, place)
<1>1. trip.starts \in Nat /\ trip.ends \in Nat /\ trip.destination \in DOMAIN Place \cup {None}
  BY DEF Journey
<1>2. now = [destination |-> Either(trip.destination, place),
             starts |-> Earlier(trip.starts, start), ends |-> Later(trip.ends, Dated(end, start))]
  BY DEF Expanded
<1>3. Either(trip.destination, place) \in DOMAIN Place \cup {None}
  BY <1>1 DEF Either
<1>4. /\ now.starts \in Nat /\ now.ends \in Nat
      /\ trip.starts # 0 => now.starts # 0 /\ now.starts <= trip.starts
      /\ start # 0 => now.starts # 0 /\ now.starts <= start
      /\ trip.ends <= now.ends /\ end <= now.ends
      /\ end = 0 => start <= now.ends
  BY <1>1, <1>2 DEF Earlier, Later, Dated
<1>5. now \in Journey
  <2>1. Earlier(trip.starts, start) \in Nat /\ Later(trip.ends, Dated(end, start)) \in Nat
    BY <1>1 DEF Earlier, Later, Dated
  <2> QED
    BY <1>2, <1>3, <2>1 DEF Journey
<1> HIDE DEF now
<1>6. ASSUME NEW row \in FiledRow, TakesIn(trip, row) PROVE TakesIn(now, row)
  <2>1. row.start \in Nat /\ row.end \in Nat
    BY DEF FiledRow
  <2> QED
    BY <1>1, <1>4, <1>6, <2>1 DEF TakesIn
<1>7. ASSUME NEW row \in FiledRow, row.start = start, row.end = end PROVE TakesIn(now, row)
  BY <1>4, <1>7 DEF TakesIn
<1> QED
  BY <1>5, <1>6, <1>7 DEF now

LEMMA NewTripTakesIn ==
  ASSUME NEW place \in DOMAIN Place \cup {None}, NEW start \in Nat, NEW end \in Nat, start # 0
  PROVE  LET trip == [destination |-> place, starts |-> start, ends |-> Dated(end, start)]
         IN /\ trip \in Journey
            /\ \A row \in FiledRow : row.start = start /\ row.end = end => TakesIn(trip, row)
<1>1. Dated(end, start) \in Nat
  BY DEF Dated
<1> QED
  BY <1>1 DEF Journey, TakesIn, Dated

LEMMA FilingKeepsBounds ==
  ASSUME MatchingInv, NEW r \in Reservations, find_or_create_trip(r)
  PROVE  MatchingInv'
<1> DEFINE i == select_matching_trip(r)
           t == IF i = 0 THEN Len(journeys) + 1 ELSE i
           place == Either(r.destination, r.address)
           trip == IF i = 0 THEN [destination |-> place, starts |-> r.start, ends |-> Dated(r.end, r.start)]
                   ELSE Expanded(journeys[i], r.start, r.end, place)
           row == [trip |-> t, start |-> r.start, end |-> r.end, changes |-> 0]
<1>1. /\ r.start # 0 /\ UNCHANGED checked
      /\ journeys' = IF i = 0 THEN Append(journeys, trip) ELSE [journeys EXCEPT ![i] = trip]
      /\ filed' = Append(filed, row)
  BY Zenon DEF find_or_create_trip
<1>2. journeys \in Seq(Journey) /\ filed \in Seq(FiledRow) /\ checked \in Legacies \cup {None}
  BY DEF MatchingInv, MatchingTypeOK
<1>3. Len(journeys) \in Nat /\ DOMAIN journeys = 1..Len(journeys) /\ Len(filed) \in Nat /\ DOMAIN filed = 1..Len(filed)
  BY <1>2, LenProperties
<1>4. i = 0 \/ i \in DOMAIN journeys
  BY <1>2, SelectedIsBest
<1>5. r.start \in Nat /\ r.end \in Nat /\ place \in DOMAIN Place \cup {None}
  BY MatchingAssumption DEF Either
<1> HIDE DEF i, place
<1>6. t \in Nat /\ row \in FiledRow /\ row.start = r.start /\ row.end = r.end /\ row.trip = t
  BY <1>3, <1>4, <1>5, MatchingAssumption DEF FiledRow
<1>7. trip \in Journey /\ TakesIn(trip, row)
  <2>1. CASE i = 0
    <3>1. trip = [destination |-> place, starts |-> r.start, ends |-> Dated(r.end, r.start)]
      BY <2>1
    <3> HIDE DEF trip, row
    <3> QED
      BY <1>1, <1>5, <1>6, <3>1, NewTripTakesIn
  <2>2. CASE i # 0
    <3>1. trip = Expanded(journeys[i], r.start, r.end, place) /\ journeys[i] \in Journey
      BY <1>2, <1>4, <2>2
    <3> HIDE DEF trip, row
    <3> QED
      BY <1>5, <1>6, <3>1, ExpandedTakesIn
  <2> QED
    BY <2>1, <2>2
<1>8. i # 0 => \A k \in FiledRow : TakesIn(journeys[i], k) => TakesIn(trip, k)
  <2> SUFFICES ASSUME i # 0 PROVE \A k \in FiledRow : TakesIn(journeys[i], k) => TakesIn(trip, k)
    OBVIOUS
  <2>1. trip = Expanded(journeys[i], r.start, r.end, place) /\ journeys[i] \in Journey
    BY <1>2, <1>4
  <2> HIDE DEF trip
  <2> QED
    BY <1>5, <2>1, ExpandedTakesIn
<1> HIDE DEF trip, row, t
<1>9. /\ journeys' \in Seq(Journey) /\ t \in DOMAIN journeys' /\ journeys'[t] = trip
      /\ \A k \in DOMAIN journeys : k \in DOMAIN journeys' /\ (k = t \/ journeys'[k] = journeys[k])
      /\ i = 0 => t \notin DOMAIN journeys
      /\ i # 0 => t = i
  <2>1. CASE i = 0
    <3>1. journeys' = Append(journeys, trip) /\ t = Len(journeys) + 1
      BY <1>1, <2>1 DEF t
    <3>2. journeys' \in Seq(Journey) /\ Len(journeys') = Len(journeys) + 1 /\ DOMAIN journeys' = 1..(Len(journeys) + 1)
      BY <1>2, <1>7, <3>1, AppendProperties
    <3>3. journeys'[Len(journeys) + 1] = trip /\ \A k \in 1..Len(journeys) : journeys'[k] = journeys[k]
      BY <1>2, <1>7, <3>1, AppendProperties
    <3> QED
      BY <1>3, <2>1, <3>1, <3>2, <3>3
  <2>2. CASE i # 0
    <3>1. journeys' = [journeys EXCEPT ![i] = trip] /\ t = i
      BY <1>1, <2>2 DEF t
    <3>2. journeys' \in Seq(Journey) /\ DOMAIN journeys' = DOMAIN journeys
      BY <1>2, <1>4, <1>7, <2>2, <3>1, ExceptSeq
    <3> QED
      BY <1>4, <2>2, <3>1, <3>2
  <2> QED
    BY <2>1, <2>2
<1>10. /\ filed' \in Seq(FiledRow) /\ DOMAIN filed' = 1..(Len(filed) + 1)
       /\ filed'[Len(filed) + 1] = row /\ \A k \in 1..Len(filed) : filed'[k] = filed[k]
  BY <1>1, <1>2, <1>6, AppendProperties
<1>11. ASSUME NEW k \in DOMAIN filed'
       PROVE  filed'[k].trip \in DOMAIN journeys' /\ TakesIn(journeys'[filed'[k].trip], filed'[k])
  <2>1. CASE k = Len(filed) + 1
    BY <1>6, <1>7, <1>9, <1>10, <2>1
  <2>2. CASE k # Len(filed) + 1
    <3>1. k \in DOMAIN filed /\ filed'[k] = filed[k]
      BY <1>3, <1>10, <1>11, <2>2
    <3>2. filed[k].trip \in DOMAIN journeys /\ TakesIn(journeys[filed[k].trip], filed[k]) /\ filed[k] \in FiledRow
      BY <1>2, <3>1 DEF MatchingInv, BookingsWithinTrips
    <3>3. CASE filed[k].trip = t
      BY <1>8, <1>9, <3>1, <3>2, <3>3
    <3>4. CASE filed[k].trip # t
      BY <1>9, <3>1, <3>2, <3>4
    <3> QED
      BY <3>3, <3>4
  <2> QED
    BY <2>1, <2>2
<1> QED
  BY <1>1, <1>2, <1>9, <1>10, <1>11 DEF MatchingInv, MatchingTypeOK, BookingsWithinTrips, CheckedFits

LEMMA AmendingKeepsBounds ==
  ASSUME MatchingInv, NEW r \in Reservations, NEW i \in DOMAIN filed, Amend(i, r)
  PROVE  MatchingInv'
<1> DEFINE start == Dated(r.start, filed[i].start)
           end == Dated(r.end, filed[i].end)
           place == Either(r.address, r.destination)
           t == filed[i].trip
           trip == Expanded(journeys[t], start, end, place)
           row == [filed[i] EXCEPT !.start = start, !.end = end, !.changes = @ + 1]
<1>1. /\ filed[i].changes < MaxAmendments /\ UNCHANGED checked
      /\ journeys' = [journeys EXCEPT ![t] = trip]
  BY Zenon DEF Amend
<1>2. filed' = [filed EXCEPT ![i].start = start, ![i].end = end, ![i].changes = @ + 1]
  BY Zenon DEF Amend
<1>3. journeys \in Seq(Journey) /\ filed \in Seq(FiledRow) /\ checked \in Legacies \cup {None}
  BY DEF MatchingInv, MatchingTypeOK
<1>4. filed[i] \in FiledRow /\ t \in DOMAIN journeys /\ journeys[t] \in Journey
  BY <1>3 DEF MatchingInv, BookingsWithinTrips
<1>5. start \in Nat /\ end \in Nat /\ place \in DOMAIN Place \cup {None}
  BY <1>4, MatchingAssumption DEF Either, Dated, FiledRow
<1>6. filed' = [filed EXCEPT ![i] = row]
  BY <1>2, <1>3
<1> HIDE DEF start, end, place
<1>7. row \in FiledRow /\ row.start = start /\ row.end = end /\ row.trip = t
  <2>1. filed[i].changes + 1 \in 0..MaxAmendments
    BY <1>1, <1>4, MatchingAssumption DEF FiledRow
  <2>2. filed[i] = [trip |-> filed[i].trip, start |-> filed[i].start, end |-> filed[i].end, changes |-> filed[i].changes]
    BY <1>4 DEF FiledRow
  <2> QED
    BY <1>4, <1>5, <2>1, <2>2 DEF FiledRow
<1>8. trip \in Journey /\ TakesIn(trip, row) /\ \A k \in FiledRow : TakesIn(journeys[t], k) => TakesIn(trip, k)
  <2> HIDE DEF row, t
  <2> QED
    BY <1>4, <1>5, <1>7, ExpandedTakesIn
<1> HIDE DEF row, trip, t
<1>9. journeys' \in Seq(Journey) /\ DOMAIN journeys' = DOMAIN journeys /\ filed' \in Seq(FiledRow) /\ DOMAIN filed' = DOMAIN filed
  BY <1>1, <1>3, <1>4, <1>6, <1>7, <1>8, ExceptSeq
<1>10. ASSUME NEW k \in DOMAIN filed'
       PROVE  filed'[k].trip \in DOMAIN journeys' /\ TakesIn(journeys'[filed'[k].trip], filed'[k])
  <2>1. CASE k = i
    BY <1>1, <1>4, <1>6, <1>7, <1>8, <1>9, <2>1
  <2>2. CASE k # i
    <3>1. k \in DOMAIN filed /\ filed'[k] = filed[k] /\ filed[k] \in FiledRow
      BY <1>3, <1>6, <1>9, <1>10, <2>2
    <3>2. filed[k].trip \in DOMAIN journeys /\ TakesIn(journeys[filed[k].trip], filed[k])
      BY <3>1 DEF MatchingInv, BookingsWithinTrips
    <3>3. journeys'[filed[k].trip] = IF filed[k].trip = t THEN trip ELSE journeys[filed[k].trip]
      BY <1>1, <3>2
    <3> QED
      BY <1>8, <1>9, <3>1, <3>2, <3>3
  <2> QED
    BY <2>1, <2>2
<1> QED
  BY <1>1, <1>3, <1>9, <1>10 DEF MatchingInv, MatchingTypeOK, BookingsWithinTrips, CheckedFits

LEMMA ImportKeepsBounds ==
  ASSUME MatchingInv, CheckSnapshot \/ import_snapshot
  PROVE  MatchingInv'
<1>1. CASE CheckSnapshot
  BY <1>1 DEF CheckSnapshot, MatchingInv, MatchingTypeOK, BookingsWithinTrips, CheckedFits
<1>2. CASE import_snapshot
  <2> DEFINE L == Len(journeys)
             N == Len(filed)
             old == checked
             moved == [k \in DOMAIN old.filed |-> [old.filed[k] EXCEPT !.trip = @ + L]]
  <2>1. /\ checked # None /\ checked' = None
        /\ \/ journeys' = journeys \o old.trips /\ filed' = filed \o moved
           \/ UNCHANGED <<journeys, filed>>
    BY <1>2, Zenon DEF import_snapshot
  <2>2. CASE UNCHANGED <<journeys, filed>>
    BY <2>1, <2>2 DEF MatchingInv, MatchingTypeOK, BookingsWithinTrips, CheckedFits
  <2>3. CASE journeys' = journeys \o old.trips /\ filed' = filed \o moved
    <3>1. journeys \in Seq(Journey) /\ filed \in Seq(FiledRow) /\ old \in Legacies
      BY <2>1 DEF MatchingInv, MatchingTypeOK
    <3>2. /\ old.trips \in Seq(Journey) /\ old.filed \in Seq(FiledRow)
          /\ \A k \in DOMAIN old.filed : old.filed[k].trip \in DOMAIN old.trips /\ TakesIn(old.trips[old.filed[k].trip], old.filed[k])
      BY <2>1, <3>1, MatchingAssumption DEF MatchingInv, CheckedFits
    <3>3. /\ L \in Nat /\ DOMAIN journeys = 1..L /\ N \in Nat /\ DOMAIN filed = 1..N
          /\ Len(old.trips) \in Nat /\ DOMAIN old.trips = 1..Len(old.trips)
          /\ Len(old.filed) \in Nat /\ DOMAIN old.filed = 1..Len(old.filed)
      BY <3>1, <3>2, LenProperties
    <3> HIDE DEF L, N, old
    <3>4. ASSUME NEW k \in DOMAIN old.filed
          PROVE  /\ moved[k] \in FiledRow /\ moved[k].trip = old.filed[k].trip + L
                 /\ moved[k].start = old.filed[k].start /\ moved[k].end = old.filed[k].end
      <4> DEFINE was == old.filed[k]
      <4>1. was \in FiledRow
        BY <3>2
      <4>2. moved[k] = [was EXCEPT !.trip = @ + L]
        OBVIOUS
      <4> HIDE DEF was, moved
      <4>3. /\ was = [trip |-> was.trip, start |-> was.start, end |-> was.end, changes |-> was.changes]
            /\ was.trip \in Nat /\ was.start \in Nat /\ was.end \in Nat /\ was.changes \in 0..MaxAmendments
        BY <4>1 DEF FiledRow
      <4>4. moved[k] = [trip |-> was.trip + L, start |-> was.start, end |-> was.end, changes |-> was.changes]
        BY <4>2, <4>3
      <4>5. was.trip + L \in Nat
        BY <3>3, <4>3
      <4> QED
        BY <4>3, <4>4, <4>5 DEF FiledRow, was
    <3>5. moved \in Seq(FiledRow) /\ Len(moved) = Len(old.filed)
      <4>1. moved \in [1..Len(old.filed) -> FiledRow]
        BY <3>3, <3>4
      <4> HIDE DEF moved
      <4> QED
        BY <3>3, <4>1, SeqDef, LenProperties
    <3> HIDE DEF moved
    <3>6. /\ journeys' \in Seq(Journey) /\ Len(journeys') = L + Len(old.trips)
          /\ \A k \in 1..(L + Len(old.trips)) : journeys'[k] = IF k <= L THEN journeys[k] ELSE old.trips[k - L]
      BY <2>3, <3>1, <3>2, ConcatProperties DEF L
    <3>7. /\ filed' \in Seq(FiledRow) /\ Len(filed') = N + Len(old.filed)
          /\ \A k \in 1..(N + Len(old.filed)) : filed'[k] = IF k <= N THEN filed[k] ELSE moved[k - N]
      <4>1. /\ filed' \in Seq(FiledRow) /\ Len(filed') = Len(filed) + Len(moved)
            /\ \A k \in 1..(Len(filed) + Len(moved)) :
                 filed'[k] = IF k <= Len(filed) THEN filed[k] ELSE moved[k - Len(filed)]
        <5>1. filed' = filed \o moved
          BY <2>3
        <5>2. filed \in Seq(FiledRow) /\ moved \in Seq(FiledRow)
          BY <3>1, <3>5
        <5> QED
          BY <5>1, <5>2, ConcatProperties
      <4> QED
        BY <3>5, <4>1 DEF N
    <3>8. DOMAIN journeys' = 1..(L + Len(old.trips)) /\ DOMAIN filed' = 1..(N + Len(old.filed))
      BY <3>6, <3>7, LenProperties
    <3>9. ASSUME NEW k \in DOMAIN filed'
          PROVE  filed'[k].trip \in DOMAIN journeys' /\ TakesIn(journeys'[filed'[k].trip], filed'[k])
      <4>1. CASE k <= N
        <5>1. k \in DOMAIN filed /\ filed'[k] = filed[k]
          BY <3>3, <3>7, <3>8, <3>9, <4>1
        <5>2. filed[k].trip \in 1..L /\ TakesIn(journeys[filed[k].trip], filed[k])
          BY <3>3, <5>1 DEF MatchingInv, BookingsWithinTrips
        <5>3. filed[k].trip \in 1..(L + Len(old.trips)) /\ filed[k].trip <= L
          BY <3>3, <5>2
        <5> QED
          BY <3>6, <3>8, <5>1, <5>2, <5>3
      <4>2. CASE ~(k <= N)
        <5> DEFINE b == k - N
        <5>1. b \in DOMAIN old.filed /\ filed'[k] = moved[b]
          BY <3>3, <3>7, <3>8, <3>9, <4>2
        <5> HIDE DEF b
        <5>2. old.filed[b].trip \in 1..Len(old.trips) /\ TakesIn(old.trips[old.filed[b].trip], old.filed[b])
          BY <3>2, <3>3, <5>1
        <5> DEFINE x == old.filed[b].trip
                   m == Len(old.trips)
                   t == x + L
        <5>3. t \in 1..(L + Len(old.trips)) /\ ~(t <= L) /\ t - L = old.filed[b].trip
          <6>1. x \in 1..m /\ m \in Nat /\ L \in Nat
            BY <3>3, <5>2
          <6> HIDE DEF x, m
          <6>2. x + L \in 1..(L + m) /\ ~(x + L <= L) /\ (x + L) - L = x
            BY <6>1
          <6> QED
            BY <6>2 DEF x, m
        <5>4. filed'[k].trip = t /\ filed'[k].start = old.filed[b].start /\ filed'[k].end = old.filed[b].end
          BY <3>4, <5>1
        <5> HIDE DEF t
        <5>5. journeys'[t] = old.trips[old.filed[b].trip]
          BY <3>6, <5>3
        <5> QED
          BY <3>8, <5>2, <5>3, <5>4, <5>5 DEF TakesIn
      <4> QED
        BY <4>1, <4>2
    <3> QED
      BY <2>1, <3>6, <3>7, <3>9 DEF MatchingInv, MatchingTypeOK, BookingsWithinTrips, CheckedFits
  <2> QED
    BY <2>1, <2>2, <2>3
<1> QED
  BY <1>1, <1>2

LEMMA MatchingKeepsInv == ASSUME MatchingInv, [MatchingNext]_matching_vars PROVE MatchingInv'
<1>1. CASE MatchingNext
  BY <1>1, FilingKeepsBounds, AmendingKeepsBounds, ImportKeepsBounds DEF MatchingNext
<1>2. CASE UNCHANGED matching_vars
  BY <1>2 DEF matching_vars, MatchingInv, MatchingTypeOK, BookingsWithinTrips, CheckedFits
<1> QED
  BY <1>1, <1>2

LEMMA MatchingBegins == MatchingInit => MatchingInv
BY DEF MatchingInit, MatchingInv, MatchingTypeOK, BookingsWithinTrips, CheckedFits

LEMMA OrderNeverDecides == ASSUME MatchingTypeOK PROVE OrderDecidesNothing
BY SelectedIsBest DEF MatchingTypeOK, OrderDecidesNothing

\* The trip of a booking exists and takes in its dates, and which trip a
\* reservation goes to does not hang on their order: for any places, letters,
\* older databases and number of trips (handlers/travel.rs
\* expand_trip_bounds_on, select_matching_trip, import.rs import_snapshot).
THEOREM TripsTakeInBookings == MatchingSpec => [](BookingsWithinTrips /\ OrderDecidesNothing)
<1>1. MatchingInv => BookingsWithinTrips /\ OrderDecidesNothing
  BY OrderNeverDecides DEF MatchingInv
<1> QED
  BY <1>1, MatchingBegins, MatchingKeepsInv, PTL DEF MatchingSpec

\* Bookings are filed under a trip that takes them in, and appear to the family
\* as what they are (handlers/travel.rs): the family's side of the service
\* exercises one of its parts, and each keeps to its own promise.
THEOREM ItineraryStaysSound == Spec => []ItinerarySound
<1>1. Init => WorkspaceInit /\ MatchingInit
  BY DEF Init
<1>2. ASSUME [Next]_<<access_vars, workspace_vars, matching_vars, focus>>
      PROVE  [WorkspaceNext]_workspace_vars /\ [MatchingNext]_matching_vars
  BY <1>2 DEF Next
<1>3. Spec => WorkspaceSpec /\ MatchingSpec
  BY <1>1, <1>2, PTL DEF Spec, WorkspaceSpec, MatchingSpec
<1> QED
  BY <1>3, FamilySeesBookings, TripsTakeInBookings, PTL DEF ItinerarySound
=============================================================================
