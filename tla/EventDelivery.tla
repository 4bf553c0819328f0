---------------------------- MODULE EventDelivery ----------------------------
(***************************************************************************)
(* Webhook push of mail events.  A watch stores an event once per          *)
(* idempotency key and enqueues one delivery per enabled route; executors  *)
(* (`envelope watch --deliver' and the dashboard sweep) walk the due rows, *)
(* POST each event and record the outcome.  An executor reads the due      *)
(* rows once and writes each row after its answer: other executors,        *)
(* operators and crashes come in between.                                  *)
(***************************************************************************)
EXTENDS Naturals, FiniteSets, FiniteSetsExt, Rows

CONSTANTS
  Events, Routes,
  Executors,
  MaxAttempts,    \* backed-off retries (MAX_ATTEMPTS)
  MaxMishaps       \* bound: executor crashes and operator retries, together

VARIABLES
  events,         \* stored events, and which of them were acknowledged
  routes,         \* event_routes
  deliveries,     \* event_deliveries, by event and route
  pass,           \* what each executor still has to do, and the row it is POSTing
  posts,          \* requests sent for each delivery
  mishaps

delivery_vars == <<events, routes, deliveries, pass, posts, mishaps>>

Pairs == Events \X Routes
RouteRow == [enabled : BOOLEAN, webhook : BOOLEAN, secret : BOOLEAN]
Delivery == [attempts : Nat, due : BOOLEAN, delivered : BOOLEAN, dead : BOOLEAN]

ASSUME DeliveryAssumption == MaxAttempts \in Nat \ {0} /\ MaxMishaps \in Nat /\ None \notin Delivery

EventRow == {"new", "unacked", "acked", "pruned"}
Snapshot == [pair : Pairs, attempts : Nat]
Idle == [todo |-> {}, posting |-> {}]

DeliveryTypeOK ==
  /\ events \in [Events -> EventRow]
  /\ routes \in [Routes -> RouteRow \cup {None}]
  /\ deliveries \in [Pairs -> Delivery \cup {None}]
  /\ \A x \in Executors : /\ pass[x].todo \subseteq Snapshot /\ pass[x].posting \subseteq Snapshot
                          /\ Cardinality(pass[x].posting) <= 1
  /\ posts \in [Pairs -> Nat] /\ mishaps \in 0..MaxMishaps

(* Routes made before secrets existed have none.                           *)
DeliveryInit ==
  /\ events = [e \in Events |-> "new"]
  /\ routes \in [Routes -> {None, [enabled |-> TRUE, webhook |-> TRUE, secret |-> FALSE]}]
  /\ deliveries = [d \in Pairs |-> None]
  /\ pass = [x \in Executors |-> Idle]
  /\ posts = [d \in Pairs |-> 0] /\ mishaps = 0

-----------------------------------------------------------------------------
(* Events and routes.                                                      *)

insert_event_idempotent(e) ==
  /\ events[e] = "new"
  /\ events' = [events EXCEPT ![e] = "unacked"]
  /\ UNCHANGED <<routes, deliveries, pass, posts, mishaps>>

Stored(e) == events[e] \in {"unacked", "acked"}

mark_acked(e) ==
  /\ Stored(e)
  /\ events' = [events EXCEPT ![e] = "acked"]
  /\ UNCHANGED <<routes, deliveries, pass, posts, mishaps>>

(* Deliveries of a pruned event stay, to be found without one.             *)
prune_events(e) ==
  /\ Stored(e)
  /\ events' = [events EXCEPT ![e] = "pruned"]
  /\ UNCHANGED <<routes, deliveries, pass, posts, mishaps>>

(* A secret is minted once and kept by every later update.                 *)
upsert_event_route(r) ==
  /\ \E on, hook \in BOOLEAN : routes' = [routes EXCEPT ![r] = [enabled |-> on, webhook |-> hook, secret |-> TRUE]]
  /\ UNCHANGED <<events, deliveries, pass, posts, mishaps>>

delete_event_route(r) ==
  /\ routes[r] # None
  /\ routes' = [routes EXCEPT ![r] = None]
  /\ UNCHANGED <<events, deliveries, pass, posts, mishaps>>

list_enabled_event_routes == {r \in Routes : routes[r] # None /\ routes[r].enabled}

(* A known delivery is left as it is.                                      *)
enqueue_delivery(e, r) ==
  /\ Stored(e) /\ r \in list_enabled_event_routes
  /\ deliveries[<<e, r>>] = None
  /\ deliveries' = [deliveries EXCEPT ![<<e, r>>] =
                      [attempts |-> 0, due |-> TRUE, delivered |-> FALSE, dead |-> FALSE]]
  /\ UNCHANGED <<events, routes, pass, posts, mishaps>>

(* Time passes a row's next_attempt_at.                                    *)
Elapse(d) ==
  /\ deliveries[d] # None /\ ~deliveries[d].due
  /\ deliveries' = [deliveries EXCEPT ![d].due = TRUE]
  /\ UNCHANGED <<events, routes, pass, posts, mishaps>>

-----------------------------------------------------------------------------
(* The rows an executor writes.                                            *)

(* Mutant: the retry after the last one is granted too.                    *)
next_attempt_late(attempts_after) == attempts_after <= MaxAttempts + 1

(* Whether a failure leaves a retry.                                       *)
next_attempt_at(attempts_after) == attempts_after # 0 /\ attempts_after <= MaxAttempts

record_delivery_success(d) ==
  [deliveries EXCEPT ![d].attempts = @ + 1, ![d].delivered = TRUE]

(* Written whatever the row has become since it was read.                  *)
record_delivery_failure(d, retry) ==
  [deliveries EXCEPT ![d].attempts = @ + 1, ![d].due = FALSE, ![d].dead = ~retry]

list_due_deliveries ==
  {d \in Pairs : deliveries[d] # None /\ ~deliveries[d].delivered /\ ~deliveries[d].dead /\ deliveries[d].due}

(* An operator makes a dead letter, or a waiting row, due again; the count *)
(* of attempts stays.                                                      *)
reset_delivery_for_retry(d) ==
  /\ deliveries[d] # None /\ ~deliveries[d].delivered
  /\ mishaps < MaxMishaps /\ mishaps' = mishaps + 1
  /\ deliveries' = [deliveries EXCEPT ![d].dead = FALSE, ![d].due = TRUE]
  /\ UNCHANGED <<events, routes, pass, posts>>

BeginPass(x) ==
  /\ pass[x] = Idle /\ list_due_deliveries # {}
  /\ pass' = [pass EXCEPT ![x].todo = {[pair |-> d, attempts |-> deliveries[d].attempts] : d \in list_due_deliveries}]
  /\ UNCHANGED <<events, routes, deliveries, posts, mishaps>>

parse_webhook(r) == routes[r].webhook

(* A route or an event that is gone is a dead letter without a request.    *)
Deliverable(d) == routes[d[2]] # None /\ Stored(d[1]) /\ parse_webhook(d[2])

post_webhook(x) ==
  /\ pass[x].posting = {}
  /\ \E s \in pass[x].todo :
       /\ IF Deliverable(s.pair)
            THEN /\ pass' = [pass EXCEPT ![x] = [todo |-> @.todo \ {s}, posting |-> {s}]]
                 /\ posts' = [posts EXCEPT ![s.pair] = @ + 1]
                 /\ UNCHANGED deliveries
            ELSE /\ pass' = [pass EXCEPT ![x].todo = @ \ {s}]
                 /\ deliveries' = record_delivery_failure(s.pair, FALSE)
                 /\ UNCHANGED posts
  /\ UNCHANGED <<events, routes, mishaps>>

(* A 2xx answer, or any other end of the request.                          *)
Answered(x) ==
  /\ \E s \in pass[x].posting :
       \/ deliveries' = record_delivery_success(s.pair)
       \/ deliveries' = record_delivery_failure(s.pair, next_attempt_at(s.attempts + 1))
  /\ pass' = [pass EXCEPT ![x].posting = {}]
  /\ UNCHANGED <<events, routes, posts, mishaps>>

(* A crash may lose the answer of a request that was sent.                 *)
Crash(x) ==
  /\ pass[x] # Idle /\ mishaps < MaxMishaps
  /\ pass' = [pass EXCEPT ![x] = Idle] /\ mishaps' = mishaps + 1
  /\ UNCHANGED <<events, routes, deliveries, posts>>

deliver_due_events(x) == BeginPass(x) \/ post_webhook(x) \/ Answered(x) \/ Crash(x)

DeliveryNext ==
  \/ \E e \in Events : insert_event_idempotent(e) \/ mark_acked(e) \/ prune_events(e)
  \/ \E r \in Routes : upsert_event_route(r) \/ delete_event_route(r)
  \/ \E e \in Events, r \in Routes : enqueue_delivery(e, r)
  \/ \E d \in Pairs : Elapse(d) \/ reset_delivery_for_retry(d)
  \/ \E x \in Executors : deliver_due_events(x)

DeliverySpec == DeliveryInit /\ [][DeliveryNext]_delivery_vars

-----------------------------------------------------------------------------
(* route_delivery_counts: delivered, pending and dead, for the watch panel *)
(* of the cockpit.                                                         *)
RowsOf(r, P(_)) == Cardinality({d \in Pairs : d[2] = r /\ deliveries[d] # None /\ P(deliveries[d])})
route_delivery_counts(r) ==
  <<RowsOf(r, LAMBDA row : row.delivered),
    RowsOf(r, LAMBDA row : ~row.delivered /\ ~row.dead),
    RowsOf(r, LAMBDA row : row.dead)>>

(* A delivery is given up after MAX_ATTEMPTS retries: each request beyond  *)
(* that was asked for by an operator or is the repetition of one whose     *)
(* answer a crash lost - and a row reads as exactly one of delivered,      *)
(* pending and dead (event_delivery.rs deliver_due_events).                *)
RequestsBounded ==
  /\ \A d \in Pairs : posts[d] <= MaxAttempts + 1 + mishaps
  /\ \A r \in Routes :
       LET counts == route_delivery_counts(r)
       IN counts[1] + counts[2] + counts[3] = RowsOf(r, LAMBDA row : TRUE)
=============================================================================
