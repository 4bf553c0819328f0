------------------------------ MODULE MailMoves ------------------------------
(***************************************************************************)
(* Moving, copying and deleting mail, one message or many at a time.  A    *)
(* move is UID COPY, \Deleted, then EXPUNGE, as separate commands; any of  *)
(* them may fail, and a failed batch is tried again one message at a       *)
(* time.  Another session works in the same folder.                        *)
(***************************************************************************)
EXTENDS Naturals, FiniteSets, FiniteSetsExt

CONSTANTS
  Moved,        \* messages of the source folder when a call starts (its UIDs)
  CHUNK_SIZE, BULK_UID_LIMIT,
  MaxFailures   \* bound on the commands that fail

ASSUME MovesAssumption ==
  Moved \subseteq Nat /\ {CHUNK_SIZE, BULK_UID_LIMIT} \subseteq Nat \ {0} /\ MaxFailures \in Nat

VARIABLES
  source,       \* messages in the source folder
  doomed,       \* those marked \Deleted, and by whom
  copies,       \* copies of each message in the destination
  uidplus,      \* whether the server has UID EXPUNGE
  call,         \* the bulk call under way
  result,       \* BulkResult
  gone          \* messages another session removed, or asked to

moves_vars == <<source, doomed, copies, uidplus, call, result, gone>>

Ops == {"move", "copy", "delete"}
Batch == [uids : SUBSET Moved, single : BOOLEAN]
NoBatch == [uids |-> {}, single |-> FALSE]
NoCall == [op |-> "none", running |-> FALSE, todo |-> {}, batch |-> NoBatch, command |-> "none", failures |-> 0]
Empty == [requested |-> {}, succeeded |-> {}, failed |-> {}]

Call == [op : Ops \cup {"none"}, running : BOOLEAN, todo : SUBSET Batch, batch : Batch,
         command : {"none", "copy", "store", "expunge"}, failures : 0..MaxFailures]

MovesTypeOK ==
  /\ source \subseteq Moved /\ doomed \subseteq Moved \X {"us", "other"} /\ copies \in [Moved -> Nat]
  /\ uidplus \in BOOLEAN /\ gone \subseteq Moved
  /\ call \in Call
  /\ result \in [requested : SUBSET Moved, succeeded : SUBSET Moved, failed : SUBSET Moved]

MovesInit ==
  /\ source = Moved /\ doomed = {} /\ copies = [m \in Moved |-> 0]
  /\ uidplus \in BOOLEAN /\ call = NoCall /\ result = Empty /\ gone = {}

-----------------------------------------------------------------------------
(* The other session.                                                      *)

FlagElsewhere ==
  /\ \E m \in source : doomed' = doomed \cup {<<m, "other">>} /\ gone' = gone \cup {m}
  /\ UNCHANGED <<source, copies, uidplus, call, result>>

ExpungeElsewhere ==
  /\ gone # {}
  /\ LET marked == {d[1] : d \in doomed}
     IN source' = source \ marked /\ gone' = gone \cup marked
  /\ doomed' = {} /\ UNCHANGED <<copies, uidplus, call, result>>

-----------------------------------------------------------------------------
(* A bulk call.                                                            *)

(* Sorted, then cut into runs of CHUNK_SIZE.                               *)
chunk_uids(uids) ==
  LET place(u) == Cardinality({v \in uids : v < u}) \div CHUNK_SIZE
  IN {{v \in uids : place(v) = place(u)} : u \in uids}

(* Mutant: a move flags the messages before it copies them.                *)
first_store(op) == "store"

(* The first command of an operation.                                      *)
FirstCommand(op) == IF op = "delete" THEN "store" ELSE "copy"

execute ==
  /\ call = NoCall
  /\ \E op \in Ops, uids \in (SUBSET Moved) \ {{}} :
       /\ Cardinality(uids) <= BULK_UID_LIMIT
       /\ call' = [NoCall EXCEPT !.op = op, !.running = TRUE,
                     !.todo = {[uids |-> c, single |-> FALSE] : c \in chunk_uids(uids)}]
       /\ result' = [Empty EXCEPT !.requested = uids]
  /\ UNCHANGED <<source, doomed, copies, uidplus, gone>>

(* The same commands for one message, of which a failure is final.         *)
OneMessage(op) ==
  /\ call = NoCall
  /\ \E u \in Moved : /\ call' = [NoCall EXCEPT !.op = op, !.running = TRUE, !.todo = {[uids |-> {u}, single |-> TRUE]}]
                      /\ result' = [Empty EXCEPT !.requested = {u}]
  /\ UNCHANGED <<source, doomed, copies, uidplus, gone>>

move_message == OneMessage("move")
copy_message == OneMessage("copy")
delete_message == OneMessage("delete")

NextBatch ==
  /\ call.running /\ call.command = "none"
  /\ IF call.todo = {} THEN call' = [call EXCEPT !.running = FALSE]
     ELSE \E b \in call.todo : call' = [call EXCEPT !.todo = @ \ {b}, !.batch = b,
            !.command = FirstCommand(call.op)]
  /\ UNCHANGED <<source, doomed, copies, uidplus, result, gone>>

BatchUids == call.batch.uids

(* What each command does; UIDs that are gone are not an error.            *)
uid_copy == /\ copies' = [m \in Moved |-> IF m \in BatchUids \cap source THEN copies[m] + 1 ELSE copies[m]]
            /\ UNCHANGED <<source, doomed>>

uid_store == /\ doomed' = doomed \cup ((BatchUids \cap source) \X {"us"})
             /\ UNCHANGED <<source, copies>>

(* Scoped to the batch where the server can do that.                       *)
choose_expunge_strategy(has_uidplus, marked) == IF has_uidplus THEN marked \cap BatchUids ELSE marked

expunge_uids ==
  LET removed == choose_expunge_strategy(uidplus, {d[1] : d \in doomed})
  IN /\ source' = source \ removed /\ doomed' = {d \in doomed : d[1] \notin removed}
     /\ UNCHANGED copies

Effect == CASE call.command = "copy" -> uid_copy [] call.command = "store" -> uid_store [] OTHER -> expunge_uids

After(command) == CASE command = "copy" /\ call.op = "move" -> "store" [] command = "store" -> "expunge"
    [] OTHER -> "none"

(* A command, or all of a batch, went through.                             *)
Acknowledged ==
  /\ call.command # "none" /\ Effect
  /\ IF After(call.command) # "none"
       THEN call' = [call EXCEPT !.command = After(@)] /\ UNCHANGED result
       ELSE /\ call' = [call EXCEPT !.command = "none", !.batch = NoBatch]
            /\ result' = [result EXCEPT !.succeeded = @ \cup BatchUids]
  /\ UNCHANGED <<uidplus, gone>>

(* A failed chunk is tried again one UID at a time.                        *)
RetriedOneByOne == {[uids |-> {u}, single |-> TRUE] : u \in BatchUids}

(* A command failed, before or after the server carried it out.            *)
Failed ==
  /\ call.command # "none" /\ call.failures < MaxFailures
  /\ Effect \/ UNCHANGED <<source, doomed, copies>>
  /\ LET stopped == [call EXCEPT !.command = "none", !.batch = NoBatch, !.failures = @ + 1]
     IN IF call.batch.single
          THEN call' = stopped /\ result' = [result EXCEPT !.failed = @ \cup BatchUids]
          ELSE call' = [stopped EXCEPT !.todo = @ \cup RetriedOneByOne] /\ UNCHANGED result
  /\ UNCHANGED <<uidplus, gone>>

MovesNext ==
  \/ FlagElsewhere \/ ExpungeElsewhere
  \/ execute \/ move_message \/ copy_message \/ delete_message \/ NextBatch \/ Acknowledged \/ Failed

MovesSpec == MovesInit /\ [][MovesNext]_moves_vars

-----------------------------------------------------------------------------
(* No move or copy loses a message or reports what did not happen: at any  *)
(* point each message is in the source, has a copy, or was removed at      *)
(* another session's request; a call that returns has put every requested  *)
(* UID on exactly one side, and what it moved has left the source and      *)
(* exists at most twice over (bulk.rs execute).                            *)
NothingLost ==
  /\ call.op # "delete" => \A m \in Moved \ gone : m \in source \/ copies[m] > 0
  /\ call.op # "none" /\ ~call.running =>
       /\ result.succeeded \cup result.failed = result.requested
       /\ result.succeeded \cap result.failed = {}
       /\ call.op = "move" => \A m \in result.succeeded \ gone : m \notin source /\ copies[m] > 0
  /\ \A m \in Moved : copies[m] <= 2
=============================================================================
