-------------------------- MODULE MCTravelReceipts --------------------------
(***************************************************************************)
(* Instances of TravelReceipts: small mailboxes chosen so that receipts    *)
(* compete for one booking.                                                *)
(***************************************************************************)
EXTENDS TravelReceipts, TLC

CONSTANTS
  confirm, change, cancel, learned, forward, pasted,  \* documents
  acct, acct2, epoch, epoch2, airline, pnr

MCDays == 1 .. 3

Mail(uid, received) ==
  [account |-> acct, epoch |-> epoch, uid |-> uid, received |-> received,
   sender |-> airline]

\* confirm, then a date change and a cancellation from the airline; learned
\* is a layout rule's reading of a mail between them; forward is the same
\* itinerary in the other parent's account; pasted comes from the importer.
Sources ==
  confirm :> Mail(1, 1) @@ change :> Mail(2, 1) @@ cancel :> Mail(3, 2)
  @@ learned :> Mail(2, 1)
  @@ forward :> [account |-> acct2, epoch |-> epoch2, uid |-> 1,
                 received |-> 2, sender |-> airline]
  @@ pasted :> [account |-> acct, epoch |-> None, uid |-> 7,
                received |-> 3, sender |-> None]

Trip(status, day, doubtful) ==
  [kind |-> "itinerary", code |-> pnr, status |-> status, day |-> day,
   review |-> doubtful]

Parses ==
  confirm :> Trip("confirmed", 1, FALSE) @@ change :> Trip("changed", 2, FALSE)
  @@ cancel :> [Trip("cancelled", None, TRUE) EXCEPT !.kind = "unknown"]
  @@ learned :> Trip("confirmed", 2, TRUE)
  @@ forward :> Trip("confirmed", 1, FALSE)
  @@ pasted :> Trip("confirmed", 3, TRUE)

MCSourceOf == [d \in Docs |-> Sources[d]]
MCParsedOf == [d \in Docs |-> Parses[d]]
NoOverrides == {}
MCOverrides == {Trip("confirmed", 3, TRUE)}

WorkerSymmetry == Permutations(Workers)
=============================================================================
