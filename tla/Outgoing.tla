------------------------------ MODULE Outgoing ------------------------------
(***************************************************************************)
(* What a draft promises to whoever wrote it: its text may be rewritten    *)
(* while it has not left; it leaves at most once, as it then reads; once   *)
(* it has left it reads that way for ever; and a draft thrown away before  *)
(* it left never leaves.                                                   *)
(***************************************************************************)
CONSTANTS Contents, None

VARIABLES text, delivered, dropped

Init == text \in Contents /\ delivered = None /\ dropped = FALSE

Rewrite ==
  /\ delivered = None /\ ~dropped
  /\ text' \in Contents
  /\ UNCHANGED <<delivered, dropped>>

Deliver ==
  /\ delivered = None /\ ~dropped
  /\ delivered' = text
  /\ UNCHANGED <<text, dropped>>

Drop ==
  /\ ~dropped /\ dropped' = TRUE
  /\ UNCHANGED <<text, delivered>>

Next == Rewrite \/ Deliver \/ Drop

Spec == Init /\ [][Next]_<<text, delivered, dropped>>
=============================================================================
