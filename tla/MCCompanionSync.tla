--------------------------- MODULE MCCompanionSync ---------------------------
(***************************************************************************)
(* Instances of CompanionSync: a stay, a task and, on a second server, a   *)
(* stay of another household.                                              *)
(***************************************************************************)
EXTENDS CompanionSync, TLC

CONSTANTS stay, visa, other, home, away, timer, wake

MCKindOf == [i \in Items |-> IF i = visa THEN "reminder" ELSE "event"]
MCServerOf == [i \in Items |-> IF i = other THEN away ELSE home]

Symmetric == Permutations(Triggers)
=============================================================================
