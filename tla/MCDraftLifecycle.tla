-------------------------- MODULE MCDraftLifecycle --------------------------
(***************************************************************************)
(* Instances of DraftLifecycle: two texts, two competing processes.        *)
(***************************************************************************)
EXTENDS DraftLifecycle, TLC

Symmetric == Permutations(Contents) \cup Permutations(Actors)
=============================================================================
