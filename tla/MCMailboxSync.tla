--------------------------- MODULE MCMailboxSync ----------------------------
(***************************************************************************)
(* Instances of MailboxSync: a folder larger than one batch, with a piece  *)
(* of noise and a message that can never be read.                          *)
(***************************************************************************)
EXTENDS MailboxSync, TLC

MCNoise == {1}
MCPoison == {2}

Symmetric == Permutations(Sweepers)
=============================================================================
