-------------------------------- MODULE Rows --------------------------------
(***************************************************************************)
(* The value that stands for a row that does not exist.                    *)
(***************************************************************************)
CONSTANT None
=============================================================================
