------------------------------- MODULE Backups -------------------------------
(***************************************************************************)
(* What is copied out of a mailbox or a data directory, and back.          *)
(***************************************************************************)
EXTENDS FolderReads, MailRestore, Snapshots

(* What is in a folder is read whole, and what was put into an archive of  *)
(* mail or a backup of the service comes out of it, whatever was cut short *)
(* (imap.rs, email/backup.rs, backup.rs).                                  *)
BackupsRestore == FolderReadWhole /\ NoneLeftOut /\ BackupsHold
=============================================================================
