--------------------------- MODULE MCBackupClient ---------------------------
(* BackupClient with the three goroutines of doCreate and one restart. *)
EXTENDS BackupClient
=============================================================================
