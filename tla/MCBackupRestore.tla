-------------------------- MODULE MCBackupRestore --------------------------
EXTENDS BackupRestore
=============================================================================
