----------------------- MODULE MCCredentialMigration -----------------------
(* Small instances of CredentialMigration for TLC. *)
EXTENDS CredentialMigration
=============================================================================
