------------------------ MODULE MCLegacyMigration ------------------------
(* A small instance of LegacyMigration for TLC. *)
EXTENDS LegacyMigration

CONSTANTS t1, t2

MCTokens == {t1, t2}
=============================================================================
