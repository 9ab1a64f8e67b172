---------------------------- MODULE MCMigration ----------------------------
(***************************************************************************)
(* Instances of Migration for TLC.                                         *)
(***************************************************************************)
EXTENDS Migration

\* An empty database, one from before prices were integers, one before the
\* table of transfer events, and one of the latest version.
SomeVersions == {-1, 3, 7, 9}

=============================================================================
