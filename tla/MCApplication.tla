--------------------------- MODULE MCApplication ---------------------------
(***************************************************************************)
(* Instances of Application for TLC: a process that runs, and one that     *)
(* migrates, on an empty or an older database.                             *)
(***************************************************************************)
EXTENDS Application

\* An empty database, and one from before the table of transfer events.
SomeVersions == {-1, 7}

=============================================================================
