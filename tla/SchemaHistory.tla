---------------------------- MODULE SchemaHistory ----------------------------
(***************************************************************************)
(* What a migration promises, whoever runs it (DB.MigrateToLatest of       *)
(* storjscandb/database.go): the version of the database rises by one step *)
(* of the migration at a time and never falls, and a process that has      *)
(* migrated finds the latest version.  Module Migration is shown to        *)
(* implement it.                                                           *)
(***************************************************************************)
EXTENDS Integers

CONSTANTS
    Processes,         \* the processes that migrate the database
    InitialVersions,   \* the versions at which the history may begin
    Latest             \* the version after the last step

VARIABLES
    version,           \* the version of the database, -1 before the first step
    migrated           \* the processes whose migration has succeeded

historyVars == <<version, migrated>>

Init ==
    /\ version \in InitialVersions
    /\ migrated = {}

\* One step of the migration, at most once for each version.
Upgrade ==
    /\ version < Latest
    /\ version' = version + 1
    /\ UNCHANGED migrated

\* The migration of p has succeeded.
Succeed(p) ==
    /\ version = Latest
    /\ migrated' = migrated \cup {p}
    /\ UNCHANGED version

\* Process p ends.
Leave(p) ==
    /\ migrated' = migrated \ {p}
    /\ UNCHANGED version

Next == Upgrade \/ \E p \in Processes : Succeed(p) \/ Leave(p)

Spec == Init /\ [][Next]_historyVars

=============================================================================
