------------------------------- MODULE Schema -------------------------------
(***************************************************************************)
(* The migrations of internal/storage/sqlite.go as functions on databases. *)
(* A database is what exists in it, by the migration that is to create it, *)
(* and the versions that schema_migrations records.                        *)
(***************************************************************************)
EXTENDS Integers

Versions == 1..4

\* The tables of migration 1, without the column of 2; that column; the table of
\* managed profiles; the four columns of customization.
Objects == {"tables", "revoked_at", "managed_profiles", "customization"}

Databases == [objects : SUBSET Objects, applied : SUBSET Versions]

\* What each migration is there for.
Creates == << "tables", "revoked_at", "managed_profiles", "customization" >>

Complete(db) == db.objects = Objects /\ db.applied = Versions

(***************************************************************************)
(* A new database; one whose tables are from before migration 2 and so     *)
(* lack its column, with version 1 recorded or, as IF NOT EXISTS allows,   *)
(* from before versions were recorded.                                     *)
(***************************************************************************)
InitialDatabases ==
    {[objects |-> {}, applied |-> {}],
     [objects |-> {"tables"}, applied |-> {}],
     [objects |-> {"tables"}, applied |-> {1}]}

\* Fault: a column that exists already is an error.
Succeeds_NoDuplicates(db, v) ==
    /\ v = 2 => "revoked_at" \notin db.objects
    /\ v = 3 => "managed_profiles" \notin db.objects
    /\ v \notin db.applied

(***************************************************************************)
(* Do all statements of the transaction succeed?  CREATE TABLE of 1 says   *)
(* IF NOT EXISTS and a duplicate column is tolerated (2 and 4), an         *)
(* existing managed_profiles table and a recorded version are errors.      *)
(***************************************************************************)
Succeeds(db, v) ==
    /\ v = 3 => "managed_profiles" \notin db.objects
    /\ v \notin db.applied

\* Fault: only new access tokens get a revoked_at column.
Migrated_OldTokensKept(db, v) ==
    [objects |-> IF v = 2 THEN db.objects
                 ELSE db.objects \cup {Creates[v]} \cup
                    (IF v = 1 /\ "tables" \notin db.objects THEN {"revoked_at"} ELSE {}),
     applied |-> db.applied \cup {v}]

\* The present DDL of access_tokens has the column of migration 2 already.
Migrated(db, v) ==
    [objects |-> db.objects \cup {Creates[v]} \cup
                    (IF v = 1 /\ "tables" \notin db.objects THEN {"revoked_at"} ELSE {}),
     applied |-> db.applied \cup {v}]
=============================================================================
