---------------------------- MODULE LegacyStorage ----------------------------
(***************************************************************************)
(* The plugin_data table behind StorageAdapter                             *)
(* (packages/storage-sqlite/src/legacy.rs), as operators on a table that   *)
(* maps ids to rows.  Every call runs under the connection mutex, so a     *)
(* call is one step.  The audit entry is a second statement without a      *)
(* transaction around the two: when it fails the caller is told so, and    *)
(* the row stays changed.                                                  *)
(***************************************************************************)
EXTENDS Integers

\* Versions start at 1; version 0 stands for "no such row".
Row(version, data) == [version |-> version, data |-> data]

NoRow == Row(0, 0)

Exists(table, id) == table[id].version # 0

\* INSERT; a primary key that is taken is refused.
CanCreate(table, id) == ~Exists(table, id)

Created(table, id, data) == [table EXCEPT ![id] = Row(1, data)]

\* Mutant: the WHERE clause of the UPDATE does not compare the version.
CanUpdateAnyVersion(table, id, version) == Exists(table, id)

\* UPDATE ... WHERE version = ?: zero rows mean VersionMismatch or NotFound.
CanUpdate(table, id, version) == Exists(table, id) /\ table[id].version = version

Updated(table, id, data, version) == [table EXCEPT ![id] = Row(version + 1, data)]

Deleted(table, id) == [table EXCEPT ![id] = NoRow]
=============================================================================
