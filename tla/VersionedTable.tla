--------------------------- MODULE VersionedTable ---------------------------
(***************************************************************************)
(* What every store of records in this system promises: a table of         *)
(* versioned rows in which a row comes into being at version 1, each later *)
(* write of it adds exactly one to its version, and only a removal ends    *)
(* it.  A transaction moves any set of rows at once.  NoRow is version 0.  *)
(***************************************************************************)
EXTENDS Naturals

CONSTANT Rows
VARIABLE version

Init == version = [r \in Rows |-> 0]

\* What one row may do in one committed write.
RowStep(r) ==
    \/ version'[r] = version[r]
    \/ version'[r] = version[r] + 1     \* created, or replaced
    \/ version'[r] = 0                  \* removed

Write ==
    /\ version' \in [Rows -> Nat]
    /\ \A r \in Rows : RowStep(r)

Spec == Init /\ [][Write]_version
=============================================================================
