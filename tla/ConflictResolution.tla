-------------------------- MODULE ConflictResolution --------------------------
(***************************************************************************)
(* Detection and resolution of sync conflicts: apps/core/src/conflict.rs   *)
(* and apps/core/src/routes/conflicts.rs.                                  *)
(*                                                                         *)
(* Two replicas edit their copy of one record, field by field, from the    *)
(* state they had after the last sync (`base`); a sync compares them and   *)
(* stores a conflict.  A record's data is a function from its fields to    *)
(* values, Missing where the JSON object has no such key; each edit adds   *)
(* one to the version and stamps updated_at.                               *)
(* Data that is no object is not merged: the last write is kept.           *)
(***************************************************************************)
EXTENDS Naturals

CONSTANTS Fields, Contents, Missing, Collections, ConflictIds,
          MaxEdits, LastMoment    \* bounds

Absentable == Contents \cup {Missing}

VARIABLES coll,           \* the collection the record is in
          base,           \* the copy of the last sync
          mine, theirs,   \* the local and the remote copy
          moment,         \* Utc::now() of the last edit
          conflicts       \* ConflictStore.conflicts, by id; Missing if none

mergeVars == <<coll, base, mine, theirs, moment, conflicts>>

\* strategy_for_collection.
StrategyFor(c) ==
    CASE c \in {"events", "contacts"} -> "field_level_merge"
      [] c = "notes" -> "manual"
      [] OTHER -> "last_write_wins"

MergeInit ==
    /\ coll \in Collections
    /\ \E d \in [Fields -> Absentable] : base = [data |-> d, version |-> 1, at |-> 0]
    /\ mine = base /\ theirs = base
    /\ moment = 0
    /\ conflicts = [i \in ConflictIds |-> Missing]

Edited(copy, f, v) ==
    [data |-> [copy.data EXCEPT ![f] = v], version |-> copy.version + 1, at |-> moment']

\* A write to one of the two copies, perhaps in the same instant as the last.
EditField(f, v) ==
    /\ moment' \in {moment, moment + 1} /\ moment' <= LastMoment
    /\ \/ mine.version < 1 + MaxEdits /\ mine' = Edited(mine, f, v) /\ UNCHANGED theirs
       \/ theirs.version < 1 + MaxEdits /\ theirs' = Edited(theirs, f, v) /\ UNCHANGED mine
    /\ UNCHANGED <<coll, base, conflicts>>

\* detect_conflict.
InConflict(local, remote, baseVersion) ==
    /\ local.version # remote.version
    /\ local.version # baseVersion
    /\ remote.version # baseVersion

\* resolve_last_write_wins: the remote copy wins a tie.
LastWrite(local, remote) == IF local.at > remote.at THEN local.data ELSE remote.data

\* Mutant: the local change wins over a remote one.
LocalFirst(local, remote, ancestor) ==
    [f \in Fields |-> IF local.data[f] # ancestor[f] THEN local.data[f] ELSE remote.data[f]]

\* resolve_field_merge over JSON objects: the keys of either copy, or
\* RequiresManual (Missing) when both changed a key to different values.  The
\* ancestor is the data of the last sync, or NoAncestor when it is not known.
EitherKeys(local, remote) == {f \in Fields : local.data[f] # Missing \/ remote.data[f] # Missing}

NoAncestor == [f \in Fields |-> Missing]

FieldMerge(local, remote, ancestor) ==
    LET changed(copy, f) == copy.data[f] # ancestor[f]
        overlap == \E f \in EitherKeys(local, remote) :
                      changed(local, f) /\ changed(remote, f) /\ local.data[f] # remote.data[f]
    IN IF overlap THEN Missing
       ELSE [f \in Fields |->
                IF f \notin EitherKeys(local, remote) THEN Missing
                ELSE IF changed(local, f) THEN local.data[f]
                ELSE IF changed(remote, f) THEN remote.data[f]
                ELSE ancestor[f]]

\* The automatic resolution of the record's strategy; Missing leaves it to the
\* user (RequiresManual, or resolve_manual).
AutoResolution(c, ancestor) ==
    CASE c.strategy = "last_write_wins" -> LastWrite(c.local, c.remote)
      [] c.strategy = "field_level_merge" -> FieldMerge(c.local, c.remote, ancestor)
      [] OTHER -> Missing

\* A sync finds a conflict and adds it to the store.
Detect(i) ==
    /\ conflicts[i] = Missing
    /\ InConflict(mine, theirs, base.version)
    /\ conflicts' = [conflicts EXCEPT ![i] =
          [local |-> mine, remote |-> theirs, strategy |-> StrategyFor(coll),
           resolved |-> FALSE, kept |-> Missing]]
    /\ UNCHANGED <<coll, base, mine, theirs, moment>>

\* ConflictStore.resolve, from the automatic resolution or from the route: a
\* conflict that is already resolved is resolved again.
Resolve(i, kept) ==
    /\ conflicts[i] # Missing
    /\ conflicts' = [conflicts EXCEPT ![i].resolved = TRUE, ![i].kept = kept]
    /\ UNCHANGED <<coll, base, mine, theirs, moment>>

Resolutions(c) ==
    ({c.local.data, c.remote.data} \cup {AutoResolution(c, a) : a \in {base.data, NoAncestor}}) \ {Missing}

Dismiss(i) ==
    /\ conflicts[i] # Missing
    /\ conflicts' = [conflicts EXCEPT ![i] = Missing]
    /\ UNCHANGED <<coll, base, mine, theirs, moment>>

MergeNext ==
    \/ \E f \in Fields, v \in Absentable : EditField(f, v)
    \/ \E i \in ConflictIds : Detect(i) \/ Dismiss(i)
    \/ \E i \in ConflictIds : conflicts[i] # Missing /\ \E k \in Resolutions(conflicts[i]) : Resolve(i, k)

MergeSpec == MergeInit /\ [][MergeNext]_mergeVars

-----------------------------------------------------------------------------
(* A field-level merge loses no edit and makes none up: whenever           *)
(* resolve_field_merge produces a result for the two copies, every field a *)
(* side changed since the base has that side's value (a deleted key stays  *)
(* deleted) and every other field has the base's; and when it gives up     *)
(* the two sides really disagree on a field both of them changed           *)
(* (conflict.rs:172).  The result is the same with the sides swapped.      *)
MergeIsThreeWay ==
    LET m == FieldMerge(mine, theirs, base.data)
    IN /\ m = FieldMerge(theirs, mine, base.data)
       /\ IF m # Missing
          THEN \A f \in Fields :
                 /\ mine.data[f] # base.data[f] => m[f] = mine.data[f]
                 /\ theirs.data[f] # base.data[f] => m[f] = theirs.data[f]
                 /\ mine.data[f] = base.data[f] /\ theirs.data[f] = base.data[f] => m[f] = base.data[f]
          ELSE \E f \in Fields : mine.data[f] # theirs.data[f]
                                 /\ base.data[f] \notin {mine.data[f], theirs.data[f]}

=============================================================================
