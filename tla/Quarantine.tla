----------------------------- MODULE Quarantine -----------------------------
(***************************************************************************)
(* Validated writes and the `_quarantine` collection:                      *)
(* apps/core/src/schema_registry.rs and apps/core/src/routes/quarantine.rs.*)
(*                                                                         *)
(* A record that fails the schema of its collection is stored in the       *)
(* quarantine; `reprocess_quarantined` reads the entry, validates it again,*)
(* creates the record and deletes the entry, in three storage calls with   *)
(* an await between them.  Each storage call is one SQL statement that may *)
(* fail, and the process may die between two of them.  The schemas are     *)
(* registered while the core starts, so they only change with a restart.   *)
(***************************************************************************)
EXTENDS Naturals, FiniteSets

CONSTANTS Items,          \* the submitted payloads, each with its collection
          Slots,          \* the ids a created record may get
          Reprocessors,   \* concurrent POST /quarantine/{id}/reprocess calls
          SchemaSets,     \* the schema directories a start may find: for each
                          \*   the set of items its schemas accept (an item
                          \*   whose collection has no schema is accepted)
          Vacant,         \* no payload
          MaxStarts

VARIABLES accepts,        \* the items the registered schemas accept
          live,           \* the records of the collections, by record id
          entries,        \* the rows of `_quarantine`: a payload is submitted once,
                          \*   so it names its entry
          redo,           \* what each reprocess call is at
          stored,         \* items whose submission stored them somewhere
          gone,           \* items deleted, or overwritten by an update, since
          contested,      \* items whose reprocessing overlapped or was cut short
          starts

quarVars == <<accepts, live, entries, redo, stored, gone, contested, starts>>

NotRunning == [at |-> "idle", item |-> Vacant]

QuarInit ==
    /\ accepts \in SchemaSets
    /\ live = [s \in Slots |-> Vacant]
    /\ entries = {}
    /\ redo = [w \in Reprocessors |-> NotRunning]
    /\ stored = {} /\ gone = {} /\ contested = {}
    /\ starts = 0

\* SqliteStorage.create: an INSERT under a fresh id.
Create(i) == \E s \in Slots : live[s] = Vacant /\ live' = [live EXCEPT ![s] = i]

\* SchemaRegistry.validate: no schema, or a schema without errors.
Validates(i) == i \in accepts

\* validated_create: quarantine_if_invalid, then the record itself.
ValidatedCreate(i) ==
    /\ i \notin stored
    /\ stored' = stored \cup {i}
    /\ \/ Validates(i) /\ Create(i) /\ UNCHANGED entries
       \/ ~Validates(i) /\ entries' = entries \cup {i} /\ UNCHANGED live
    /\ UNCHANGED <<accepts, redo, gone, contested, starts>>

\* validated_update: an invalid new version becomes an entry of its own and the
\* record keeps the old one.
ValidatedUpdate(s, i) ==
    /\ live[s] # Vacant /\ i \notin stored
    /\ stored' = stored \cup {i}
    /\ IF Validates(i)
       THEN /\ live' = [live EXCEPT ![s] = i]
            /\ gone' = gone \cup {live[s]}
            /\ UNCHANGED entries
       ELSE entries' = entries \cup {i} /\ UNCHANGED <<live, gone>>
    /\ UNCHANGED <<accepts, redo, contested, starts>>

\* DELETE /quarantine/{id}.
DeleteQuarantine(i) ==
    /\ i \in entries
    /\ entries' = entries \ {i}
    /\ gone' = gone \cup {i}
    /\ UNCHANGED <<accepts, live, redo, stored, contested, starts>>

InFlight(i) == {w \in Reprocessors : redo[w].item = i}

\* reprocess_quarantined up to the create: the entry is read and validated.
FetchEntry(w, i) ==
    /\ redo[w].at = "idle"
    /\ i \in entries /\ Validates(i)
    /\ redo' = [redo EXCEPT ![w] = [at |-> "create", item |-> i]]
    /\ contested' = IF InFlight(i) # {} THEN contested \cup {i} ELSE contested
    /\ UNCHANGED <<accepts, live, entries, stored, gone, starts>>

\* The record is created in its collection; an error ends the call here.
Restore(w, ok) ==
    /\ redo[w].at = "create"
    /\ IF ok
       THEN /\ Create(redo[w].item)
            /\ redo' = [redo EXCEPT ![w].at = "delete"]
       ELSE redo' = [redo EXCEPT ![w] = NotRunning] /\ UNCHANGED live
    /\ UNCHANGED <<accepts, entries, stored, gone, contested, starts>>

\* Mutant: the entry is left in the quarantine.
SkipDropEntry(w, ok) ==
    /\ redo[w].at = "delete"
    /\ redo' = [redo EXCEPT ![w] = NotRunning]
    /\ contested' = IF ok THEN contested ELSE contested \cup {redo[w].item}
    /\ UNCHANGED <<accepts, live, entries, stored, gone, starts>>

\* The entry is deleted (whether it is still there or not), or that fails.
DropEntry(w, ok) ==
    /\ redo[w].at = "delete"
    /\ entries' = IF ok THEN entries \ {redo[w].item} ELSE entries
    /\ redo' = [redo EXCEPT ![w] = NotRunning]
    /\ contested' = IF ok THEN contested ELSE contested \cup {redo[w].item}
    /\ UNCHANGED <<accepts, live, stored, gone, starts>>

\* The core stops and starts again, perhaps with other schemas.
Restarted ==
    /\ starts < MaxStarts
    /\ starts' = starts + 1
    /\ accepts' \in SchemaSets
    /\ contested' = contested \cup {redo[w].item : w \in {v \in Reprocessors : redo[v].at = "delete"}}
    /\ redo' = [w \in Reprocessors |-> NotRunning]
    /\ UNCHANGED <<live, entries, stored, gone>>

QuarNext ==
    \/ \E i \in Items : ValidatedCreate(i)
    \/ \E s \in Slots, i \in Items : ValidatedUpdate(s, i)
    \/ \E i \in Items : DeleteQuarantine(i)
    \/ \E w \in Reprocessors, i \in Items : FetchEntry(w, i)
    \/ \E w \in Reprocessors, ok \in BOOLEAN : Restore(w, ok)
    \/ \E w \in Reprocessors, ok \in BOOLEAN : DropEntry(w, ok)
    \/ Restarted

QuarSpec == QuarInit /\ [][QuarNext]_quarVars

-----------------------------------------------------------------------------
Copies(i) == Cardinality({s \in Slots : live[s] = i}) + Cardinality(entries \cap {i})

(* A submitted payload that nobody deleted or overwrote is never lost, and *)
(* it is there once: in its collection or in the quarantine.  There is a   *)
(* second copy only while a reprocess call runs, or after one that         *)
(* overlapped another, or that failed or was killed between its create and *)
(* its delete (schema_registry.rs:404 and :415).                           *)
ItemsConserved ==
    \A i \in stored \ gone :
        /\ Copies(i) >= 1
        /\ i \notin contested /\ InFlight(i) = {} => Copies(i) = 1

=============================================================================
