--------------------------- MODULE SchemaMigration ---------------------------
(***************************************************************************)
(* Migration of a canonical collection at start-up.  When the schema       *)
(* version stored for the collection is behind the one the program         *)
(* declares, the entries of a manifest are applied in the order of their   *)
(* targets, each in a transaction of its own, and the declared version is  *)
(* stamped when all have been applied.  A failed run is not fatal: the     *)
(* server starts and the next start tries again.                           *)
(*                                                                         *)
(* The engine selects rows by plugin_data.version.  The same column counts *)
(* the writes of clients, which go on between two starts.                  *)
(*                                                                         *)
(* A schema version is the number 10 * major + minor; patch numbers are    *)
(* not told apart, so the range "1.0.0" is "1.0.x".  A row's data is the   *)
(* schema it was written in.  Backups are taken and never read by the      *)
(* engine; the migration log is written last and its errors are ignored.   *)
(***************************************************************************)
EXTENDS Naturals, FiniteSets

CONSTANTS
    Ids,         \* records of the collection
    Releases,    \* schema versions that releases of the program declare
    Manifests,   \* sets of entries a release may bring along
    MaxVersion,  \* bound on plugin_data.version
    MaxStarts    \* bound on the number of starts

VARIABLES
    release,     \* the schema version of the installed program
    manifest,    \* the entries of its manifest, {} when there is none
    stored,      \* schema_versions.version, 0 when there is no row
    rows,        \* plugin_data
    quarantine,  \* ids with an entry in the quarantine table
    phase,       \* where start-up stands
    pending,     \* entries not yet applied in this run
    entry,       \* the entry being applied
    todo,        \* its records that are still to be transformed
    work,        \* rows as the open transaction sees them
    workQ,       \* quarantine as the open transaction sees it
    starts,      \* starts so far
    failed,      \* history: records a transform has failed for
    tracked,     \* history: ids whose version was only ever set by migrations
    unseen       \* history: records that a version was stamped over, unmigrated

vars == <<release, manifest, stored, rows, quarantine, phase, pending, entry, todo,
          work, workQ, starts, failed, tracked, unseen>>
disk == <<stored, rows, quarantine>>
program == <<release, manifest, starts>>
run == <<pending, entry, todo, work, workQ>>
history == <<failed, tracked, unseen>>

-----------------------------------------------------------------------------
(* Manifests *)

Wild == 9
Major(v) == v \div 10
Minor(v) == v % 10

\* "major.x" has minor = Wild, "major.minor.x" a minor of its own.
FromRange(major, minor) == [major |-> major, minor |-> minor]
Entry(from, to) == [from |-> from, to |-> to]

VersionMatchesRange(v, range) == range.major = Major(v) /\ range.minor \in {Wild, Minor(v)}

RangeMinVersion(range) ==
    10 * range.major + (IF range.minor = Wild THEN 0 ELSE range.minor)

Overlaps(a, b) ==
    a.major = b.major /\ (a.minor = b.minor \/ Wild \in {a.minor, b.minor})

\* f follows e in the order of targets; of two with one target either may be first.
IsNext(f, e, entries) ==
    e # f /\ e.to <= f.to /\ \A g \in entries : ~(e.to < g.to /\ g.to < f.to)

ContiguousChain(entries) ==
    \A e \in entries, f \in entries : IsNext(f, e, entries) => VersionMatchesRange(e.to, f.from)

ValidManifest(entries) ==
    /\ \A e \in entries : RangeMinVersion(e.from) < e.to
    /\ \A e \in entries, f \in entries : e # f => ~Overlaps(e.from, f.from)
    /\ ContiguousChain(entries)

\* The entries between the stored and the declared version.
Relevant(entries) ==
    {e \in entries : e.from.major >= stored /\ Major(e.to) <= Major(release)}

\* The manifest leads to the declared version from the stored one and from every
\* one between, which an earlier run that was cut short may have reached.
LeadsOn(e, m) == e.from.major = m /\ m < Major(e.to) /\ Major(e.to) <= Major(release)
Bridges == \A m \in stored .. Major(release) - 1 : \E e \in manifest : LeadsOn(e, m)

-----------------------------------------------------------------------------
(* State *)

NoRow == [version |-> 0, schema |-> 0]
Row(version, schema) == [version |-> version, schema |-> schema]
NoEntry == Entry(FromRange(0, 0), 0)

\* Data that a transform for another version has been let loose on.
Garbled == 0

\* Releases are numbered from 1.0 on, an entry leads to a release, and records and
\* entries are finitely many.
ASSUME MigrationAssumption ==
    /\ MaxVersion \in Nat /\ MaxStarts \in Nat \ {0}
    /\ IsFiniteSet(Ids) /\ \A m \in Manifests : IsFiniteSet(m)
    /\ \A r \in Releases : r \in Nat /\ Major(r) \in 1 .. MaxVersion
    /\ \A m \in Manifests : \A e \in m :
          /\ e \in [from : [major : Nat, minor : Nat], to : Releases]

Phases == {"check", "migrate", "records", "stamp", "serving"}
Rows == [version : 0 .. MaxVersion, schema : Releases \cup {Garbled}]
Entries == UNION Manifests

TypeOK ==
    /\ release \in Releases /\ manifest \in Manifests \cup {{}}
    /\ stored \in 0 .. MaxVersion
    /\ rows \in [Ids -> Rows] /\ work \in [Ids -> Rows]
    /\ quarantine \subseteq Ids /\ workQ \subseteq Ids /\ todo \subseteq Ids
    /\ phase \in Phases
    /\ pending \subseteq Entries /\ entry \in Entries \cup {NoEntry}
    /\ starts \in 1 .. MaxStarts
    /\ failed \subseteq Ids /\ tracked \subseteq Ids /\ unseen \subseteq Ids

\* The first start of the first release on an empty database.
Init ==
    /\ release \in {r \in Releases : \A s \in Releases : r <= s}
    /\ manifest = {}
    /\ stored = 0
    /\ rows = [id \in Ids |-> NoRow] /\ work = [id \in Ids |-> NoRow]
    /\ quarantine = {} /\ workQ = {} /\ todo = {}
    /\ phase = "check" /\ pending = {} /\ entry = NoEntry
    /\ starts = 1
    /\ failed = {} /\ tracked = {} /\ unseen = {}

-----------------------------------------------------------------------------
(* The record routes, while the server is up *)

\* A new record has version 1, whatever schema its data is in.
CreateRecord(id) ==
    /\ phase = "serving" /\ rows[id] = NoRow
    /\ rows' = [rows EXCEPT ![id] = Row(1, release)]
    /\ tracked' = IF Major(release) = 1 THEN tracked \cup {id} ELSE tracked \ {id}
    /\ UNCHANGED <<program, stored, quarantine, phase, run, failed, unseen>>

\* An update replaces the data and adds one to the version.
UpdateRecord(id) ==
    /\ phase = "serving" /\ rows[id] # NoRow
    /\ rows[id].version < MaxVersion
    /\ rows' = [rows EXCEPT ![id] = Row(@.version + 1, release)]
    /\ tracked' = tracked \ {id}
    /\ UNCHANGED <<program, stored, quarantine, phase, run, failed, unseen>>

DeleteRecord(id) ==
    /\ phase = "serving" /\ rows[id] # NoRow
    /\ rows' = [rows EXCEPT ![id] = NoRow]
    /\ tracked' = tracked \ {id} /\ failed' = failed \ {id} /\ unseen' = unseen \ {id}
    /\ UNCHANGED <<program, stored, quarantine, phase, run>>

-----------------------------------------------------------------------------
(* Start-up *)

EndRun(next) ==
    /\ phase' = next
    /\ pending' = {} /\ entry' = NoEntry /\ todo' = {}
    /\ work' = [id \in Ids |-> NoRow] /\ workQ' = {}

\* The process stops, in order or not, at any moment: what was not committed is
\* lost.  The next start may be that of a newer release with its own manifest.
Start(newer) ==
    /\ starts < MaxStarts
    /\ starts' = starts + 1
    /\ \/ newer = release /\ UNCHANGED manifest
       \/ newer > release /\ manifest' \in {m \in Manifests : ValidManifest(m)} \cup {{}}
    /\ release' = newer
    /\ EndRun("check")
    /\ UNCHANGED <<disk, history>>

\* No version is stored, or it cannot be read, which is taken for the same: the
\* declared version is stamped, an error of which is ignored, and nothing is
\* migrated.
FirstRun ==
    /\ phase = "check"
    /\ stored' \in {stored, Major(release)}
    /\ unseen' = IF stored' = stored THEN unseen
                 ELSE unseen \cup {id \in Ids : rows[id] # NoRow}
    /\ phase' = "serving"
    /\ UNCHANGED <<program, rows, quarantine, run, failed, tracked>>

\* A collection that is current or has nothing to run is left alone.
NothingToMigrate ==
    /\ phase = "check"
    /\ stored # 0
    /\ stored >= Major(release) \/ Relevant(manifest) = {}
    /\ phase' = "serving"
    /\ UNCHANGED <<program, disk, run, history>>

\* The backup is made and the run begins.
BeginRun ==
    /\ phase = "check"
    /\ stored # 0 /\ stored < Major(release)
    /\ Relevant(manifest) # {}
    /\ pending' = Relevant(manifest)
    /\ phase' = "migrate"
    /\ UNCHANGED <<program, disk, entry, todo, work, workQ, history>>

\* query_records: rows of the collection whose version is the major version the
\* entry starts from.
Matching(e) == {id \in Ids : rows[id] # NoRow /\ rows[id].version = e.from.major}

\* Mutant: the entries are taken in the order of the manifest.
IsFirstInManifest(e) == TRUE

\* sort_by target, ascending.
IsFirst(e) == \A f \in pending : e.to <= f.to

SkipEntry(e) ==
    /\ phase = "migrate" /\ e \in pending /\ IsFirst(e)
    /\ Matching(e) = {}
    /\ pending' = pending \ {e}
    /\ UNCHANGED <<program, disk, phase, entry, todo, work, workQ, history>>

BeginEntry(e) ==
    /\ phase = "migrate" /\ e \in pending /\ IsFirst(e)
    /\ Matching(e) # {}
    /\ pending' = pending \ {e} /\ entry' = e /\ todo' = Matching(e)
    /\ work' = rows /\ workQ' = quarantine
    /\ phase' = "records"
    /\ UNCHANGED <<program, disk, history>>

\* What the plugin's transform makes of a record: data of its own range, or data
\* it has already transformed, comes out in the target's schema.
Transform(e, schema) ==
    IF VersionMatchesRange(schema, e.from) \/ schema = e.to THEN e.to ELSE Garbled

\* Mutant: the version is not stamped with the data.
UpdatedDataOnly(row, e) == Row(row.version, Transform(e, row.schema))

\* update_record: data and version in one statement.
UpdatedRow(row, e) == Row(Major(e.to), Transform(e, row.schema))

\* A range within a major version is matched by the major version alone, so the
\* record's schema may not be in it and is not told by the version afterwards.
TransformRecord(id) ==
    /\ phase = "records" /\ id \in todo
    /\ work' = [work EXCEPT ![id] = UpdatedRow(@, entry)]
    /\ todo' = todo \ {id}
    /\ tracked' = IF entry.from.minor = Wild THEN tracked ELSE tracked \ {id}
    /\ UNCHANGED <<program, disk, phase, pending, entry, workQ, failed, unseen>>

\* The transform fails or crashes: the record stays as it is and is written to
\* the quarantine table, an error of which is ignored.
QuarantineRecord(id) ==
    /\ phase = "records" /\ id \in todo
    /\ workQ' \in {workQ, workQ \cup {id}}
    /\ todo' = todo \ {id}
    /\ failed' = failed \cup {id}
    /\ UNCHANGED <<program, disk, phase, pending, entry, work, tracked, unseen>>

\* Mutant: what has been transformed so far is kept.
CommitHalfEntry ==
    /\ phase = "records"
    /\ rows' = work /\ quarantine' = workQ
    /\ EndRun("serving")
    /\ UNCHANGED <<program, stored, history>>

\* Mutant: a failed run is tried again at once.
RunFailsAndRetries ==
    /\ phase \in {"migrate", "records"}
    /\ EndRun("check")
    /\ UNCHANGED <<program, disk, history>>

\* The backup, a query, BEGIN, the JSON of a record, the UPDATE or COMMIT fails:
\* the run returns its error, and closing the connection rolls back the
\* transaction.  Start-up goes on.
RunFails ==
    /\ phase \in {"migrate", "records"}
    /\ EndRun("serving")
    /\ UNCHANGED <<program, disk, history>>

CommitEntry ==
    /\ phase = "records" /\ todo = {}
    /\ rows' = work /\ quarantine' = workQ
    /\ phase' = "migrate"
    /\ entry' = NoEntry /\ work' = [id \in Ids |-> NoRow] /\ workQ' = {}
    /\ UNCHANGED <<program, stored, pending, todo, history>>

\* The log is written and the run returns.
FinishRun ==
    /\ phase = "migrate" /\ pending = {}
    /\ phase' = "stamp"
    /\ UNCHANGED <<program, disk, run, history>>

\* Main stamps the version, even if the entries that ran do not lead up to it; an
\* error of the statement is ignored.
StampVersion ==
    /\ phase = "stamp"
    /\ stored' \in {stored, Major(release)}
    /\ unseen' = IF stored' = stored \/ Bridges THEN unseen
                 ELSE unseen \cup {id \in Ids : rows[id] # NoRow}
    /\ phase' = "serving"
    /\ UNCHANGED <<program, rows, quarantine, run, failed, tracked>>

-----------------------------------------------------------------------------

StartUpStep ==
    \/ FirstRun
    \/ NothingToMigrate
    \/ BeginRun
    \/ \E e \in pending : SkipEntry(e) \/ BeginEntry(e)
    \/ \E id \in Ids : TransformRecord(id) \/ QuarantineRecord(id)
    \/ RunFails
    \/ CommitEntry
    \/ FinishRun
    \/ StampVersion

Next ==
    \/ StartUpStep
    \/ \E id \in Ids : CreateRecord(id) \/ UpdateRecord(id) \/ DeleteRecord(id)
    \/ \E newer \in Releases : Start(newer)

\* Transforms end after ten seconds at the latest, so start-up goes on.
Spec == Init /\ [][Next]_vars /\ WF_vars(StartUpStep)

-----------------------------------------------------------------------------
(* What must hold *)

\* As long as only migrations of whole major versions set a record's version, the
\* version says which schema its data is in, through failed runs, repeated runs
\* and upgrades: no transform is skipped or given data of another version.
VersionTellsSchema == \A id \in tracked : rows[id].version = Major(rows[id].schema)

\* The version that is stamped is true: when a run whose manifest bridged the
\* stored and the declared version stamps the collection, every record whose
\* version only migrations have set is at the declared version, unless one of its
\* transforms has failed or a version was stamped over it, at a first run or after
\* a manifest with a gap.
StampIsTrue ==
    [][phase = "stamp" /\ stored' # stored /\ Bridges
          => \A id \in tracked \ (failed \cup unseen) : Major(rows[id].schema) = Major(release)]_vars

\* An entry is applied to all of its records or to none: no failure, crash or
\* restart leaves the table between the two.
EntryIsAtomic ==
    [][phase = "records" /\ rows' # rows =>
          /\ todo = {}
          /\ \A id \in Matching(entry) :
                rows'[id].version = Major(entry.to) \/ id \in failed]_vars

\* A failed or interrupted migration does not keep the server from starting.
ServerComesUp == []<>(phase = "serving")

\* "WHEN Core starts after an SDK upgrade THEN it SHALL run migration transforms
\* over all records in relevant collections": once the new version is stamped,
\* data that no transform failed for and no first run stamped over is in the new
\* version's schema.
EveryRecordIsMigrated ==
    phase = "serving" /\ stored = Major(release) =>
        \A id \in Ids \ (failed \cup unseen) :
            rows[id] # NoRow => Major(rows[id].schema) = Major(release)
=============================================================================
