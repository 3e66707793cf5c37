------------------------- MODULE SchemaMigrationProofs -------------------------
(***************************************************************************)
(* Proofs about SchemaMigration, for any records, releases and manifests.  *)
(***************************************************************************)
EXTENDS SchemaMigration, FiniteSetTheorems, WellFoundedInduction, TLAPS

\* What the open transaction has done: records still to do are as they were
\* selected, the others carry the target version unless their transform failed,
\* and the version of a tracked record tells its schema inside it too.
TransactionOK ==
    phase = "records" =>
        /\ entry \in Entries
        /\ \A id \in todo : id \in Matching(entry) /\ work[id] = rows[id]
        /\ \A id \in Matching(entry) \ todo :
              work[id].version = Major(entry.to) \/ id \in failed
        /\ \A id \in tracked : work[id].version = Major(work[id].schema)

MigInv == TypeOK /\ TransactionOK /\ VersionTellsSchema

-----------------------------------------------------------------------------

\* No row has version and schema 0, which agree.
LEMMA NoRowFacts ==
    /\ NoRow \in Rows
    /\ NoRow.version = Major(NoRow.schema)
BY MigrationAssumption DEF NoRow, Rows, Garbled, Major

\* What MigrationAssumption says of a single entry.
LEMMA EntryFacts ==
    ASSUME NEW e \in Entries
    PROVE  /\ e.to \in Releases /\ e.to \in Nat
           /\ e.from.major \in Nat /\ e.from.minor \in Nat
           /\ Major(e.to) \in 1 .. MaxVersion
<1>1. e \in [from : [major : Nat, minor : Nat], to : Releases]
  BY MigrationAssumption DEF Entries
<1> QED
  BY <1>1, MigrationAssumption

\* The empty database satisfies the invariant.
LEMMA InitMigInv == Init => MigInv
<1> SUFFICES ASSUME Init PROVE MigInv
  OBVIOUS
<1>1. TypeOK
  <2>1. rows \in [Ids -> Rows] /\ work \in [Ids -> Rows]
    BY NoRowFacts DEF Init
  <2>2. release \in Releases /\ stored \in 0 .. MaxVersion /\ starts \in 1 .. MaxStarts
    BY MigrationAssumption DEF Init
  <2> QED
    BY <2>1, <2>2 DEF Init, TypeOK, Phases
<1> QED
  BY <1>1 DEF Init, MigInv, TransactionOK, VersionTellsSchema

\* Clients write while no transaction is open; what they write is tracked only if
\* version and schema agree.
LEMMA ClientKeeps ==
    ASSUME MigInv, NEW id \in Ids, CreateRecord(id) \/ UpdateRecord(id) \/ DeleteRecord(id)
    PROVE  MigInv'
<1> USE DEF MigInv, program, run
<1>1. PICK row \in Rows : rows' = [rows EXCEPT ![id] = row]
  <2>1. CASE CreateRecord(id)
    <3>1. Row(1, release) \in Rows
      BY MigrationAssumption DEF TypeOK, Row, Rows
    <3> QED
      BY <2>1, <3>1, ZenonT(60) DEF CreateRecord
  <2>2. CASE UpdateRecord(id)
    <3>1. rows[id] \in Rows /\ rows[id].version < MaxVersion
      BY <2>2 DEF UpdateRecord, TypeOK
    <3>2. Row(rows[id].version + 1, release) \in Rows
      BY <3>1, MigrationAssumption DEF TypeOK, Row, Rows
    <3> QED
      BY <2>2, <3>2, ZenonT(60) DEF UpdateRecord
  <2>3. CASE DeleteRecord(id)
    BY <2>3, NoRowFacts, ZenonT(60) DEF DeleteRecord
  <2> QED
    BY <2>1, <2>2, <2>3
<1>2. /\ phase' = "serving" /\ UNCHANGED <<program, stored, quarantine, run, phase>>
      /\ failed' \subseteq failed /\ unseen' \subseteq unseen /\ tracked' \subseteq tracked \cup {id}
  BY DEF CreateRecord, UpdateRecord, DeleteRecord
<1>3. id \in tracked' => rows'[id].version = Major(rows'[id].schema)
  <2>1. CASE CreateRecord(id)
    <3>1. rows'[id] = Row(1, release) /\ (Major(release) = 1 \/ id \notin tracked')
      BY <2>1 DEF CreateRecord, TypeOK
    <3> QED
      BY <3>1 DEF Row
  <2>2. CASE UpdateRecord(id) \/ DeleteRecord(id)
    BY <2>2 DEF UpdateRecord, DeleteRecord
  <2> QED
    BY <2>1, <2>2
<1>4. TypeOK'
  BY <1>1, <1>2 DEF TypeOK
<1>5. VersionTellsSchema'
  BY <1>1, <1>2, <1>3 DEF VersionTellsSchema, TypeOK
<1> QED
  BY <1>2, <1>4, <1>5 DEF TransactionOK

\* A stop of the process, and every end of a run that commits nothing, keep the
\* invariant: the table is what the last commit left.
LEMMA EndRunKeeps ==
    ASSUME MigInv, NEW next \in Phases \ {"records"}, EndRun(next),
           UNCHANGED <<disk, history>>,
           release' \in Releases, manifest' \in Manifests \cup {{}}, starts' \in 1 .. MaxStarts
    PROVE  MigInv'
<1> USE DEF MigInv, EndRun, disk, history
<1>1. work' \in [Ids -> Rows]
  BY NoRowFacts
<1>2. TypeOK'
  BY <1>1 DEF TypeOK
<1> QED
  BY <1>2 DEF TransactionOK, VersionTellsSchema

\* A restart, of the same release or a newer one, keeps the invariant.
LEMMA StartKeeps ==
    ASSUME MigInv, NEW newer \in Releases, Start(newer)
    PROVE  MigInv'
<1>1. starts' \in 1 .. MaxStarts
  BY MigrationAssumption DEF Start, MigInv, TypeOK
<1>2. manifest' \in Manifests \cup {{}} /\ release' \in Releases
  BY DEF Start, MigInv, TypeOK
<1>3. EndRun("check") /\ UNCHANGED <<disk, history>>
  BY DEF Start
<1> QED
  BY <1>1, <1>2, <1>3, EndRunKeeps DEF Phases

\* A run that fails keeps the invariant.
LEMMA RunFailsKeeps ==
    ASSUME MigInv, RunFails
    PROVE  MigInv'
<1>1. EndRun("serving") /\ UNCHANGED <<disk, history, program>>
  BY DEF RunFails
<1>2. release' \in Releases /\ manifest' \in Manifests \cup {{}} /\ starts' \in 1 .. MaxStarts
  BY <1>1 DEF program, MigInv, TypeOK
<1> QED
  BY <1>1, <1>2, EndRunKeeps DEF Phases

\* Steps that touch neither rows nor transaction keep the invariant.
LEMMA OutsideKeeps ==
    ASSUME MigInv, FirstRun \/ NothingToMigrate \/ BeginRun \/ FinishRun \/ StampVersion
    PROVE  MigInv'
<1> USE DEF MigInv, program, disk, run, history
<1>1. /\ UNCHANGED <<release, manifest, starts, rows, quarantine, entry, todo, work, workQ>>
      /\ UNCHANGED <<failed, tracked>> /\ unseen' \subseteq Ids
      /\ phase' \in Phases \ {"records"}
  BY DEF FirstRun, NothingToMigrate, BeginRun, FinishRun, StampVersion, Phases, TypeOK
<1>2. stored' \in {stored, Major(release)}
  BY DEF FirstRun, NothingToMigrate, BeginRun, FinishRun, StampVersion
<1>3. stored' \in 0 .. MaxVersion
  BY <1>2, MigrationAssumption DEF TypeOK
<1>4. pending' \subseteq Entries
  <2>1. CASE BeginRun
    BY <2>1 DEF BeginRun, Relevant, TypeOK, Entries
  <2>2. CASE UNCHANGED pending
    BY <2>2 DEF TypeOK
  <2> QED
    BY <2>1, <2>2 DEF FirstRun, NothingToMigrate, FinishRun, StampVersion
<1>5. TypeOK'
  BY <1>1, <1>3, <1>4 DEF TypeOK
<1> QED
  BY <1>1, <1>5 DEF TransactionOK, VersionTellsSchema

\* Taking the next entry opens a transaction on the rows as they are.
LEMMA TakeEntryKeeps ==
    ASSUME MigInv, NEW e \in pending, SkipEntry(e) \/ BeginEntry(e)
    PROVE  MigInv'
<1> USE DEF MigInv, program, disk, history
<1>1. CASE SkipEntry(e)
  <2>1. TypeOK'
    BY <1>1 DEF SkipEntry, TypeOK
  <2> QED
    BY <1>1, <2>1 DEF SkipEntry, TransactionOK, VersionTellsSchema
<1>2. CASE BeginEntry(e)
  <2>1. /\ entry' = e /\ e \in Entries /\ todo' = Matching(e) /\ work' = rows
        /\ phase' = "records" /\ workQ' = quarantine /\ pending' = pending \ {e}
        /\ UNCHANGED <<rows, release, manifest, starts, stored, quarantine, failed, tracked, unseen>>
    BY <1>2 DEF BeginEntry, TypeOK
  <2>2. TypeOK'
    BY <2>1 DEF TypeOK, Matching, Phases
  <2>3. Matching(entry)' = todo'
    BY <2>1 DEF Matching
  <2>4. TransactionOK'
    BY <2>1, <2>3 DEF TransactionOK, VersionTellsSchema
  <2> QED
    BY <2>1, <2>2, <2>4 DEF VersionTellsSchema
<1> QED
  BY <1>1, <1>2

\* A transform of a whole major version turns a record whose version tells its
\* schema into one of which the same is true.
LEMMA UpdatedRowFacts ==
    ASSUME NEW row \in Rows, NEW e \in Entries
    PROVE  /\ UpdatedRow(row, e) \in Rows
           /\ UpdatedRow(row, e).version = Major(e.to)
           /\ e.from.minor = Wild /\ row.version = e.from.major
              /\ row.version = Major(row.schema)
                 => UpdatedRow(row, e).version = Major(UpdatedRow(row, e).schema)
<1>1. Transform(e, row.schema) \in Releases \cup {Garbled}
  BY EntryFacts DEF Transform
<1>2. UpdatedRow(row, e) = [version |-> Major(e.to), schema |-> Transform(e, row.schema)]
  BY DEF UpdatedRow, Row
<1>3. Major(e.to) \in 0 .. MaxVersion
  BY EntryFacts, MigrationAssumption
<1>4. e.from.minor = Wild /\ row.version = e.from.major /\ row.version = Major(row.schema)
         => Transform(e, row.schema) = e.to
  BY DEF Transform, VersionMatchesRange
<1> HIDE DEF UpdatedRow
<1> QED
  BY <1>1, <1>2, <1>3, <1>4 DEF Rows

\* Transforming a record keeps the invariant.
LEMMA TransformRecordKeeps ==
    ASSUME MigInv, NEW id \in Ids, TransformRecord(id)
    PROVE  MigInv'
<1> USE DEF MigInv, program, disk
<1>1. /\ phase = "records" /\ id \in todo /\ entry \in Entries
      /\ work[id] \in Rows /\ work[id].version = entry.from.major
  BY DEF TransformRecord, TransactionOK, TypeOK, Matching
<1> DEFINE row == UpdatedRow(work[id], entry)
<1>2. work' = [work EXCEPT ![id] = row]
  BY DEF TransformRecord
<1>3. /\ row \in Rows /\ row.version = Major(entry.to)
      /\ entry.from.minor = Wild /\ work[id].version = Major(work[id].schema)
            => row.version = Major(row.schema)
  BY <1>1, UpdatedRowFacts
<1> HIDE DEF row
<1>4. /\ todo' = todo \ {id}
      /\ tracked' \subseteq tracked /\ (id \in tracked' => entry.from.minor = Wild)
      /\ UNCHANGED <<release, manifest, starts, stored, rows, quarantine>>
      /\ UNCHANGED <<phase, pending, entry, workQ, failed, unseen>>
  BY DEF TransformRecord
<1>5. TypeOK'
  BY <1>2, <1>3, <1>4 DEF TypeOK
<1>6. TransactionOK'
  <2>1. Matching(entry)' = Matching(entry)
    BY <1>4 DEF Matching
  <2>2. work'[id] = row /\ \A other \in Ids : other # id => work'[other] = work[other]
    BY <1>2 DEF TypeOK
  <2>3. \A other \in todo' : other \in Matching(entry)' /\ work'[other] = rows'[other]
    BY <1>1, <1>4, <2>1, <2>2 DEF TransactionOK, TypeOK
  <2>4. \A other \in Matching(entry)' \ todo' :
           work'[other].version = Major(entry'.to) \/ other \in failed'
    <3> SUFFICES ASSUME NEW other \in Matching(entry) \ todo'
                 PROVE  work'[other].version = Major(entry.to) \/ other \in failed
      BY <1>4, <2>1
    <3>1. CASE other = id
      BY <3>1, <1>3, <2>2
    <3>2. CASE other # id
      BY <3>2, <1>1, <1>4, <2>2 DEF TransactionOK, Matching
    <3> QED
      BY <3>1, <3>2
  <2>5. \A other \in tracked' : work'[other].version = Major(work'[other].schema)
    <3> SUFFICES ASSUME NEW other \in tracked'
                 PROVE  work'[other].version = Major(work'[other].schema)
      OBVIOUS
    <3>1. other \in tracked /\ other \in Ids
      BY <1>4 DEF TypeOK
    <3>2. work[other].version = Major(work[other].schema)
      BY <1>1, <3>1 DEF TransactionOK
    <3>3. CASE other = id
      BY <3>2, <3>3, <1>3, <1>4, <2>2
    <3>4. CASE other # id
      BY <3>1, <3>2, <3>4, <2>2
    <3> QED
      BY <3>3, <3>4
  <2> QED
    BY <1>1, <1>4, <2>3, <2>4, <2>5 DEF TransactionOK
<1> QED
  BY <1>4, <1>5, <1>6 DEF VersionTellsSchema

\* A record whose transform fails stays as it is and is known to have failed.
LEMMA QuarantineRecordKeeps ==
    ASSUME MigInv, NEW id \in Ids, QuarantineRecord(id)
    PROVE  MigInv'
<1> USE DEF MigInv, program, disk
<1>1. /\ todo' = todo \ {id} /\ failed' = failed \cup {id} /\ phase = "records"
      /\ UNCHANGED <<release, manifest, starts, stored, rows, quarantine>>
      /\ UNCHANGED <<phase, pending, entry, work, tracked, unseen>>
      /\ workQ' \subseteq workQ \cup {id}
  BY DEF QuarantineRecord
<1>2. TypeOK'
  BY <1>1 DEF TypeOK
<1>3. Matching(entry)' = Matching(entry)
  BY <1>1 DEF Matching
<1>4. TransactionOK'
  BY <1>1, <1>3 DEF TransactionOK
<1> QED
  BY <1>1, <1>2, <1>4 DEF VersionTellsSchema

\* The commit publishes rows of which the invariant holds already.
LEMMA CommitEntryKeeps ==
    ASSUME MigInv, CommitEntry
    PROVE  MigInv'
<1> USE DEF MigInv, program
<1>1. work' \in [Ids -> Rows]
  BY NoRowFacts DEF CommitEntry
<1>2. TypeOK'
  BY <1>1 DEF CommitEntry, TypeOK, Phases, history
<1>3. VersionTellsSchema'
  BY DEF CommitEntry, TransactionOK, VersionTellsSchema, history
<1> QED
  BY <1>2, <1>3 DEF CommitEntry, TransactionOK

\* Every step of the system keeps the invariant.
LEMMA NextMigInv == MigInv /\ [Next]_vars => MigInv'
<1> SUFFICES ASSUME MigInv, [Next]_vars PROVE MigInv'
  OBVIOUS
<1>1. CASE StartUpStep
  BY <1>1, OutsideKeeps, TakeEntryKeeps, TransformRecordKeeps, QuarantineRecordKeeps,
     RunFailsKeeps, CommitEntryKeeps DEF StartUpStep
<1>2. CASE \E id \in Ids : CreateRecord(id) \/ UpdateRecord(id) \/ DeleteRecord(id)
  BY <1>2, ClientKeeps
<1>3. CASE \E newer \in Releases : Start(newer)
  BY <1>3, StartKeeps
<1>4. CASE UNCHANGED vars
  BY <1>4 DEF vars, MigInv, TypeOK, TransactionOK, VersionTellsSchema, Matching
<1> QED
  BY <1>1, <1>2, <1>3, <1>4 DEF Next

-----------------------------------------------------------------------------

\* The strengthened invariant holds in every reachable state.
THEOREM MigrationInvariant == Spec => []MigInv
BY InitMigInv, NextMigInv, PTL DEF Spec

\* The version of a record that only migrations of whole major versions have set
\* tells the schema of its data, however runs fail, stop and are repeated.
THEOREM MigrationKeepsVersionsTrue == Spec => []VersionTellsSchema
<1>1. MigInv => VersionTellsSchema
  BY DEF MigInv
<1> QED
  BY <1>1, MigrationInvariant, PTL

\* Every step that changes rows while an entry is being applied applies all of it.
LEMMA RecordsStep ==
    ASSUME MigInv, [Next]_vars, phase = "records", rows' # rows
    PROVE  /\ todo = {}
           /\ \A id \in Matching(entry) :
                 rows'[id].version = Major(entry.to) \/ id \in failed
<1>1. CASE CommitEntry
  BY <1>1 DEF CommitEntry, MigInv, TransactionOK
<1>2. CASE ~CommitEntry
  BY <1>2 DEF Next, StartUpStep, vars, disk, FirstRun, NothingToMigrate, BeginRun, SkipEntry, BeginEntry,
     TransformRecord, QuarantineRecord, RunFails, FinishRun, StampVersion, CreateRecord,
     UpdateRecord, DeleteRecord, Start
<1> QED
  BY <1>1, <1>2

\* An entry of a migration is applied to all of its records or to none.
THEOREM MigrationAppliesWholeEntries == Spec => EntryIsAtomic
<1> DEFINE Whole ==
      phase = "records" /\ rows' # rows =>
          /\ todo = {}
          /\ \A id \in Matching(entry) :
                rows'[id].version = Major(entry.to) \/ id \in failed
<1>1. MigInv /\ [Next]_vars => [Whole]_vars
  BY RecordsStep
<1> QED
  BY <1>1, MigrationInvariant, PTL DEF Spec, EntryIsAtomic

-----------------------------------------------------------------------------
(* The stamp.  Every record that the stamp will be true of is at the declared  *)
(* version or has an entry pending that takes it further up.                   *)

\* The records whose versions are to be believed.
Vouched == tracked \ (failed \cup unseen)

\* No version is above the declared one, and no believable one below the stored one.
InRange(table) ==
    /\ \A id \in tracked : 1 <= table[id].version /\ table[id].version <= Major(release)
    /\ \A id \in Vouched : stored <= table[id].version

TableOK ==
    /\ stored <= Major(release)
    /\ manifest = {} \/ ValidManifest(manifest)
    /\ InRange(rows)

\* Entries that are done have targets no higher than the others.
OrderOK ==
    /\ pending \subseteq Relevant(manifest)
    /\ \A f \in Relevant(manifest) \ pending :
          /\ \A g \in pending : f.to <= g.to
          /\ phase = "records" => f.to <= entry.to

Heading(v) == v = Major(release) \/ \E e \in pending : LeadsOn(e, v)

RunOK ==
    /\ phase \in {"migrate", "records"} => OrderOK
    /\ phase = "migrate" /\ Bridges => \A id \in Vouched : Heading(rows[id].version)
    /\ phase = "records" =>
          /\ entry \in Relevant(manifest)
          /\ InRange(work)
          /\ Bridges => \A id \in Vouched \ todo : Heading(work[id].version)
    /\ phase = "stamp" /\ Bridges => \A id \in Vouched : rows[id].version = Major(release)

StampInv == TableOK /\ RunOK

\* A later release has no lower major version.
LEMMA MajorMonotone ==
    ASSUME NEW r \in Nat, NEW t \in Nat, r <= t
    PROVE  Major(r) \in Nat /\ Major(r) <= Major(t)
BY DEF Major

\* An entry of a valid manifest does not lead below the major version it starts from.
LEMMA TargetAbove ==
    ASSUME NEW e \in Entries, RangeMinVersion(e.from) < e.to
    PROVE  e.from.major <= Major(e.to)
<1>1. e.from.major \in Nat /\ e.from.minor \in Nat /\ e.to \in Nat
  BY EntryFacts
<1>2. 10 * e.from.major < e.to
  BY <1>1 DEF RangeMinVersion
<1> QED
  BY <1>1, <1>2 DEF Major

\* The entries of a run lie between the stored and the declared version.
LEMMA RelevantFacts ==
    ASSUME MigInv, TableOK, NEW e \in Relevant(manifest)
    PROVE  /\ e \in Entries /\ e.to \in Nat /\ Major(e.to) \in Nat
           /\ 1 <= Major(e.to) /\ stored <= Major(e.to) /\ Major(e.to) <= Major(release)
<1>1. e \in manifest /\ stored <= e.from.major /\ Major(e.to) <= Major(release)
  BY EntryFacts DEF Relevant, MigInv, TypeOK, Entries
<1>2. e \in Entries /\ e.from.major \in Nat /\ e.to \in Nat /\ Major(e.to) \in 1 .. MaxVersion
  BY <1>1, EntryFacts DEF MigInv, TypeOK, Entries
<1>3. e.from.major <= Major(e.to)
  BY <1>1, <1>2, TargetAbove DEF TableOK, ValidManifest
<1>4. stored \in Nat
  BY DEF MigInv, TypeOK
<1> QED
  BY <1>1, <1>2, <1>3, <1>4, MigrationAssumption

\* The declared version is a number from 1 on; versions of rows are numbers.
LEMMA VersionFacts ==
    ASSUME MigInv
    PROVE  /\ release \in Nat /\ Major(release) \in Nat /\ 1 <= Major(release)
           /\ stored \in Nat
           /\ \A id \in Ids : rows[id].version \in Nat /\ work[id].version \in Nat
           /\ Vouched \subseteq tracked /\ tracked \subseteq Ids
BY MigrationAssumption DEF MigInv, TypeOK, Rows, Vouched

LEMMA InitStampInv == Init => StampInv
<1> SUFFICES ASSUME Init PROVE StampInv
  OBVIOUS
<1>1. MigInv
  BY InitMigInv
<1>2. stored <= Major(release)
  BY <1>1, VersionFacts DEF Init
<1> QED
  BY <1>2 DEF Init, StampInv, TableOK, RunOK, InRange, Vouched

\* The records a client creates carry version 1, which is believed only of release 1.
LEMMA ClientKeepsStamp ==
    ASSUME MigInv, StampInv, NEW id \in Ids,
           CreateRecord(id) \/ UpdateRecord(id) \/ DeleteRecord(id)
    PROVE  StampInv'
<1> USE DEF program, run
<1>1. /\ phase' = "serving" /\ UNCHANGED <<release, manifest, stored>>
      /\ \A other \in Ids \ {id} :
            /\ rows'[other] = rows[other]
            /\ other \in tracked' <=> other \in tracked
            /\ other \in Vouched' <=> other \in Vouched
  BY DEF CreateRecord, UpdateRecord, DeleteRecord, MigInv, TypeOK, Vouched
<1>2. id \in tracked' => rows'[id].version = 1 /\ Major(release) = 1
  BY DEF CreateRecord, UpdateRecord, DeleteRecord, Row, MigInv, TypeOK
<1>3. tracked' \subseteq Ids /\ Vouched' \subseteq tracked'
  BY ClientKeeps, VersionFacts DEF MigInv, TypeOK, Vouched
<1>4. InRange(rows)'
  BY <1>1, <1>2, <1>3, VersionFacts DEF StampInv, TableOK, InRange
<1> QED
  BY <1>1, <1>4 DEF StampInv, TableOK, RunOK

\* A restart declares no lower version and brings a valid manifest.
LEMMA StartKeepsStamp ==
    ASSUME MigInv, StampInv, NEW newer \in Releases, Start(newer)
    PROVE  StampInv'
<1> USE DEF disk, history
<1>1. /\ UNCHANGED <<stored, rows, tracked, failed, unseen>> /\ phase' = "check"
      /\ manifest' = {} \/ manifest' = manifest \/ ValidManifest(manifest')
  BY DEF Start, EndRun
<1>2. release' \in Nat /\ release <= release'
  BY VersionFacts, MigrationAssumption DEF Start
<1>3. Major(release) <= Major(release') /\ Major(release') \in Nat
  BY <1>2, VersionFacts, MajorMonotone
<1>4. InRange(rows)' /\ stored' <= Major(release')
  BY <1>1, <1>3, VersionFacts DEF StampInv, TableOK, InRange, Vouched
<1>5. manifest' = {} \/ ValidManifest(manifest)'
  BY <1>1 DEF StampInv, TableOK, ValidManifest, ContiguousChain, IsNext
<1> QED
  BY <1>1, <1>4, <1>5 DEF StampInv, TableOK, RunOK

\* What a stamp says is true of the vouched records, or they are vouched for no more.
LEMMA StampingKeepsStamp ==
    ASSUME MigInv, StampInv, FirstRun \/ StampVersion
    PROVE  StampInv'
<1> USE DEF program
<1>1. /\ UNCHANGED <<release, manifest, rows, tracked, failed>> /\ phase' = "serving"
      /\ stored' \in {stored, Major(release)}
  BY DEF FirstRun, StampVersion
<1>2. unseen \subseteq unseen'
  BY DEF FirstRun, StampVersion
<1>3. stored' # stored => \A id \in Vouched' : rows[id].version = Major(release)
  <2>1. ASSUME NEW id \in tracked PROVE rows[id] # NoRow
    <3>1. 1 <= rows[id].version
      BY DEF StampInv, TableOK, InRange
    <3> QED
      BY <3>1 DEF NoRow
  <2>2. CASE unseen' = unseen \cup {id \in Ids : rows[id] # NoRow}
    <3>1. tracked \subseteq unseen'
      BY <2>1, <2>2, VersionFacts
    <3> QED
      BY <1>1, <3>1 DEF Vouched
  <2>3. CASE StampVersion /\ Bridges
    <3>1. \A id \in Vouched : rows[id].version = Major(release)
      BY <2>3 DEF StampVersion, StampInv, RunOK
    <3> QED
      BY <1>1, <1>2, <3>1 DEF Vouched
  <2> QED
    BY <2>2, <2>3 DEF FirstRun, StampVersion
<1>4. InRange(rows)'
  BY <1>1, <1>2, <1>3, VersionFacts DEF StampInv, TableOK, InRange, Vouched
<1>5. stored' <= Major(release)
  BY <1>1, VersionFacts DEF StampInv, TableOK
<1> QED
  BY <1>1, <1>4, <1>5 DEF StampInv, TableOK, RunOK, ValidManifest, ContiguousChain, IsNext

\* The start of a run: every version below the declared one is some entry's to take on.
LEMMA BeginRunKeepsStamp ==
    ASSUME MigInv, StampInv, BeginRun
    PROVE  StampInv'
<1> USE DEF program, disk, history
<1>1. /\ UNCHANGED <<release, manifest, stored, rows, tracked, failed, unseen>>
      /\ phase' = "migrate" /\ pending' = Relevant(manifest)
  BY DEF BeginRun
<1>2. Relevant(manifest)' = Relevant(manifest) /\ Vouched' = Vouched /\ (Bridges' <=> Bridges)
  BY <1>1 DEF Relevant, Vouched, Bridges, LeadsOn
<1>3. OrderOK'
  BY <1>1, <1>2 DEF OrderOK
<1>4. ASSUME Bridges, NEW id \in Vouched PROVE Heading(rows[id].version)'
  <2> DEFINE v == rows[id].version
  <2>1. v \in Nat /\ stored <= v /\ v <= Major(release)
    BY VersionFacts DEF StampInv, TableOK, InRange
  <2>2. CASE v < Major(release)
    <3>1. v \in stored .. Major(release) - 1
      BY <2>1, <2>2, VersionFacts
    <3>2. PICK e \in manifest : LeadsOn(e, v)
      BY <1>4, <3>1 DEF Bridges
    <3>3. e \in Relevant(manifest)
      BY <2>1, <3>2, VersionFacts DEF Relevant, LeadsOn
    <3> QED
      BY <1>1, <3>2, <3>3 DEF Heading, LeadsOn
  <2> QED
    BY <1>1, <2>1, <2>2, VersionFacts DEF Heading
<1> QED
  BY <1>1, <1>2, <1>3, <1>4
     DEF StampInv, TableOK, RunOK, InRange, ValidManifest, ContiguousChain, IsNext

\* An entry that is skipped has no record to take on.
LEMMA SkipEntryKeepsStamp ==
    ASSUME MigInv, StampInv, NEW e \in pending, SkipEntry(e)
    PROVE  StampInv'
<1> USE DEF program, disk, history
<1>1. /\ UNCHANGED <<release, manifest, stored, rows, tracked, failed, unseen>>
      /\ phase = "migrate" /\ phase' = "migrate" /\ pending' = pending \ {e}
      /\ IsFirst(e) /\ Matching(e) = {}
  BY DEF SkipEntry
<1>2. Relevant(manifest)' = Relevant(manifest) /\ Vouched' = Vouched /\ (Bridges' <=> Bridges)
  BY <1>1 DEF Relevant, Vouched, Bridges, LeadsOn
<1>3. OrderOK'
  BY <1>1, <1>2 DEF StampInv, RunOK, OrderOK, IsFirst
<1>4. ASSUME Bridges, NEW id \in Vouched PROVE Heading(rows[id].version)'
  <2>1. rows[id] # NoRow /\ id \in Ids
    BY VersionFacts DEF StampInv, TableOK, InRange, NoRow
  <2>2. ~LeadsOn(e, rows[id].version)
    BY <1>1, <2>1 DEF Matching, LeadsOn
  <2>3. Heading(rows[id].version)
    BY <1>1, <1>4 DEF StampInv, RunOK
  <2> QED
    BY <1>1, <2>2, <2>3 DEF Heading, LeadsOn
<1> QED
  BY <1>1, <1>2, <1>3, <1>4
     DEF StampInv, TableOK, RunOK, InRange, ValidManifest, ContiguousChain, IsNext

\* The transaction opens on the rows; those the entry does not match have another to
\* take them on.
LEMMA BeginEntryKeepsStamp ==
    ASSUME MigInv, StampInv, NEW e \in pending, BeginEntry(e)
    PROVE  StampInv'
<1> USE DEF program, disk, history
<1>1. /\ UNCHANGED <<release, manifest, stored, rows, tracked, failed, unseen>>
      /\ phase = "migrate" /\ phase' = "records" /\ pending' = pending \ {e}
      /\ IsFirst(e) /\ entry' = e /\ todo' = Matching(e) /\ work' = rows
  BY DEF BeginEntry
<1>2. Relevant(manifest)' = Relevant(manifest) /\ Vouched' = Vouched /\ (Bridges' <=> Bridges)
  BY <1>1 DEF Relevant, Vouched, Bridges, LeadsOn
<1>3. OrderOK /\ e \in Relevant(manifest) /\ e.to \in Nat
  BY <1>1, RelevantFacts DEF StampInv, RunOK, OrderOK
<1>4. OrderOK'
  BY <1>1, <1>2, <1>3 DEF OrderOK, IsFirst
<1>5. ASSUME Bridges, NEW id \in Vouched \ Matching(e) PROVE Heading(work[id].version)'
  <2>1. rows[id] # NoRow /\ id \in Ids
    BY VersionFacts DEF StampInv, TableOK, InRange, NoRow
  <2>2. ~LeadsOn(e, rows[id].version)
    BY <1>1, <2>1 DEF Matching, LeadsOn
  <2>3. Heading(rows[id].version)
    BY <1>1, <1>5 DEF StampInv, RunOK
  <2> QED
    BY <1>1, <2>2, <2>3 DEF Heading, LeadsOn
<1>6. InRange(rows)' /\ InRange(work)'
  BY <1>1, <1>2 DEF StampInv, TableOK, InRange
<1>7. TableOK'
  BY <1>1, <1>6 DEF StampInv, TableOK, ValidManifest, ContiguousChain, IsNext
<1> QED
  BY <1>1, <1>2, <1>3, <1>4, <1>5, <1>6, <1>7 DEF StampInv, RunOK

\* A record that is transformed has arrived or has an entry of a higher target before it,
\* which is still pending.
LEMMA TransformRecordKeepsStamp ==
    ASSUME MigInv, StampInv, NEW id \in Ids, TransformRecord(id)
    PROVE  StampInv'
<1> USE DEF program, disk
<1>1. /\ UNCHANGED <<release, manifest, stored, rows, failed, unseen, phase, pending, entry>>
      /\ phase = "records" /\ todo' = todo \ {id} /\ tracked' \subseteq tracked
  BY DEF TransformRecord
<1>2. /\ Relevant(manifest)' = Relevant(manifest) /\ Vouched' \subseteq Vouched
      /\ (Bridges' <=> Bridges) /\ OrderOK' /\ OrderOK /\ entry \in Relevant(manifest)
  BY <1>1 DEF Relevant, Vouched, Bridges, LeadsOn, OrderOK, StampInv, RunOK
<1>3. \A other \in Ids \ {id} : work'[other] = work[other]
  BY DEF TransformRecord, MigInv, TypeOK
<1> DEFINE v == Major(entry.to)
<1>4. work'[id].version = v
  BY DEF TransformRecord, MigInv, TypeOK, UpdatedRow, Row
<1>5. v \in Nat /\ 1 <= v /\ stored <= v /\ v <= Major(release) /\ entry.to \in Nat
  BY <1>2, RelevantFacts DEF StampInv
<1>6. ASSUME Bridges PROVE v = Major(release) \/ \E e \in pending : LeadsOn(e, v)
  <2> SUFFICES ASSUME v < Major(release) PROVE \E e \in pending : LeadsOn(e, v)
    BY <1>5, VersionFacts
  <2>1. v \in stored .. Major(release) - 1
    BY <1>5, VersionFacts
  <2>2. PICK e \in manifest : LeadsOn(e, v)
    BY <1>6, <2>1 DEF Bridges
  <2>3. e \in Relevant(manifest)
    BY <1>5, <2>2, VersionFacts DEF Relevant, LeadsOn
  <2>4. e.to \in Nat /\ ~(e.to <= entry.to)
    BY <1>5, <2>2, <2>3, RelevantFacts, MajorMonotone DEF LeadsOn, StampInv
  <2> QED
    BY <1>1, <1>2, <2>2, <2>3, <2>4 DEF OrderOK
<1> HIDE DEF v
<1>7. InRange(work)'
  BY <1>1, <1>2, <1>3, <1>4, <1>5, VersionFacts DEF StampInv, RunOK, InRange
<1>8. ASSUME Bridges, NEW other \in Vouched' \ todo' PROVE Heading(work[other].version)'
  <2>1. CASE other = id
    BY <1>1, <1>4, <1>6, <1>8, <2>1 DEF Heading, LeadsOn
  <2>2. CASE other # id
    <3>1. other \in Vouched \ todo /\ other \in Ids
      BY <1>1, <1>2, <1>8, <2>2, VersionFacts
    <3>2. Heading(work[other].version)
      BY <1>1, <1>8, <3>1 DEF StampInv, RunOK
    <3> QED
      BY <1>1, <1>3, <2>2, <3>1, <3>2 DEF Heading, LeadsOn
  <2> QED
    BY <2>1, <2>2
<1>9. TableOK'
  BY <1>1, <1>2 DEF StampInv, TableOK, InRange, ValidManifest, ContiguousChain, IsNext
<1> QED
  BY <1>1, <1>2, <1>7, <1>8, <1>9 DEF StampInv, RunOK

\* A record whose transform fails is vouched for no more.
LEMMA QuarantineRecordKeepsStamp ==
    ASSUME MigInv, StampInv, NEW id \in Ids, QuarantineRecord(id)
    PROVE  StampInv'
<1> USE DEF program, disk
<1>1. /\ UNCHANGED <<release, manifest, stored, rows, work, unseen, tracked, phase, pending, entry>>
      /\ phase = "records" /\ todo' = todo \ {id} /\ failed' = failed \cup {id}
  BY DEF QuarantineRecord
<1>2. /\ Relevant(manifest)' = Relevant(manifest) /\ Vouched' = Vouched \ {id}
      /\ (Bridges' <=> Bridges) /\ OrderOK'
  BY <1>1 DEF Relevant, Vouched, Bridges, LeadsOn, OrderOK, StampInv, RunOK
<1>3. InRange(rows)' /\ InRange(work)'
  BY <1>1, <1>2 DEF StampInv, TableOK, RunOK, InRange
<1>4. Bridges => \A other \in Vouched' \ todo' : Heading(work[other].version)'
  BY <1>1, <1>2 DEF StampInv, RunOK, Heading, LeadsOn
<1>5. TableOK'
  BY <1>1, <1>3 DEF StampInv, TableOK, ValidManifest, ContiguousChain, IsNext
<1> QED
  BY <1>1, <1>2, <1>3, <1>4, <1>5 DEF StampInv, RunOK

\* The commit publishes rows of which the invariant holds already.
LEMMA CommitEntryKeepsStamp ==
    ASSUME MigInv, StampInv, CommitEntry
    PROVE  StampInv'
<1> USE DEF program, history
<1>1. /\ UNCHANGED <<release, manifest, stored, failed, unseen, tracked, pending>>
      /\ phase = "records" /\ phase' = "migrate" /\ todo = {} /\ rows' = work
  BY DEF CommitEntry
<1>2. /\ Relevant(manifest)' = Relevant(manifest) /\ Vouched' = Vouched
      /\ (Bridges' <=> Bridges) /\ OrderOK'
  BY <1>1 DEF Relevant, Vouched, Bridges, LeadsOn, OrderOK, StampInv, RunOK
<1>3. InRange(rows)'
  BY <1>1, <1>2 DEF StampInv, RunOK, InRange
<1>4. Bridges => \A id \in Vouched : Heading(rows[id].version)'
  BY <1>1 DEF StampInv, RunOK, Heading, LeadsOn
<1>5. TableOK'
  BY <1>1, <1>3 DEF StampInv, TableOK, ValidManifest, ContiguousChain, IsNext
<1> QED
  BY <1>1, <1>2, <1>4, <1>5 DEF StampInv, RunOK

\* The other steps leave the table alone; a run that is finished has nothing pending.
LEMMA BystanderKeepsStamp ==
    ASSUME MigInv, StampInv, NothingToMigrate \/ RunFails \/ FinishRun \/ UNCHANGED vars
    PROVE  StampInv'
<1> USE DEF program, disk, history
<1>1. UNCHANGED <<release, manifest, stored, rows, failed, unseen, tracked>>
  BY DEF NothingToMigrate, RunFails, FinishRun, vars
<1>2. /\ Relevant(manifest)' = Relevant(manifest) /\ Vouched' = Vouched
      /\ (Bridges' <=> Bridges)
  BY <1>1 DEF Relevant, Vouched, Bridges, LeadsOn
<1>3. TableOK'
  BY <1>1, <1>2 DEF StampInv, TableOK, InRange, ValidManifest, ContiguousChain, IsNext
<1>4. CASE NothingToMigrate \/ RunFails
  BY <1>3, <1>4 DEF NothingToMigrate, RunFails, EndRun, StampInv, RunOK
<1>5. CASE FinishRun
  BY <1>1, <1>2, <1>3, <1>5 DEF FinishRun, StampInv, RunOK, Heading
<1>6. CASE UNCHANGED vars
  BY <1>1, <1>2, <1>3, <1>6 DEF vars, StampInv, RunOK, OrderOK, InRange, Heading, LeadsOn
<1> QED
  BY <1>4, <1>5, <1>6

\* Every step keeps the invariant.
LEMMA NextStampInv == MigInv /\ StampInv /\ [Next]_vars => StampInv'
<1> SUFFICES ASSUME MigInv, StampInv, [Next]_vars PROVE StampInv'
  OBVIOUS
<1>1. CASE StartUpStep
  BY <1>1, StampingKeepsStamp, BeginRunKeepsStamp, SkipEntryKeepsStamp, BeginEntryKeepsStamp,
     TransformRecordKeepsStamp, QuarantineRecordKeepsStamp, CommitEntryKeepsStamp,
     BystanderKeepsStamp DEF StartUpStep
<1> QED
  BY <1>1, ClientKeepsStamp, StartKeepsStamp, BystanderKeepsStamp DEF Next

\* The version that is stamped is true: after a run whose manifest bridged the stored and
\* the declared version, every record whose version only migrations have set is in the
\* declared version's schema, unless a transform of it failed or it had been stamped over;
\* for any manifests, releases and records, however many runs were cut short before.
THEOREM MigrationStampsTheTruth == Spec => StampIsTrue
<1> DEFINE Truth ==
      phase = "stamp" /\ stored' # stored /\ Bridges
         => \A id \in tracked \ (failed \cup unseen) : Major(rows[id].schema) = Major(release)
<1>1. MigInv /\ StampInv => Truth
  BY DEF MigInv, VersionTellsSchema, StampInv, RunOK, Vouched
<1>2. Spec => []StampInv
  BY InitStampInv, NextStampInv, MigrationInvariant, PTL DEF Spec
<1>3. MigInv /\ StampInv /\ [Next]_vars => [Truth]_vars
  BY <1>1
<1> QED
  BY <1>2, <1>3, MigrationInvariant, PTL DEF Spec, StampIsTrue

\* Once the declared version is the stored one, however it came to be stored, every
\* record whose version only migrations have set is in the declared version's schema,
\* unless a transform of it failed or it had been stamped over: EveryRecordIsMigrated
\* holds of the records that no client has updated (run_migrations).
THEOREM TrackedRecordsAreMigrated ==
    Spec => [](stored = Major(release) =>
                   \A id \in tracked \ (failed \cup unseen) :
                       Major(rows[id].schema) = Major(release))
<1> DEFINE Migrated ==
      stored = Major(release) =>
         \A id \in tracked \ (failed \cup unseen) : Major(rows[id].schema) = Major(release)
<1>1. MigInv /\ StampInv => Migrated
  <2> SUFFICES ASSUME MigInv, StampInv, stored = Major(release),
                      NEW id \in tracked \ (failed \cup unseen)
               PROVE  Major(rows[id].schema) = Major(release)
    OBVIOUS
  <2>1. rows[id].version = Major(rows[id].schema)
    BY DEF MigInv, VersionTellsSchema
  <2>2. rows[id].version <= Major(release) /\ stored <= rows[id].version
    BY DEF StampInv, TableOK, InRange, Vouched
  <2>3. rows[id].version \in Nat /\ Major(release) \in Nat
    BY VersionFacts DEF Vouched
  <2> QED
    BY <2>1, <2>2, <2>3
<1> HIDE DEF Migrated
<1>2. Spec => []Migrated
  BY <1>1, InitStampInv, NextStampInv, MigrationInvariant, PTL DEF Spec
<1> QED
  BY <1>2 DEF Migrated

-----------------------------------------------------------------------------
(* Start-up ends.  The rank of a start-up that stands at a phase: how far from  *)
(* serving it is, the entries still pending, whether one is open, and the       *)
(* records that one has still to transform.                                     *)

StageLeft ==
    CASE phase = "check" -> 3
      [] phase \in {"migrate", "records"} -> 2
      [] phase = "stamp" -> 1
      [] OTHER -> 0
EntryOpen == IF phase = "records" THEN 1 ELSE 0
Rank == <<StageLeft, Cardinality(pending), EntryOpen, Cardinality(todo)>>

Ranks == [1 .. 4 -> Nat]
Below == LexProductOrdering(OpToRel(<, Nat), Nat, 4)

\* The same order, on the four numbers.
Lower(a1, a2, a3, a4, b1, b2, b3, b4) ==
    \/ a1 < b1
    \/ a1 = b1 /\ \/ a2 < b2
                  \/ a2 = b2 /\ \/ a3 < b3
                                \/ a3 = b3 /\ a4 < b4

LEMMA LowerIsBelow ==
    ASSUME NEW a1 \in Nat, NEW a2 \in Nat, NEW a3 \in Nat, NEW a4 \in Nat,
           NEW b1 \in Nat, NEW b2 \in Nat, NEW b3 \in Nat, NEW b4 \in Nat,
           Lower(a1, a2, a3, a4, b1, b2, b3, b4)
    PROVE  <<<<a1, a2, a3, a4>>, <<b1, b2, b3, b4>>>> \in Below
<1> DEFINE a == <<a1, a2, a3, a4>>
           b == <<b1, b2, b3, b4>>
<1>1. \A x \in Nat, y \in Nat : x < y => <<x, y>> \in OpToRel(<, Nat)
  BY DEF OpToRel
<1>2. /\ a \in Ranks /\ b \in Ranks
      /\ a[1] = a1 /\ a[2] = a2 /\ a[3] = a3 /\ a[4] = a4
      /\ b[1] = b1 /\ b[2] = b2 /\ b[3] = b3 /\ b[4] = b4
  BY DEF Ranks
<1> HIDE DEF a, b
<1>3. \E j \in 1 .. 4 : (\A i \in 1 .. (j - 1) : a[i] = b[i]) /\ a[j] < b[j]
  BY <1>2 DEF Lower
<1>4. \E j \in 1 .. 4 : /\ \A i \in 1 .. (j - 1) : a[i] = b[i]
                        /\ <<a[j], b[j]>> \in OpToRel(<, Nat)
  BY <1>1, <1>2, <1>3 DEF Ranks
<1>5. <<a, b>> \in Below
  BY <1>2, <1>4 DEF Below, LexProductOrdering, Ranks
<1> QED
  BY <1>5 DEF a, b

\* The order on ranks has no infinite descent.
LEMMA BelowIsWellFounded == IsWellFoundedOn(Below, Ranks)
<1>1. 4 \in Nat
  OBVIOUS
<1> QED
  BY <1>1, NatLessThanWellFounded, WFLexProductOrdering DEF Below, Ranks

\* What is left to do is finite.
RankOK ==
    /\ IsFiniteSet(pending) /\ IsFiniteSet(todo)
    /\ StageLeft \in Nat /\ EntryOpen \in Nat
    /\ Cardinality(pending) \in Nat /\ Cardinality(todo) \in Nat

\* An entry's removal from the pending ones, or a record's from those to do, leaves fewer.
LEMMA OneFewer ==
    ASSUME NEW S, IsFiniteSet(S), NEW x \in S
    PROVE  Cardinality(S \ {x}) < Cardinality(S) /\ IsFiniteSet(S \ {x})
<1>1. Cardinality(S) \in Nat
  BY FS_CardinalityType
<1>2. Cardinality(S \ {x}) = Cardinality(S) - 1
  BY FS_RemoveElement
<1> QED
  BY <1>1, <1>2, FS_RemoveElement

LEMMA RelevantIsFinite == MigInv => IsFiniteSet(Relevant(manifest))
<1> SUFFICES ASSUME MigInv PROVE IsFiniteSet(Relevant(manifest))
  OBVIOUS
<1>1. IsFiniteSet(manifest)
  BY MigrationAssumption, FS_EmptySet DEF MigInv, TypeOK
<1> QED
  BY <1>1, FS_Subset DEF Relevant

LEMMA RankIsNatural == IsFiniteSet(pending) /\ MigInv => RankOK
<1> SUFFICES ASSUME IsFiniteSet(pending), MigInv PROVE RankOK
  OBVIOUS
<1>1. IsFiniteSet(todo)
  BY MigrationAssumption, FS_Subset DEF MigInv, TypeOK
<1>2. StageLeft \in Nat
  BY DEF StageLeft, MigInv, TypeOK, Phases
<1>3. EntryOpen \in Nat
  BY DEF EntryOpen
<1> QED
  BY <1>1, <1>2, <1>3, FS_CardinalityType DEF RankOK

LEMMA PendingStaysFinite ==
    MigInv /\ IsFiniteSet(pending) /\ [Next]_vars => IsFiniteSet(pending)'
<1> SUFFICES ASSUME MigInv, IsFiniteSet(pending), [Next]_vars PROVE IsFiniteSet(pending')
  OBVIOUS
<1>1. \/ pending' = {} \/ pending' = pending \/ pending' = Relevant(manifest)
      \/ \E e \in pending : pending' = pending \ {e}
  BY DEF Next, StartUpStep, CreateRecord, UpdateRecord, DeleteRecord, Start, EndRun, FirstRun,
         NothingToMigrate, BeginRun, SkipEntry, BeginEntry, TransformRecord, QuarantineRecord,
         RunFails, CommitEntry, FinishRun, StampVersion, run, vars
<1> QED
  BY <1>1, FS_EmptySet, RelevantIsFinite, OneFewer

Descends ==
    Lower(StageLeft', Cardinality(pending'), EntryOpen', Cardinality(todo'),
          StageLeft, Cardinality(pending), EntryOpen, Cardinality(todo))

LEMMA StartUpDescends ==
    ASSUME MigInv, RankOK, StartUpStep
    PROVE  Descends
<1> USE DEF Descends, Lower
<1>1. CASE FirstRun \/ NothingToMigrate \/ BeginRun \/ RunFails \/ FinishRun \/ StampVersion
  <2>1. StageLeft' < StageLeft
    BY <1>1 DEF StageLeft, FirstRun, NothingToMigrate, BeginRun, RunFails, EndRun, FinishRun,
                StampVersion
  <2> QED
    BY <2>1
<1>2. ASSUME NEW e \in pending, SkipEntry(e) \/ BeginEntry(e) PROVE Descends
  <2>1. pending' = pending \ {e} /\ phase = "migrate" /\ phase' \in {"migrate", "records"}
    BY <1>2 DEF SkipEntry, BeginEntry
  <2>2. Cardinality(pending') < Cardinality(pending)
    BY <2>1, OneFewer DEF RankOK
  <2>3. StageLeft' = StageLeft
    BY <2>1 DEF StageLeft
  <2> QED
    BY <2>2, <2>3
<1>3. ASSUME NEW id \in Ids, TransformRecord(id) \/ QuarantineRecord(id) PROVE Descends
  <2>1. id \in todo /\ todo' = todo \ {id} /\ pending' = pending /\ phase' = phase
    BY <1>3 DEF TransformRecord, QuarantineRecord
  <2>2. Cardinality(todo') < Cardinality(todo)
    BY <2>1, OneFewer DEF RankOK
  <2>3. StageLeft' = StageLeft /\ EntryOpen' = EntryOpen
    BY <2>1 DEF StageLeft, EntryOpen
  <2> QED
    BY <2>1, <2>2, <2>3
<1>4. CASE CommitEntry
  <2>1. pending' = pending /\ phase = "records" /\ phase' = "migrate"
    BY <1>4 DEF CommitEntry
  <2>2. StageLeft' = StageLeft /\ EntryOpen' < EntryOpen
    BY <2>1 DEF StageLeft, EntryOpen
  <2> QED
    BY <2>1, <2>2
<1> QED
  BY <1>1, <1>2, <1>3, <1>4 DEF StartUpStep

\* Every step of start-up brings the server closer to serving: how much is left of the
\* check, of the manifest's entries and of the records of the open one goes down in an
\* order without infinite descent, whichever transforms and statements fail.  So a
\* start-up that is not cut short cannot go on for ever, and a failed run is not tried
\* again within it (run_migrations, migrate_records).
THEOREM EveryStartUpDescends ==
    /\ Spec => [][StartUpStep => <<Rank', Rank>> \in Below]_vars
    /\ IsWellFoundedOn(Below, Ranks)
<1> DEFINE Fin == IsFiniteSet(pending)
           A == StartUpStep => <<Rank', Rank>> \in Below
<1>1. Spec => []Fin
  <2>1. Init => Fin
    BY FS_EmptySet DEF Init
  <2>2. MigInv /\ Fin /\ [Next]_vars => Fin'
    BY PendingStaysFinite
  <2> HIDE DEF Fin
  <2> QED
    BY <2>1, <2>2, MigrationInvariant, PTL DEF Spec
<1>2. ASSUME MigInv, MigInv', Fin, Fin', StartUpStep PROVE <<Rank', Rank>> \in Below
  <2>1. RankOK
    BY <1>2, RankIsNatural
  <2>2. RankOK'
    BY <1>2, RankIsNatural, PTL
  <2>3. Descends
    BY <1>2, <2>1, StartUpDescends
  <2>4. Rank' = <<StageLeft', Cardinality(pending'), EntryOpen', Cardinality(todo')>>
    BY DEF Rank
  <2> QED
    BY <2>1, <2>2, <2>3, <2>4, LowerIsBelow DEF Descends, Rank, RankOK
<1>3. MigInv /\ MigInv' /\ Fin /\ Fin' /\ [Next]_vars => [A]_vars
  BY <1>2
<1> HIDE DEF Fin, A
<1>4. Spec => [][A]_vars
  BY <1>1, <1>3, MigrationInvariant, PTL DEF Spec
<1> QED
  BY <1>4, BelowIsWellFounded DEF A

\* The conditions under which a step of start-up other than RunFails can be taken.
CanGoOn ==
    \/ phase = "check"
    \/ phase = "migrate" /\ (pending = {} \/ \E e \in pending : IsFirst(e))
    \/ phase = "records" /\ (todo = {} \/ \E id \in Ids : id \in todo)
    \/ phase = "stamp"

\* Of entries still to be applied one has the lowest target.
LEMMA SomeEntryIsFirst ==
    ASSUME MigInv, pending # {}
    PROVE  \E e \in pending : IsFirst(e)
<1> DEFINE T == {e.to : e \in pending}
<1>1. \A e \in pending : e.to \in Nat
  BY EntryFacts DEF MigInv, TypeOK
<1>2. T \subseteq Nat /\ T # {}
  BY <1>1
<1>3. PICK t \in T : \A u \in T : ~(<<u, t>> \in OpToRel(<, Nat))
  <2> HIDE DEF T
  <2> QED
    BY <1>2, NatLessThanWellFounded, WFMin
<1>4. \A u \in T : t <= u
  <2> SUFFICES ASSUME NEW u \in T PROVE t <= u
    OBVIOUS
  <2>1. t \in Nat /\ u \in Nat
    BY <1>2
  <2>2. ~(u < t)
    BY <1>3, <2>1 DEF OpToRel
  <2> QED
    BY <2>1, <2>2
<1> QED
  BY <1>3, <1>4 DEF IsFirst

\* Until the server serves, start-up is never stuck, even if nothing fails: an entry
\* that is pending can always be reached in the order of targets, and an open one can
\* always be finished (run_migrations).
THEOREM StartUpIsNeverStuck == Spec => [](phase = "serving" \/ CanGoOn)
<1>1. MigInv => (phase = "serving" \/ CanGoOn)
  BY SomeEntryIsFirst DEF CanGoOn, MigInv, TypeOK, Phases
<1> QED
  BY <1>1, MigrationInvariant, PTL
=============================================================================
