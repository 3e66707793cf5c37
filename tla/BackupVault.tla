----------------------------- MODULE BackupVault -----------------------------
(***************************************************************************)
(* Backups and their retention: plugins/engine/backup/src/engine.rs and    *)
(* retention.rs, over a backend of opaque blobs (backend/local.rs).        *)
(*                                                                         *)
(* A backup is two blobs, written one after the other: the encrypted       *)
(* archive, then the manifest that lists it and holds the archive's        *)
(* SHA-256.  Retention deletes them in the same order.  The local backend  *)
(* writes in place, so a failed or interrupted put leaves a torn blob.  The*)
(* id of a backup is its kind and its creation time in milliseconds: two   *)
(* backups of one millisecond share their blobs.  An archive is named by   *)
(* the run that made it (its salt and nonce are fresh, so no two archives  *)
(* have the same bytes or checksum); gzip, Argon2 and AES-GCM are          *)
(* inverted by restore and left out.                                       *)
(***************************************************************************)
EXTENDS Naturals, FiniteSets

CONSTANTS Jobs,           \* backup calls, each made once
          Kinds,          \* {"full", "incr"}
          MaxCount,       \* RetentionPolicy.max_count
          MaxAge,         \* RetentionPolicy.retention_days, in clock units
          LastTime, MaxPasses,
          Nothing, TornBlob

VARIABLES instant,        \* Utc::now()
          archives,       \* the `{id}.enc` blobs
          manifests,      \* the `{id}.manifest.json` blobs
          job,            \* where each backup call is
          pass,           \* the retention pass that is running, if any
          spoilt,         \* ids used twice, or left between their two deletes
          passes

vaultVars == <<instant, archives, manifests, job, pass, spoilt, passes>>

BackupIds == Kinds \X (0 .. LastTime)

NoPass == [at |-> "none", todo |-> {}, listed |-> {}, rank |-> 0, now |-> 0, id |-> Nothing]

VaultInit ==
    /\ instant = 0
    /\ archives = [id \in BackupIds |-> Nothing]
    /\ manifests = [id \in BackupIds |-> Nothing]
    /\ job = [j \in Jobs |-> [at |-> "idle", id |-> Nothing]]
    /\ pass = NoPass
    /\ spoilt = {}
    /\ passes = 0

Now ==
    /\ instant < LastTime /\ instant' = instant + 1
    /\ UNCHANGED <<archives, manifests, job, pass, spoilt, passes>>

\* create_full_backup and create_incremental_backup up to the first put.
BeginBackup(j, kind) ==
    LET id == <<kind, instant>>
    IN /\ job[j].at = "idle"
       /\ job' = [job EXCEPT ![j] = [at |-> "archive", id |-> id]]
       /\ spoilt' = IF \E k \in Jobs : job[k].id = id THEN spoilt \cup {id} ELSE spoilt
       /\ UNCHANGED <<instant, archives, manifests, pass, passes>>

\* Mutant: the error of the first put is not looked at.
PutArchiveIgnoresError(j, ok) ==
    /\ job[j].at = "archive"
    /\ archives' = [archives EXCEPT ![job[j].id] = IF ok THEN j ELSE TornBlob]
    /\ job' = [job EXCEPT ![j].at = "manifest"]
    /\ UNCHANGED <<instant, manifests, pass, spoilt, passes>>

\* backend.put of the archive: an error, or the end of the process, leaves the
\* blob as it was or torn, and the manifest is not written.
PutArchive(j, ok) ==
    /\ job[j].at = "archive"
    /\ \E blob \in IF ok THEN {j} ELSE {archives[job[j].id], TornBlob} :
          archives' = [archives EXCEPT ![job[j].id] = blob]
    /\ job' = [job EXCEPT ![j].at = IF ok THEN "manifest" ELSE "over"]
    /\ UNCHANGED <<instant, manifests, pass, spoilt, passes>>

\* The manifest carries the checksum of the archive and the creation time.
PutManifest(j, ok) ==
    /\ job[j].at = "manifest"
    /\ \E blob \in IF ok THEN {[checksum |-> j, at |-> job[j].id[2]]}
                         ELSE {manifests[job[j].id], TornBlob} :
          manifests' = [manifests EXCEPT ![job[j].id] = blob]
    /\ job' = [job EXCEPT ![j].at = "over"]
    /\ UNCHANGED <<instant, archives, pass, spoilt, passes>>

\* A manifest that is there and parses.
IsListed(id) == manifests[id] \notin {Nothing, TornBlob}

\* restore_full: the archive must have the checksum of the manifest.
RestoreFull(id) ==
    IF IsListed(id) /\ archives[id] = manifests[id].checksum THEN archives[id] ELSE Nothing

\* list_backups, then enforce_retention with what it returned.
BeginRetention ==
    /\ pass.at \in {"none", "done"} /\ passes < MaxPasses
    /\ passes' = passes + 1
    /\ pass' = LET all == {id \in BackupIds : IsListed(id)}
               IN [NoPass EXCEPT !.at = "visit", !.todo = all, !.listed = all, !.now = instant]
    /\ UNCHANGED <<instant, archives, manifests, job, spoilt>>

\* Mutant: the place in the list is compared with >.
KeepsOneMore(id) == pass.rank > MaxCount \/ id[2] + MaxAge < pass.now

\* A manifest of the sorted list is dropped for its place or for its age.
Expired(id) == pass.rank >= MaxCount \/ id[2] + MaxAge < pass.now

\* The loop visits the list newest first.
Visit(id) ==
    /\ pass.at = "visit" /\ id \in pass.todo
    /\ \A other \in pass.todo : other[2] <= id[2]
    /\ pass' = [pass EXCEPT !.todo = @ \ {id}, !.rank = @ + 1,
                            !.at = IF Expired(id) THEN "archive" ELSE "visit", !.id = id]
    /\ UNCHANGED <<instant, archives, manifests, job, spoilt, passes>>

\* The two deletes of a dropped backup; an error in either ends the pass.
DeleteArchive(ok) ==
    /\ pass.at = "archive"
    /\ archives' = IF ok THEN [archives EXCEPT ![pass.id] = Nothing] ELSE archives
    /\ pass' = IF ok THEN [pass EXCEPT !.at = "manifest"] ELSE NoPass
    /\ UNCHANGED <<instant, manifests, job, spoilt, passes>>

DeleteManifest(ok) ==
    /\ pass.at = "manifest"
    /\ manifests' = IF ok THEN [manifests EXCEPT ![pass.id] = Nothing] ELSE manifests
    /\ pass' = IF ok THEN [pass EXCEPT !.at = "visit"] ELSE NoPass
    /\ spoilt' = IF ok THEN spoilt ELSE spoilt \cup {pass.id}
    /\ UNCHANGED <<instant, archives, job, passes>>

EndRetention ==
    /\ pass.at = "visit" /\ pass.todo = {}
    /\ pass' = [pass EXCEPT !.at = "done"]
    /\ UNCHANGED <<instant, archives, manifests, job, spoilt, passes>>

\* The process ends: what was running is cut where it stands.
Killed ==
    /\ \E j \in Jobs : job[j].at \in {"archive", "manifest"}
       \/ pass.at \in {"visit", "archive", "manifest"}
    /\ job' = [j \in Jobs |-> IF job[j].at = "idle" THEN job[j] ELSE [job[j] EXCEPT !.at = "over"]]
    /\ pass' = NoPass
    /\ spoilt' = IF pass.at = "manifest" THEN spoilt \cup {pass.id} ELSE spoilt
    /\ UNCHANGED <<instant, archives, manifests, passes>>

VaultNext ==
    \/ Now
    \/ \E j \in Jobs, k \in Kinds : BeginBackup(j, k)
    \/ \E j \in Jobs, ok \in BOOLEAN : PutArchive(j, ok) \/ PutManifest(j, ok)
    \/ BeginRetention
    \/ \E id \in BackupIds : Visit(id)
    \/ \E ok \in BOOLEAN : DeleteArchive(ok) \/ DeleteManifest(ok)
    \/ EndRetention
    \/ Killed

VaultSpec == VaultInit /\ [][VaultNext]_vaultVars

-----------------------------------------------------------------------------
(* Every backup that list_backups shows can be restored, at any moment of  *)
(* any number of backups and retention passes and after any crash: the     *)
(* archive is complete before its manifest exists (engine.rs:87 and :92).  *)
(* The exceptions are a backup retention is just deleting or was stopped   *)
(* deleting, between the two deletes (retention.rs:37), and two backups of *)
(* the same millisecond.                                                   *)
ListedRestores ==
    \A id \in BackupIds :
        IsListed(id) /\ id \notin spoilt /\ ~(pass.at = "manifest" /\ pass.id = id)
            => RestoreFull(id) # Nothing

(* When a retention pass has gone through its list, what is left of the    *)
(* list is what the policy keeps: at most max_count backups, none of them  *)
(* past the age limit, none older than one that was dropped for its place  *)
(* (retention.rs:29).                                                      *)
RetentionExact ==
    pass.at = "done" =>
        LET kept == {id \in pass.listed \ spoilt : IsListed(id)}
        IN /\ Cardinality(kept) <= MaxCount
           /\ \A id \in kept : id[2] + MaxAge >= pass.now
           /\ \A id \in pass.listed \ (kept \cup spoilt), k \in kept : id[2] <= k[2]

=============================================================================
