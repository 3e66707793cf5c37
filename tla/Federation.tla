----------------------------- MODULE Federation -----------------------------
(***************************************************************************)
(* Pull-based replication of one collection from one peer                  *)
(* (apps/core/src/federation.rs, sync_primitives.rs, routes/federation.rs).*)
(*                                                                         *)
(* The peer serves the rows it has changed since a cursor, and hands out   *)
(* its current time as the next cursor.  This instance applies them one by *)
(* one to the rows it keeps under "federation:<peer id>".  Any number of   *)
(* trigger_sync requests may be under way at once; a client that goes away *)
(* drops its request where it stands.  Collections are synced one after    *)
(* the other and share nothing, so one is enough.                          *)
(*                                                                         *)
(* The data of a local row is modelled by the remote version it came from. *)
(* The peer is another instance of this code, whose serve_changes only     *)
(* sends updates, so those branches of apply_change for creates and deletes*)
(* are not reached.                                                        *)
(***************************************************************************)
EXTENDS LegacyStorage, FiniteSets

CONSTANTS
    Ids,         \* records of the peer's collection; created once (a new UUID)
    Syncs,       \* trigger_sync requests that may be under way together
    MaxVersion,  \* bound on a remote record's version
    MaxTime,     \* bound on the peer's clock
    PageLimit,   \* rows serve_changes lists
    NoId

ASSUME FederationAssumption ==
    /\ MaxVersion \in Nat \ {0}
    /\ MaxTime \in Nat \ {0}
    /\ PageLimit \in Nat \ {0}
    /\ NoId \notin Ids

VARIABLES
    remote,      \* the peer's rows
    written,     \* versions written so far under each id
    updated_at,  \* when each was last written; times start at 1
    writing,     \* the peer's write that has read the clock and awaits the lock
    now,         \* the peer's clock
    local,       \* rows under federation:<peer id>
    cursor,      \* the stored cursor; 0 is the empty string
    sync,        \* the requests
    status,      \* PeerStatus, or "removed"
    late,        \* ids whose last write a cursor passed without its being applied
    overlapped   \* two requests have been under way together

vars == <<remote, written, updated_at, writing, now, local, cursor, sync, status,
          late, overlapped>>
remoteVars == <<remote, written, updated_at, writing, now>>
localVars == <<local, cursor, status>>

Change(id, version) == [id |-> id, version |-> version]

NoChange == Change(NoId, 0)

Request(phase, since, changes, next, change, existing) ==
    [phase |-> phase, since |-> since, changes |-> changes, next |-> next,
     change |-> change, existing |-> existing]

Idle == Request("idle", 0, {}, 0, NoChange, 0)

Phases == {"idle", "client", "request", "listed", "apply", "put", "failed", "finish"}

Under(s) == sync[s].phase # "idle"

Quiet == \A s \in Syncs : ~Under(s)

Changes == [id : Ids, version : 1 .. MaxVersion]

Rows == [version : 0 .. MaxVersion, data : 0 .. MaxVersion]

Requests ==
    [phase : Phases, since : 0 .. MaxTime, changes : SUBSET Changes, next : 0 .. MaxTime,
     change : Changes \cup {NoChange}, existing : 0 .. MaxVersion]

NoWrite == [id |-> NoId, at |-> 0]

TypeOK ==
    /\ remote \in [Ids -> Rows]
    /\ written \in [Ids -> 0 .. MaxVersion]
    /\ updated_at \in [Ids -> 0 .. MaxTime]
    /\ writing \in [id : Ids, at : 1 .. MaxTime] \cup {NoWrite}
    /\ now \in 1 .. MaxTime
    /\ local \in [Ids -> Rows]
    /\ cursor \in 0 .. MaxTime
    /\ sync \in [Syncs -> Requests]
    /\ status \in {"pending", "connected", "syncing", "error", "removed"}
    /\ late \subseteq Ids
    /\ overlapped \in BOOLEAN

Init ==
    /\ remote = [id \in Ids |-> NoRow]
    /\ written = [id \in Ids |-> 0]
    /\ updated_at = [id \in Ids |-> 0]
    /\ writing = NoWrite
    /\ now = 1
    /\ local = [id \in Ids |-> NoRow]
    /\ cursor = 0
    /\ sync = [s \in Syncs |-> Idle]
    /\ status = "pending"
    /\ late = {}
    /\ overlapped = FALSE

-----------------------------------------------------------------------------
(* The peer *)

Tick ==
    /\ now < MaxTime
    /\ now' = now + 1
    /\ UNCHANGED <<remote, written, updated_at, writing, localVars, sync, late, overlapped>>

\* create and update read the clock before they ask for the connection lock.
StampWrite(id) ==
    /\ writing = NoWrite
    /\ Exists(remote, id) \/ written[id] = 0
    /\ written[id] < MaxVersion
    /\ writing' = [id |-> id, at |-> now]
    /\ UNCHANGED <<remote, written, updated_at, now, localVars, sync, late, overlapped>>

\* The write is late for a request that has listed the rows and not yet read
\* the clock, and for every cursor handed out that is not before its timestamp.
IsLate(at) ==
    \/ at <= cursor
    \/ \E s \in Syncs : sync[s].phase = "listed" \/ at <= sync[s].next

CommitWrite ==
    /\ writing # NoWrite
    /\ writing' = NoWrite
    /\ LET id == writing.id IN
       IF CanCreate(remote, id) /\ written[id] > 0
       THEN UNCHANGED <<remote, written, updated_at, late>>
       ELSE /\ written' = [written EXCEPT ![id] = @ + 1]
            /\ remote' = IF CanCreate(remote, id) THEN Created(remote, id, 0)
                         ELSE Updated(remote, id, 0, remote[id].version)
            /\ updated_at' = [updated_at EXCEPT ![id] = writing.at]
            /\ late' = IF IsLate(writing.at) THEN late \cup {id} ELSE late \ {id}
    /\ UNCHANGED <<now, localVars, sync, overlapped>>

DeleteRemote(id) ==
    /\ Exists(remote, id)
    /\ remote' = Deleted(remote, id)
    /\ UNCHANGED <<written, updated_at, writing, now, localVars, sync, late, overlapped>>

-----------------------------------------------------------------------------
(* A request: trigger_sync, sync_with_peer, record_sync *)

TriggerSync(s) ==
    /\ status # "removed"
    /\ sync[s] = Idle
    /\ status' = "syncing"
    /\ sync' = [sync EXCEPT ![s].phase = "client"]
    /\ overlapped' = (overlapped \/ ~Quiet)
    /\ UNCHANGED <<remoteVars, local, cursor, late>>

\* The request names no collection of the peer; or the mTLS client is built and
\* the cursor read; or the certificates cannot be read.
BuildClient(s) ==
    /\ sync[s].phase = "client"
    /\ \/ sync' = [sync EXCEPT ![s].phase = "finish"]
       \/ sync' = [sync EXCEPT ![s].phase = "request", ![s].since = cursor]
       \/ sync' = [sync EXCEPT ![s].phase = "failed"]
    /\ UNCHANGED <<remoteVars, localVars, late, overlapped>>

\* The rows with updated_at > since.
NewerSince(since) == {id \in Ids : Exists(remote, id) /\ updated_at[id] > since}

\* serve_changes lists at most PageLimit rows of the collection, in no order of
\* its own, before it looks at their timestamps.
ServeChanges(s) ==
    /\ sync[s].phase = "request"
    /\ \E page \in SUBSET {id \in Ids : Exists(remote, id)} :
          /\ \/ page = {id \in Ids : Exists(remote, id)}
             \/ Cardinality(page) = PageLimit
          /\ Cardinality(page) <= PageLimit
          /\ sync' = [sync EXCEPT
                ![s].phase = "listed",
                ![s].since = 0,
                ![s].changes = {Change(id, remote[id].version) :
                                   id \in page \cap NewerSince(sync[s].since)}]
          /\ late' = late \cup (NewerSince(sync[s].since) \ page)
    /\ UNCHANGED <<remoteVars, localVars, overlapped>>

\* The cursor is the time at which the response is put together.
Respond(s) ==
    /\ sync[s].phase = "listed"
    /\ sync' = [sync EXCEPT ![s].phase = "apply", ![s].next = now]
    /\ UNCHANGED <<remoteVars, localVars, late, overlapped>>

\* No connection, an error status or a body that does not parse: the collection
\* is passed over, and the sync counts as successful.
PullFails(s) ==
    /\ sync[s].phase \in {"request", "listed"}
    /\ sync' = [sync EXCEPT ![s].phase = "finish", ![s].since = 0, ![s].changes = {}]
    /\ UNCHANGED <<remoteVars, localVars, late, overlapped>>

\* apply_change: storage.get ...
GetExisting(s) ==
    /\ sync[s].phase = "apply"
    /\ \E change \in sync[s].changes :
          sync' = [sync EXCEPT ![s].phase = "put",
                               ![s].changes = @ \ {change},
                               ![s].change = change,
                               ![s].existing = local[change.id].version]
    /\ UNCHANGED <<remoteVars, localVars, late, overlapped>>

\* Mutant: an equal version is written too.
OverwritesEqual(existing, version) == existing = 0 \/ version >= existing

\* ... whether the change is applied ...
Overwrites(existing, version) == existing = 0 \/ version > existing

\* ... and create_with_id, or update with the version that get returned.  The
\* error of a row that changed in between counts as a conflict and is passed over.
PutChange(s) ==
    /\ sync[s].phase = "put"
    /\ LET change == sync[s].change
           existing == sync[s].existing IN
       local' =
          IF ~Overwrites(existing, change.version) THEN local
          ELSE IF existing = 0 /\ CanCreate(local, change.id)
               THEN Created(local, change.id, change.version)
          ELSE IF existing # 0 /\ CanUpdate(local, change.id, existing)
               THEN Updated(local, change.id, change.version, existing)
          ELSE local
    /\ sync' = [sync EXCEPT ![s].phase = "apply", ![s].change = NoChange, ![s].existing = 0]
    /\ UNCHANGED <<remoteVars, cursor, status, late, overlapped>>

\* A storage error of get, create_with_id or update counts as a conflict too: the
\* change is passed over, and the cursor will move past it.
PutFails(s) ==
    /\ sync[s].phase = "put"
    /\ sync' = [sync EXCEPT ![s].phase = "apply", ![s].change = NoChange, ![s].existing = 0]
    /\ late' = late \cup {sync[s].change.id}
    /\ UNCHANGED <<remoteVars, localVars, overlapped>>

\* Mutant: the cursor is stored before the changes are applied.
StoreCursorEarly(s) ==
    /\ sync[s].phase = "apply"
    /\ cursor' = sync[s].next
    /\ sync' = [sync EXCEPT ![s].phase = IF sync[s].changes = {} THEN "finish" ELSE "apply"]
    /\ UNCHANGED <<remoteVars, local, status, late, overlapped>>

\* All changes have been tried: the new cursor is stored.
StoreCursor(s) ==
    /\ sync[s].phase = "apply"
    /\ sync[s].changes = {}
    /\ cursor' = sync[s].next
    /\ sync' = [sync EXCEPT ![s].phase = "finish", ![s].next = 0]
    /\ UNCHANGED <<remoteVars, local, status, late, overlapped>>

RecordSync(s) ==
    /\ sync[s].phase \in {"finish", "failed"}
    /\ status' = IF status = "removed" THEN status
                 ELSE IF sync[s].phase = "failed" THEN "error" ELSE "connected"
    /\ sync' = [sync EXCEPT ![s] = Idle]
    /\ UNCHANGED <<remoteVars, local, cursor, late, overlapped>>

\* The client of trigger_sync goes away; nothing resets the peer's status.
DropRequest(s) ==
    /\ Under(s)
    /\ sync' = [sync EXCEPT ![s] = Idle]
    /\ UNCHANGED <<remoteVars, localVars, late, overlapped>>

RemovePeer ==
    /\ status # "removed"
    /\ status' = "removed"
    /\ UNCHANGED <<remoteVars, local, cursor, sync, late, overlapped>>

SyncStep(s) ==
    \/ BuildClient(s)
    \/ ServeChanges(s)
    \/ Respond(s)
    \/ PullFails(s)
    \/ GetExisting(s)
    \/ PutChange(s)
    \/ PutFails(s)
    \/ StoreCursor(s)
    \/ RecordSync(s)

Next ==
    \/ Tick
    \/ \E id \in Ids : StampWrite(id) \/ DeleteRemote(id)
    \/ CommitWrite
    \/ \E s \in Syncs : TriggerSync(s) \/ SyncStep(s) \/ DropRequest(s)
    \/ RemovePeer

Spec == Init /\ [][Next]_vars

-----------------------------------------------------------------------------
(* What must hold *)

\* The version of a local row never gets ahead of the remote version its data
\* came from, which was really written: so a later remote change always has a
\* higher version than the row and is never skipped as stale.
LocalVersionIsBehind ==
    \A id \in Ids : local[id].version <= local[id].data /\ local[id].data <= written[id]

\* Between syncs that did not overlap, every row the cursor has passed is held in
\* its current version, except rows written while a response was put together,
\* left out of a page or refused by the local storage.  Failed pulls and dropped
\* requests lose nothing.
CursorSkipsNothing ==
    ~overlapped /\ Quiet =>
        \A id \in Ids :
            Exists(remote, id) /\ id \notin late /\ updated_at[id] <= cursor
                => local[id].data = remote[id].version

\* apply_change: "If local is newer, skip (last-write-wins)": a change never
\* replaces newer data of the same peer.
LastWriteWins == [][\A id \in Ids : local[id].data <= local'[id].data]_vars
=============================================================================
