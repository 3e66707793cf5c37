--------------------------- MODULE FederationProofs ---------------------------
(***************************************************************************)
(* Proofs about copies of the data: the rows that a peer's changes make    *)
(* here, and the backups kept in a storage elsewhere.                      *)
(***************************************************************************)
EXTENDS Federation, BackupVault, FiniteSetTheorems, TLAPS

(***************************************************************************)
(* Proofs, for any number of records and of overlapping syncs, that a row  *)
(* copied from a peer never gets a version ahead of the peer's own.        *)
(*                                                                         *)
(* The reason is spread over three places, which FedInv puts together: the *)
(* peer only serves versions it has written (ServedOK), a row that was     *)
(* deleted keeps its id for good (RemoteOK), and an update bumps the       *)
(* version it has read by one only when the change is at least as high.    *)
(***************************************************************************)

\* A remote row has the version of its last write; a pending write has room.
RemoteOK ==
    /\ \A id \in Ids : remote[id].version \in {0, written[id]}
    /\ writing # NoWrite => written[writing.id] < MaxVersion

\* What a request carries was written by the peer.
ServedOK ==
    \A s \in Syncs :
        /\ \A change \in sync[s].changes : change.version <= written[change.id]
        /\ sync[s].phase = "put" =>
              /\ sync[s].change \in Changes
              /\ sync[s].change.version <= written[sync[s].change.id]

FedInv == TypeOK /\ RemoteOK /\ ServedOK /\ LocalVersionIsBehind

-----------------------------------------------------------------------------

\* Before the first sync nothing has been copied.
LEMMA InitFedInv == Init => FedInv
<1> SUFFICES ASSUME Init PROVE FedInv
  OBVIOUS
<1> USE DEF Idle, Request, NoChange, Change, NoRow, Row
<1>1. TypeOK
  <2>1. Idle \in Requests
    BY FederationAssumption DEF Requests, Phases
  <2>2. NoRow \in Rows
    BY FederationAssumption DEF Rows
  <2>3. /\ remote \in [Ids -> Rows] /\ local \in [Ids -> Rows]
        /\ sync \in [Syncs -> Requests]
    BY <2>1, <2>2 DEF Init
  <2>4. /\ written \in [Ids -> 0 .. MaxVersion] /\ updated_at \in [Ids -> 0 .. MaxTime]
        /\ now \in 1 .. MaxTime /\ cursor \in 0 .. MaxTime
    BY FederationAssumption DEF Init
  <2>5. overlapped \in BOOLEAN
    BY ZenonT(60) DEF Init
  <2> QED
    BY <2>3, <2>4, <2>5, ZenonT(60) DEF Init, TypeOK
<1>2. RemoteOK /\ ServedOK /\ LocalVersionIsBehind
  BY DEF Init, RemoteOK, ServedOK, LocalVersionIsBehind
<1> QED
  BY <1>1, <1>2 DEF FedInv

\* The peer's clock and the start of a write keep the invariant.
LEMMA PeerPreparesKeeps ==
    ASSUME FedInv, Tick \/ \E id \in Ids : StampWrite(id)
    PROVE  FedInv'
<1> USE DEF FedInv, localVars
<1>1. CASE Tick
  <2>1. TypeOK'
    BY <1>1, FederationAssumption DEF Tick, TypeOK
  <2> QED
    BY <1>1, <2>1 DEF Tick, RemoteOK, ServedOK, LocalVersionIsBehind
<1>2. ASSUME NEW id \in Ids, StampWrite(id) PROVE FedInv'
  <2>1. TypeOK'
    BY <1>2 DEF StampWrite, TypeOK
  <2> QED
    BY <1>2, <2>1 DEF StampWrite, RemoteOK, ServedOK, LocalVersionIsBehind
<1> QED
  BY <1>1, <1>2

\* A committed write raises the version that was written, never lowers it.
LEMMA CommitWriteKeeps ==
    ASSUME FedInv, CommitWrite
    PROVE  FedInv'
<1> USE DEF FedInv, CommitWrite, localVars
<1>1. writing \in [id : Ids, at : 1 .. MaxTime]
  BY DEF TypeOK
<1>2. written[writing.id] \in 0 .. MaxVersion /\ written[writing.id] < MaxVersion
  BY <1>1 DEF TypeOK, RemoteOK
<1>3. \/ UNCHANGED <<remote, written, updated_at, late>>
      \/ /\ written' = [written EXCEPT ![writing.id] = @ + 1]
         /\ updated_at' = [updated_at EXCEPT ![writing.id] = writing.at]
         /\ remote' = [remote EXCEPT ![writing.id] = Row(written[writing.id] + 1, 0)]
         /\ late' \subseteq late \cup {writing.id}
  BY <1>1, <1>2 DEF TypeOK, RemoteOK, Rows, CanCreate, Exists, Created, Updated
<1>4. TypeOK'
  <2>1. Row(written[writing.id] + 1, 0) \in Rows
    BY <1>2, FederationAssumption DEF Row, Rows
  <2>2. remote' \in [Ids -> Rows]
    BY <1>1, <1>3, <2>1 DEF TypeOK
  <2>3. written' \in [Ids -> 0 .. MaxVersion]
    <3>1. written[writing.id] + 1 \in 0 .. MaxVersion
      BY <1>2, FederationAssumption
    <3>2. \/ written' = written
          \/ written' = [written EXCEPT ![writing.id] = written[writing.id] + 1]
      BY <1>3
    <3> QED
      BY <1>1, <3>1, <3>2 DEF TypeOK
  <2>4. writing.id \in Ids /\ writing.at \in 0 .. MaxTime
    BY <1>1, FederationAssumption
  <2>5. updated_at' \in [Ids -> 0 .. MaxTime]
    BY <1>3, <2>4 DEF TypeOK
  <2>6. late' \subseteq Ids
    BY <1>3, <2>4 DEF TypeOK
  <2>7. writing' = NoWrite /\ UNCHANGED <<now, local, cursor, status, sync, overlapped>>
    OBVIOUS
  <2> QED
    BY <2>2, <2>3, <2>5, <2>6, <2>7 DEF TypeOK
<1>5. \A id \in Ids : written[id] <= written'[id]
  BY <1>1, <1>2, <1>3 DEF TypeOK
<1>6. RemoteOK'
  BY <1>1, <1>2, <1>3 DEF RemoteOK, TypeOK, Row
<1>7. ServedOK'
  BY <1>5, <1>4 DEF ServedOK, TypeOK, Requests, Changes
<1>8. LocalVersionIsBehind'
  BY <1>5, <1>4 DEF LocalVersionIsBehind, TypeOK, Rows
<1> QED
  BY <1>4, <1>6, <1>7, <1>8

\* A deleted row takes nothing back that was served.
LEMMA DeleteRemoteKeeps ==
    ASSUME FedInv, NEW id \in Ids, DeleteRemote(id)
    PROVE  FedInv'
<1> USE DEF FedInv, DeleteRemote, localVars
<1>1. remote' = [remote EXCEPT ![id] = NoRow]
  BY DEF Deleted
<1>2. TypeOK'
  BY <1>1, FederationAssumption DEF TypeOK, Rows, NoRow, Row
<1>3. RemoteOK'
  BY <1>1 DEF RemoteOK, TypeOK, NoRow, Row
<1> QED
  BY <1>2, <1>3 DEF ServedOK, LocalVersionIsBehind

-----------------------------------------------------------------------------
(* The steps of a request *)

Statuses == {"pending", "connected", "syncing", "error", "removed"}

\* A step that replaces one request by another that carries only written versions,
\* and leaves the rows on both sides alone, keeps the invariant.
LEMMA RequestMoves ==
    ASSUME FedInv, NEW s \in Syncs, NEW q \in Requests, sync' = [sync EXCEPT ![s] = q],
           \A change \in q.changes : change.version <= written[change.id],
           q.phase = "put" => /\ q.change \in Changes
                              /\ q.change.version <= written[q.change.id],
           UNCHANGED <<remoteVars, local>>,
           cursor' \in 0 .. MaxTime, status' \in Statuses, late' \subseteq Ids,
           overlapped' \in BOOLEAN
    PROVE  FedInv'
<1> USE DEF remoteVars
<1>1. sync' \in [Syncs -> Requests]
  BY DEF FedInv, TypeOK
<1>2. TypeOK'
  BY <1>1 DEF FedInv, TypeOK, Statuses
<1>3. RemoteOK' /\ LocalVersionIsBehind'
  BY DEF FedInv, RemoteOK, LocalVersionIsBehind
<1>4. ServedOK'
  BY DEF FedInv, ServedOK, TypeOK
<1> QED
  BY <1>2, <1>3, <1>4 DEF FedInv

\* The request a step is about, and what is known of it before the step.
LEMMA RequestBefore ==
    ASSUME FedInv, NEW s \in Syncs
    PROVE  /\ sync \in [Syncs -> Requests] /\ sync[s] \in Requests
           /\ \A change \in sync[s].changes :
                 change \in Changes /\ change.version <= written[change.id]
           /\ cursor \in 0 .. MaxTime /\ status \in Statuses /\ late \subseteq Ids
           /\ overlapped \in BOOLEAN
<1>1. sync \in [Syncs -> Requests] /\ sync[s] \in Requests
  BY DEF FedInv, TypeOK
<1>2. \A change \in sync[s].changes :
         change \in Changes /\ change.version <= written[change.id]
  BY <1>1 DEF FedInv, ServedOK, Requests
<1>3. cursor \in 0 .. MaxTime /\ status \in Statuses /\ late \subseteq Ids
  BY DEF FedInv, TypeOK, Statuses
<1>4. overlapped \in BOOLEAN
  BY DEF FedInv, TypeOK
<1> QED
  BY <1>1, <1>2, <1>3, <1>4

\* Triggering a sync keeps the invariant.
LEMMA TriggerSyncKeeps ==
    ASSUME FedInv, NEW s \in Syncs, TriggerSync(s)
    PROVE  FedInv'
<1> DEFINE q == [sync[s] EXCEPT !.phase = "client"]
<1>1. q \in Requests /\ q.changes = sync[s].changes /\ q.phase # "put"
  BY RequestBefore DEF Requests, Phases
<1>2. sync' = [sync EXCEPT ![s] = q]
  BY RequestBefore DEF TriggerSync
<1>3. overlapped' \in BOOLEAN
  BY DEF TriggerSync
<1>4. UNCHANGED <<remoteVars, local, cursor, late>> /\ status' \in Statuses
  BY DEF TriggerSync, Statuses
<1> HIDE DEF q
<1> QED
  BY <1>1, <1>2, <1>3, <1>4, RequestBefore, RequestMoves, ZenonT(60)

\* A request that moves on without taking up anything new keeps the invariant.
LEMMA CarriesNoMore ==
    ASSUME FedInv, NEW s \in Syncs, NEW q \in Requests, sync' = [sync EXCEPT ![s] = q],
           q.changes \subseteq sync[s].changes, q.phase # "put",
           UNCHANGED <<remoteVars, local, late, overlapped>>,
           cursor' \in 0 .. MaxTime, status' \in Statuses
    PROVE  FedInv'
<1>1. \A change \in q.changes : change.version <= written[change.id]
  BY RequestBefore
<1>2. late' \subseteq Ids /\ overlapped' \in BOOLEAN
  BY RequestBefore
<1> QED
  BY <1>1, <1>2, RequestMoves, ZenonT(60)

\* Building the client keeps the invariant, whichever way it ends.
LEMMA BuildClientKeeps ==
    ASSUME FedInv, NEW s \in Syncs, BuildClient(s)
    PROVE  FedInv'
<1>1. PICK q \in {[sync[s] EXCEPT !.phase = "finish"],
                  [sync[s] EXCEPT !.phase = "request", !.since = cursor],
                  [sync[s] EXCEPT !.phase = "failed"]} : sync' = [sync EXCEPT ![s] = q]
  BY RequestBefore, ZenonT(60) DEF BuildClient
<1>2. q \in Requests /\ q.changes = sync[s].changes /\ q.phase # "put"
  BY RequestBefore, ZenonT(60) DEF Requests, Phases
<1>3. UNCHANGED <<remoteVars, local, cursor, status, late, overlapped>>
  BY DEF BuildClient, localVars
<1> QED
  BY <1>1, <1>2, <1>3, RequestBefore, CarriesNoMore, ZenonT(60)

\* serve_changes hands out versions that the peer has written.
LEMMA ServeChangesKeeps ==
    ASSUME FedInv, NEW s \in Syncs, ServeChanges(s)
    PROVE  FedInv'
<1> DEFINE newer == NewerSince(sync[s].since)
           served(page) == {Change(id, remote[id].version) : id \in page \cap newer}
           q(page) == [sync[s] EXCEPT !.phase = "listed", !.since = 0, !.changes = served(page)]
<1>1. PICK page \in SUBSET Ids :
         /\ sync' = [sync EXCEPT ![s] = q(page)]
         /\ late' = late \cup (newer \ page)
  BY RequestBefore, ZenonT(60) DEF ServeChanges
<1>2. \A id \in newer :
         /\ id \in Ids /\ remote[id].version = written[id]
         /\ remote[id].version \in 1 .. MaxVersion
  BY FederationAssumption DEF NewerSince, Exists, FedInv, RemoteOK, TypeOK, Rows
<1>3. \A change \in served(page) : change \in Changes /\ change.version <= written[change.id]
  BY <1>2, FederationAssumption DEF Change, Changes
<1>4. q(page) \in Requests /\ q(page).changes = served(page) /\ q(page).phase = "listed"
  <2>1. served(page) \in SUBSET Changes /\ 0 \in 0 .. MaxTime
    BY <1>3, FederationAssumption
  <2> HIDE DEF served
  <2> QED
    BY <2>1, RequestBefore, ZenonT(60) DEF Requests, Phases
<1>5. UNCHANGED <<remoteVars, local, cursor, status, overlapped>>
  BY DEF ServeChanges, localVars
<1>6. late' \subseteq Ids
  BY <1>1, <1>2, RequestBefore
<1> HIDE DEF q, served, newer
<1> QED
  BY <1>1, <1>3, <1>4, <1>5, <1>6, RequestBefore, RequestMoves, ZenonT(60)

\* The response, with the peer's time as its cursor, keeps the invariant.
LEMMA RespondKeeps ==
    ASSUME FedInv, NEW s \in Syncs, Respond(s)
    PROVE  FedInv'
<1> DEFINE q == [sync[s] EXCEPT !.phase = "apply", !.next = now]
<1>1. now \in 0 .. MaxTime
  BY FederationAssumption DEF FedInv, TypeOK
<1>2. q \in Requests /\ q.changes = sync[s].changes /\ q.phase # "put"
  BY <1>1, RequestBefore, ZenonT(60) DEF Requests, Phases
<1>3. sync' = [sync EXCEPT ![s] = q]
  BY RequestBefore, ZenonT(60) DEF Respond
<1>4. UNCHANGED <<remoteVars, local, cursor, status, late, overlapped>>
  BY DEF Respond, localVars
<1> HIDE DEF q
<1> QED
  BY <1>2, <1>3, <1>4, RequestBefore, CarriesNoMore, ZenonT(60)

\* A pull that fails keeps the invariant.
LEMMA PullFailsKeeps ==
    ASSUME FedInv, NEW s \in Syncs, PullFails(s)
    PROVE  FedInv'
<1> DEFINE q == [sync[s] EXCEPT !.phase = "finish", !.since = 0, !.changes = {}]
<1>1. q \in Requests /\ q.changes = {} /\ q.phase # "put"
  <2>1. 0 \in 0 .. MaxTime
    BY FederationAssumption
  <2> QED
    BY <2>1, RequestBefore, ZenonT(60) DEF Requests, Phases
<1>2. sync' = [sync EXCEPT ![s] = q]
  BY RequestBefore, ZenonT(60) DEF PullFails
<1>3. UNCHANGED <<remoteVars, local, cursor, status, late, overlapped>>
  BY DEF PullFails, localVars
<1> HIDE DEF q
<1> QED
  BY <1>1, <1>2, <1>3, RequestBefore, CarriesNoMore, ZenonT(60)

\* Looking the row up keeps the invariant.
LEMMA GetExistingKeeps ==
    ASSUME FedInv, NEW s \in Syncs, GetExisting(s)
    PROVE  FedInv'
<1>1. PICK change \in sync[s].changes :
         sync' = [sync EXCEPT ![s].phase = "put",
                              ![s].changes = @ \ {change},
                              ![s].change = change,
                              ![s].existing = local[change.id].version]
  BY ZenonT(60) DEF GetExisting
<1> DEFINE q == [sync[s] EXCEPT !.phase = "put", !.changes = @ \ {change},
                                !.change = change, !.existing = local[change.id].version]
<1>2. change \in Changes /\ change.version <= written[change.id]
  BY RequestBefore
<1>3. local[change.id].version \in 0 .. MaxVersion
  BY <1>2 DEF FedInv, TypeOK, Rows, Changes
<1>4. q \in Requests /\ q.changes \subseteq sync[s].changes /\ q.change = change
  BY <1>2, <1>3, RequestBefore, ZenonT(60) DEF Requests, Phases
<1>5. sync' = [sync EXCEPT ![s] = q]
  BY <1>1, RequestBefore, ZenonT(60)
<1>6. UNCHANGED <<remoteVars, local, cursor, status, late, overlapped>>
  BY DEF GetExisting, localVars
<1> HIDE DEF q
<1> QED
  BY <1>2, <1>4, <1>5, <1>6, RequestBefore, RequestMoves, ZenonT(60)

\* Where the row a change is put to ends up: as it was, or holding the change
\* under a version that is no higher than the change's own.
LEMMA PutChangeRow ==
    ASSUME FedInv, NEW s \in Syncs, PutChange(s)
    PROVE  \/ local' = local
           \/ \E id \in Ids, version \in 1 .. MaxVersion, data \in 1 .. MaxVersion :
                 /\ local' = [local EXCEPT ![id] = Row(version, data)]
                 /\ version <= data /\ data <= written[id]
<1> DEFINE change == sync[s].change
           existing == sync[s].existing
<1>1. /\ change.id \in Ids /\ change.version \in 1 .. MaxVersion
      /\ change.version <= written[change.id]
  BY DEF PutChange, FedInv, ServedOK, Changes
<1>2. existing \in 0 .. MaxVersion
  BY RequestBefore DEF Requests
<1>3. \/ local' = local
      \/ local' = Created(local, change.id, change.version)
      \/ /\ existing # 0 /\ Overwrites(existing, change.version)
         /\ local' = Updated(local, change.id, change.version, existing)
  BY DEF PutChange
<1> HIDE DEF change, existing
<1>4. CASE local' = Created(local, change.id, change.version)
  <2>1. 1 \in 1 .. MaxVersion /\ 1 <= change.version
    BY <1>1, FederationAssumption
  <2> QED
    BY <1>1, <1>4, <2>1, ZenonT(60) DEF Created
<1>5. CASE /\ existing # 0 /\ Overwrites(existing, change.version)
           /\ local' = Updated(local, change.id, change.version, existing)
  <2>1. existing + 1 \in 1 .. MaxVersion /\ existing + 1 <= change.version
    BY <1>1, <1>2, <1>5, FederationAssumption DEF Overwrites
  <2> QED
    BY <1>1, <1>5, <2>1, ZenonT(60) DEF Updated
<1> QED
  BY <1>3, <1>4, <1>5

\* Applying a change keeps the invariant.
LEMMA PutChangeKeeps ==
    ASSUME FedInv, NEW s \in Syncs, PutChange(s)
    PROVE  FedInv'
<1> USE DEF remoteVars
<1> DEFINE q == [sync[s] EXCEPT !.phase = "apply", !.change = NoChange, !.existing = 0]
<1>1. q \in Requests /\ q.changes = sync[s].changes /\ q.phase = "apply"
  <2>1. 0 \in 0 .. MaxVersion
    BY FederationAssumption
  <2> QED
    BY <2>1, RequestBefore, ZenonT(60) DEF Requests, Phases
<1>2. sync' = [sync EXCEPT ![s] = q]
  BY RequestBefore, ZenonT(60) DEF PutChange
<1>3. UNCHANGED <<remoteVars, cursor, status, late, overlapped>>
  BY DEF PutChange
<1> HIDE DEF q
<1>4. local' \in [Ids -> Rows] /\ LocalVersionIsBehind'
  <2>1. CASE local' = local
    BY <1>3, <2>1 DEF FedInv, TypeOK, LocalVersionIsBehind
  <2>2. ASSUME NEW id \in Ids, NEW version \in 1 .. MaxVersion, NEW data \in 1 .. MaxVersion,
               local' = [local EXCEPT ![id] = Row(version, data)],
               version <= data, data <= written[id]
        PROVE  local' \in [Ids -> Rows] /\ LocalVersionIsBehind'
    <3>1. Row(version, data) \in Rows
      BY FederationAssumption DEF Row, Rows
    <3>2. local' \in [Ids -> Rows]
      BY <2>2, <3>1 DEF FedInv, TypeOK
    <3>3. LocalVersionIsBehind'
      BY <1>3, <2>2 DEF FedInv, TypeOK, LocalVersionIsBehind, Row
    <3> QED
      BY <3>2, <3>3
  <2> QED
    BY <2>1, <2>2, PutChangeRow
<1>5. sync' \in [Syncs -> Requests]
  BY <1>1, <1>2 DEF FedInv, TypeOK
<1>6. TypeOK'
  BY <1>3, <1>4, <1>5 DEF FedInv, TypeOK
<1>7. RemoteOK'
  BY <1>3 DEF FedInv, RemoteOK
<1>8. ServedOK'
  BY <1>1, <1>2, <1>3 DEF FedInv, ServedOK, TypeOK
<1> QED
  BY <1>4, <1>6, <1>7, <1>8 DEF FedInv

\* Passing over a change that storage refused keeps the invariant.
LEMMA PutFailsKeeps ==
    ASSUME FedInv, NEW s \in Syncs, PutFails(s)
    PROVE  FedInv'
<1> DEFINE q == [sync[s] EXCEPT !.phase = "apply", !.change = NoChange, !.existing = 0]
<1>1. q \in Requests /\ q.changes = sync[s].changes /\ q.phase # "put"
  <2>1. 0 \in 0 .. MaxVersion
    BY FederationAssumption
  <2> QED
    BY <2>1, RequestBefore, ZenonT(60) DEF Requests, Phases
<1>2. sync' = [sync EXCEPT ![s] = q]
  BY RequestBefore, ZenonT(60) DEF PutFails
<1>3. late' \subseteq Ids
  BY RequestBefore DEF PutFails, FedInv, ServedOK, Changes
<1>4. UNCHANGED <<remoteVars, local, cursor, status, overlapped>>
  BY DEF PutFails, localVars
<1> HIDE DEF q
<1> QED
  BY <1>1, <1>2, <1>3, <1>4, RequestBefore, RequestMoves, ZenonT(60)

\* Storing the cursor keeps the invariant.
LEMMA StoreCursorKeeps ==
    ASSUME FedInv, NEW s \in Syncs, StoreCursor(s)
    PROVE  FedInv'
<1> DEFINE q == [sync[s] EXCEPT !.phase = "finish", !.next = 0]
<1>1. q \in Requests /\ q.changes = sync[s].changes /\ q.phase # "put"
  <2>1. 0 \in 0 .. MaxTime
    BY FederationAssumption
  <2> QED
    BY <2>1, RequestBefore, ZenonT(60) DEF Requests, Phases
<1>2. sync' = [sync EXCEPT ![s] = q] /\ cursor' \in 0 .. MaxTime
  BY RequestBefore, ZenonT(60) DEF StoreCursor, Requests
<1>3. UNCHANGED <<remoteVars, local, status, late, overlapped>>
  BY DEF StoreCursor
<1> HIDE DEF q
<1> QED
  BY <1>1, <1>2, <1>3, RequestBefore, CarriesNoMore, ZenonT(60)

\* The end of a request, recorded or dropped, keeps the invariant.
LEMMA EndOfRequestKeeps ==
    ASSUME FedInv, NEW s \in Syncs, RecordSync(s) \/ DropRequest(s)
    PROVE  FedInv'
<1>1. Idle \in Requests /\ Idle.changes = {} /\ Idle.phase # "put"
  BY FederationAssumption DEF Idle, Request, Requests, Phases
<1>2. sync' = [sync EXCEPT ![s] = Idle]
  BY DEF RecordSync, DropRequest
<1>3. UNCHANGED <<remoteVars, local, cursor, late, overlapped>>
  BY DEF RecordSync, DropRequest, localVars
<1>4. status' \in Statuses
  BY RequestBefore DEF RecordSync, DropRequest, localVars, Statuses
<1> QED
  BY <1>1, <1>2, <1>3, <1>4, RequestBefore, CarriesNoMore, ZenonT(60)

\* Every step keeps the invariant.
LEMMA NextFedInv == FedInv /\ [Next]_vars => FedInv'
<1> SUFFICES ASSUME FedInv, [Next]_vars PROVE FedInv'
  OBVIOUS
<1>1. CASE UNCHANGED vars
  BY <1>1 DEF vars, FedInv, TypeOK, RemoteOK, ServedOK, LocalVersionIsBehind
<1>2. CASE RemovePeer
  <2>1. TypeOK'
    BY <1>2 DEF RemovePeer, remoteVars, FedInv, TypeOK
  <2> QED
    BY <1>2, <2>1 DEF RemovePeer, remoteVars, FedInv, RemoteOK, ServedOK, LocalVersionIsBehind
<1>3. ASSUME NEW s \in Syncs, SyncStep(s) PROVE FedInv'
  BY <1>3, BuildClientKeeps, ServeChangesKeeps, RespondKeeps, PullFailsKeeps, GetExistingKeeps,
     PutChangeKeeps, PutFailsKeeps, StoreCursorKeeps, EndOfRequestKeeps DEF SyncStep
<1> QED
  BY <1>1, <1>2, <1>3, PeerPreparesKeeps, CommitWriteKeeps, DeleteRemoteKeeps,
     TriggerSyncKeeps, EndOfRequestKeeps DEF Next

\* Replication never leaves its inductive invariant.
THEOREM FederationInvariant == Spec => []FedInv
BY InitFedInv, NextFedInv, PTL DEF Spec

\* Every variable of the replication keeps its type.
THEOREM FederationTypeCorrect == Spec => []TypeOK
<1>1. FedInv => TypeOK
  BY DEF FedInv
<1> QED
  BY <1>1, FederationInvariant, PTL

\* However many syncs overlap and wherever they are dropped, a copied row never
\* gets a version ahead of the remote version it holds, so that the comparison in
\* apply_change never mistakes a newer remote change for a stale one.
THEOREM FederationNeverRunsAhead == Spec => []LocalVersionIsBehind
<1>1. FedInv => LocalVersionIsBehind
  BY DEF FedInv
<1> QED
  BY <1>1, FederationInvariant, PTL

-----------------------------------------------------------------------------
(* What the cursor has passed.  While requests do not overlap, the one request *)
(* under way is the only one to move the cursor or a local row.                *)

\* The row is held here in the peer's current version.
Held(id) == local[id].data = remote[id].version

\* The rows whose last write the cursor c covers.
Covered(c) == {id \in Ids : Exists(remote, id) /\ id \notin late /\ updated_at[id] <= c}

\* The row's current version is on its way in request s.
OnItsWay(s, id) ==
    \/ Change(id, remote[id].version) \in sync[s].changes
    \/ /\ sync[s].phase = "put"
       /\ sync[s].change = Change(id, remote[id].version)

\* The request carries a row at most once, in a version no older than the one held.
CarriedOnce(s) ==
    /\ \A change \in sync[s].changes : local[change.id].data <= change.version
    /\ \A change, other \in sync[s].changes : change.id = other.id => change = other

\* A request that has listed the rows carries every one it does not find held; once
\* it has a cursor of its own, every one that this cursor covers.  The version it has
\* looked up is still the row's.
RequestOK(s) ==
    /\ sync[s].phase = "request" => sync[s].since = cursor
    /\ sync[s].phase = "listed" =>
          \A id \in Ids : Exists(remote, id) /\ id \notin late => Held(id) \/ OnItsWay(s, id)
    /\ sync[s].phase \in {"apply", "put"} =>
          \A id \in Covered(sync[s].next) : Held(id) \/ OnItsWay(s, id)
    /\ sync[s].phase \in {"listed", "apply", "put"} => CarriedOnce(s)
    /\ sync[s].phase = "put" =>
          /\ sync[s].existing = local[sync[s].change.id].version
          /\ local[sync[s].change.id].data <= sync[s].change.version
          /\ \A change \in sync[s].changes : change.id # sync[s].change.id

CursorInv ==
    ~overlapped =>
        /\ \A s, t \in Syncs : Under(s) /\ Under(t) => s = t
        /\ \A id \in Covered(cursor) : Held(id)
        /\ \A s \in Syncs : RequestOK(s)

LEMMA InitCursorInv == Init => CursorInv
BY DEF Init, CursorInv, Covered, Exists, NoRow, Row, Under, RequestOK, Idle, Request

\* The peer's clock, the start of a write and the removal of the peer touch none of it.
LEMMA BystanderKeepsCursor ==
    ASSUME FedInv, CursorInv,
           UNCHANGED <<remote, updated_at, local, cursor, sync, late, overlapped>>
    PROVE  CursorInv'
BY DEF CursorInv, Covered, Held, OnItsWay, CarriedOnce, RequestOK, Under, Exists

\* A write that commits is late for every cursor it should have been before.
LEMMA CommitWriteKeepsCursor ==
    ASSUME FedInv, CursorInv, CommitWrite
    PROVE  CursorInv'
<1> SUFFICES ASSUME ~overlapped PROVE CursorInv'
  BY DEF CommitWrite, CursorInv
<1> DEFINE w == writing.id
<1>1. w \in Ids /\ writing.at \in 1 .. MaxTime
  BY DEF CommitWrite, FedInv, TypeOK
<1>2. UNCHANGED <<local, cursor, sync, overlapped>>
  BY DEF CommitWrite, localVars
<1>3. CASE UNCHANGED <<remote, updated_at, late>>
  BY <1>2, <1>3, BystanderKeepsCursor
<1>4. CASE /\ updated_at' = [updated_at EXCEPT ![w] = writing.at]
           /\ late' = IF IsLate(writing.at) THEN late \cup {w} ELSE late \ {w}
           /\ \A id \in Ids \ {w} : remote'[id] = remote[id]
  <2>1. \A id \in Ids \ {w} : /\ remote'[id] = remote[id]
                              /\ updated_at'[id] = updated_at[id]
                              /\ id \in late' <=> id \in late
    BY <1>4 DEF FedInv, TypeOK
  <2>2. w \notin late' =>
           /\ updated_at'[w] = writing.at /\ ~(writing.at <= cursor)
           /\ \A s \in Syncs : sync[s].phase # "listed" /\ ~(writing.at <= sync[s].next)
    BY <1>1, <1>4 DEF FedInv, TypeOK, IsLate
  <2>3. \A id \in Covered(cursor)' : id \in Covered(cursor) /\ id # w
    BY <1>2, <2>1, <2>2 DEF Covered, Exists
  <2>4. \A id \in Covered(cursor)' : Held(id)'
    BY <1>2, <2>1, <2>3 DEF Held, CursorInv, Covered
  <2>5. ASSUME NEW s \in Syncs PROVE RequestOK(s)'
    <3>1. ASSUME sync[s].phase = "listed", NEW id \in Ids, Exists(remote, id)', id \notin late'
          PROVE  Held(id)' \/ OnItsWay(s, id)'
      BY <1>2, <2>1, <2>2, <3>1 DEF CursorInv, RequestOK, Held, OnItsWay, Exists
    <3>2. ASSUME sync[s].phase \in {"apply", "put"}, NEW id \in Covered(sync[s].next)'
          PROVE  Held(id)' \/ OnItsWay(s, id)'
      <4>1. id \in Covered(sync[s].next) /\ id # w
        BY <1>2, <2>1, <2>2, <3>2 DEF Covered, Exists
      <4> QED
        BY <1>2, <2>1, <3>2, <4>1 DEF CursorInv, RequestOK, Held, OnItsWay, Covered
    <3> QED
      BY <1>2, <3>1, <3>2 DEF CursorInv, RequestOK, CarriedOnce
  <2> QED
    BY <1>2, <2>4, <2>5 DEF CursorInv, Under
<1> QED
  BY <1>1, <1>3, <1>4 DEF CommitWrite, Created, Updated, FedInv, TypeOK

\* A deleted row has nothing to be held.
LEMMA DeleteRemoteKeepsCursor ==
    ASSUME FedInv, CursorInv, NEW w \in Ids, DeleteRemote(w)
    PROVE  CursorInv'
<1> SUFFICES ASSUME ~overlapped PROVE CursorInv'
  BY DEF DeleteRemote, CursorInv
<1>1. UNCHANGED <<updated_at, local, cursor, sync, late, overlapped>>
  BY DEF DeleteRemote, localVars
<1>2. ~Exists(remote, w)' /\ \A id \in Ids \ {w} : remote'[id] = remote[id]
  BY DEF DeleteRemote, Deleted, NoRow, Row, Exists, FedInv, TypeOK
<1>3. \A c : \A id \in Covered(c)' : id \in Covered(c) /\ id # w
  BY <1>1, <1>2 DEF Covered, Exists
<1>4. ASSUME NEW s \in Syncs PROVE RequestOK(s)'
  BY <1>1, <1>2, SMTT(30) DEF CursorInv, RequestOK, CarriedOnce, Covered, Held, OnItsWay, Exists
<1> QED
  BY <1>1, <1>2, <1>4 DEF CursorInv, Covered, Held, Under, Exists

\* The first sync after a quiet spell is alone.
LEMMA TriggerSyncKeepsCursor ==
    ASSUME FedInv, CursorInv, NEW s \in Syncs, TriggerSync(s)
    PROVE  CursorInv'
<1> SUFFICES ASSUME ~overlapped' PROVE CursorInv'
  BY DEF CursorInv
<1>1. ~overlapped /\ Quiet
  BY ZenonT(60) DEF TriggerSync
<1>2. /\ sync' = [sync EXCEPT ![s].phase = "client"]
      /\ UNCHANGED <<remote, updated_at, local, cursor, late>>
  BY DEF TriggerSync, remoteVars
<1>3. sync'[s].phase = "client" /\ \A t \in Syncs \ {s} : sync'[t].phase = "idle"
  BY <1>1, <1>2 DEF Quiet, Under, FedInv, TypeOK, Requests
<1>4. \A t \in Syncs : RequestOK(t)'
  BY <1>3 DEF RequestOK
<1> QED
  BY <1>1, <1>2, <1>3, <1>4 DEF CursorInv, Covered, Held, Under, Exists

\* While requests do not overlap, a step of the request under way has only itself to
\* answer for.
LEMMA OnlyRequest ==
    ASSUME FedInv, CursorInv, ~overlapped, NEW s \in Syncs, Under(s), NEW q,
           sync' = [sync EXCEPT ![s] = q], UNCHANGED overlapped,
           \A id \in Covered(cursor)' : Held(id)', RequestOK(s)'
    PROVE  CursorInv'
<1>1. \A t \in Syncs \ {s} : sync'[t].phase = "idle"
  BY DEF CursorInv, Under, FedInv, TypeOK
<1>2. \A t \in Syncs : RequestOK(t)'
  BY <1>1 DEF RequestOK
<1> QED
  BY <1>1, <1>2 DEF CursorInv, Under

\* A step of a request that is neither listing nor applying has nothing to carry.
LEMMA NothingCarried ==
    ASSUME FedInv, CursorInv, ~overlapped, NEW s \in Syncs, Under(s), NEW q,
           sync' = [sync EXCEPT ![s] = q], q.phase \in {"idle", "failed", "finish"},
           UNCHANGED <<remoteVars, local, cursor, late, overlapped>>
    PROVE  CursorInv'
<1>1. RequestOK(s)'
  BY DEF RequestOK, FedInv, TypeOK
<1>2. \A id \in Covered(cursor)' : Held(id)'
  BY DEF CursorInv, Covered, Held, Exists, remoteVars
<1> QED
  BY <1>1, <1>2, OnlyRequest, ZenonT(60)

\* The cursor that a request asks from is the stored one.
LEMMA BuildClientKeepsCursor ==
    ASSUME FedInv, CursorInv, ~overlapped, NEW s \in Syncs, BuildClient(s)
    PROVE  CursorInv'
<1>1. Under(s) /\ UNCHANGED <<remoteVars, local, cursor, late, overlapped>>
  BY DEF BuildClient, Under, localVars
<1>2. PICK q \in {[sync[s] EXCEPT !.phase = "finish"],
                  [sync[s] EXCEPT !.phase = "request", !.since = cursor],
                  [sync[s] EXCEPT !.phase = "failed"]} : sync' = [sync EXCEPT ![s] = q]
  BY RequestBefore, ZenonT(60) DEF BuildClient
<1>3. \/ q.phase \in {"finish", "failed"}
      \/ q.phase = "request" /\ q.since = cursor
  BY <1>2, RequestBefore, ZenonT(60) DEF Requests
<1>4. CASE q.phase = "request" /\ q.since = cursor
  <2>1. sync'[s] = q
    BY <1>2 DEF FedInv, TypeOK
  <2>2. RequestOK(s)'
    BY <1>1, <1>4, <2>1 DEF RequestOK
  <2>3. \A id \in Covered(cursor)' : Held(id)'
    BY <1>1 DEF CursorInv, Covered, Held, Exists, remoteVars
  <2> QED
    BY <1>1, <1>2, <2>2, <2>3, OnlyRequest, ZenonT(60)
<1> QED
  BY <1>1, <1>2, <1>3, <1>4, NothingCarried, ZenonT(60)

\* What serve_changes lists and this instance does not hold is in the response, or
\* was left out of the page.
LEMMA ServeChangesKeepsCursor ==
    ASSUME FedInv, CursorInv, ~overlapped, NEW s \in Syncs, ServeChanges(s)
    PROVE  CursorInv'
<1> DEFINE newer == NewerSince(sync[s].since)
           served(page) == {Change(id, remote[id].version) : id \in page \cap newer}
           q(page) == [sync[s] EXCEPT !.phase = "listed", !.since = 0, !.changes = served(page)]
<1>1. PICK page \in SUBSET Ids :
         /\ sync' = [sync EXCEPT ![s] = q(page)]
         /\ late' = late \cup (newer \ page)
  BY RequestBefore, ZenonT(60) DEF ServeChanges
<1>2. Under(s) /\ UNCHANGED <<remoteVars, local, cursor, overlapped>>
  BY DEF ServeChanges, Under, localVars
<1>3. sync'[s].phase = "listed" /\ sync'[s].changes = served(page)
  BY <1>1, RequestBefore DEF Requests
<1>4. sync[s].since = cursor
  BY DEF CursorInv, RequestOK, ServeChanges
<1>5. CarriedOnce(s)'
  <2>1. \A id \in newer : local[id].data <= remote[id].version
    BY DEF NewerSince, Exists, FedInv, TypeOK, Rows, RemoteOK, LocalVersionIsBehind
  <2> QED
    BY <1>2, <1>3, <2>1 DEF CarriedOnce, Change
<1>6. ASSUME NEW id \in Ids, Exists(remote, id), id \notin late'
      PROVE  Held(id) \/ Change(id, remote[id].version) \in served(page)
  <2>1. id \in newer => id \in page
    BY <1>1, <1>6
  <2>2. id \notin newer => id \in Covered(cursor)
    BY <1>1, <1>4, <1>6 DEF NewerSince, Covered, FedInv, TypeOK
  <2> QED
    BY <2>1, <2>2 DEF CursorInv
<1>7. RequestOK(s)'
  BY <1>2, <1>3, <1>5, <1>6 DEF RequestOK, Held, OnItsWay, Exists, remoteVars
<1>8. \A id \in Covered(cursor)' : Held(id)'
  BY <1>1, <1>2 DEF CursorInv, Covered, Held, Exists, remoteVars
<1> HIDE DEF q, served, newer
<1> QED
  BY <1>1, <1>2, <1>7, <1>8, OnlyRequest, ZenonT(60)

\* The cursor handed out covers no more than was listed.
LEMMA RespondKeepsCursor ==
    ASSUME FedInv, CursorInv, ~overlapped, NEW s \in Syncs, Respond(s)
    PROVE  CursorInv'
<1> DEFINE q == [sync[s] EXCEPT !.phase = "apply", !.next = now]
<1>1. sync' = [sync EXCEPT ![s] = q]
  BY RequestBefore, ZenonT(60) DEF Respond
<1>2. Under(s) /\ UNCHANGED <<remoteVars, local, cursor, late, overlapped>>
  BY DEF Respond, Under, localVars
<1>3. sync'[s].phase = "apply" /\ sync'[s].changes = sync[s].changes
  BY <1>1, RequestBefore DEF Requests
<1>4. RequestOK(s)'
  BY <1>2, <1>3, ZenonT(60) DEF Respond, CursorInv, RequestOK, CarriedOnce, Covered, Held, OnItsWay,
                    Exists, remoteVars
<1>5. \A id \in Covered(cursor)' : Held(id)'
  BY <1>2 DEF CursorInv, Covered, Held, Exists, remoteVars
<1> HIDE DEF q
<1> QED
  BY <1>1, <1>2, <1>4, <1>5, OnlyRequest, ZenonT(60)

\* A change that is taken up is still on its way.
LEMMA GetExistingKeepsCursor ==
    ASSUME FedInv, CursorInv, ~overlapped, NEW s \in Syncs, GetExisting(s)
    PROVE  CursorInv'
<1>1. PICK change \in sync[s].changes :
         sync' = [sync EXCEPT ![s].phase = "put",
                              ![s].changes = @ \ {change},
                              ![s].change = change,
                              ![s].existing = local[change.id].version]
  BY ZenonT(60) DEF GetExisting
<1> DEFINE q == [sync[s] EXCEPT !.phase = "put", !.changes = @ \ {change},
                                !.change = change, !.existing = local[change.id].version]
<1>2. sync' = [sync EXCEPT ![s] = q]
  BY <1>1, RequestBefore, ZenonT(60)
<1>3. Under(s) /\ UNCHANGED <<remoteVars, local, cursor, late, overlapped>>
  BY DEF GetExisting, Under, localVars
<1>4. /\ sync'[s].phase = "put" /\ sync'[s].changes = sync[s].changes \ {change}
      /\ sync'[s].change = change /\ sync'[s].existing = local[change.id].version
      /\ sync'[s].next = sync[s].next
  BY <1>1, RequestBefore DEF Requests
<1>5. sync[s].phase = "apply"
  BY DEF GetExisting
<1>6. \A id \in Covered(sync[s].next)' : Held(id)' \/ OnItsWay(s, id)'
  BY <1>3, <1>4, <1>5 DEF CursorInv, RequestOK, Covered, Held, OnItsWay, Exists, remoteVars
<1>7. CarriedOnce(s)' /\ \A other \in sync'[s].changes : other.id # change.id
  BY <1>3, <1>4, <1>5, ZenonT(60) DEF CursorInv, RequestOK, CarriedOnce
<1>8. local[change.id].data <= change.version
  BY <1>5 DEF CursorInv, RequestOK, CarriedOnce
<1>9. RequestOK(s)'
  BY <1>3, <1>4, <1>6, <1>7, <1>8 DEF RequestOK
<1>10. \A id \in Covered(cursor)' : Held(id)'
  BY <1>3 DEF CursorInv, Covered, Held, Exists, remoteVars
<1> HIDE DEF q
<1> QED
  BY <1>2, <1>3, <1>9, <1>10, OnlyRequest, ZenonT(60)

\* Of requests that do not overlap, a change that is put ends up in the row, unless the
\* row already holds it.
LEMMA PutChangeHolds ==
    ASSUME FedInv, CursorInv, ~overlapped, NEW s \in Syncs, PutChange(s)
    PROVE  LET change == sync[s].change IN
           /\ change.id \in Ids
           /\ \A id \in Ids \ {change.id} : local'[id] = local[id]
           /\ \/ local'[change.id].data = change.version
              \/ /\ local'[change.id] = local[change.id]
                 /\ change.version <= local[change.id].data
           /\ local[change.id].data <= change.version
<1> DEFINE change == sync[s].change
           existing == sync[s].existing
<1>1. /\ change.id \in Ids /\ change.version \in 1 .. MaxVersion
      /\ change.version <= written[change.id]
  BY DEF PutChange, FedInv, ServedOK, Changes
<1>2. /\ existing \in 0 .. MaxVersion /\ existing = local[change.id].version
      /\ local[change.id].data <= change.version
  BY RequestBefore DEF Requests, PutChange, CursorInv, RequestOK
<1>3. local \in [Ids -> Rows] /\ existing <= local[change.id].data
  BY <1>1, <1>2 DEF FedInv, TypeOK, LocalVersionIsBehind
<1>4. local' = IF ~Overwrites(existing, change.version) THEN local
               ELSE IF existing = 0 /\ CanCreate(local, change.id)
                    THEN Created(local, change.id, change.version)
               ELSE IF existing # 0 /\ CanUpdate(local, change.id, existing)
                    THEN Updated(local, change.id, change.version, existing)
               ELSE local
  BY DEF PutChange
<1> HIDE DEF change, existing
<1>5. CASE ~Overwrites(existing, change.version)
  <2>1. local' = local /\ change.version <= existing
    BY <1>1, <1>2, <1>4, <1>5 DEF Overwrites
  <2>2. local[change.id].data \in 0 .. MaxVersion
    BY <1>1, <1>3 DEF Rows
  <2> QED
    BY <1>1, <1>2, <1>3, <2>1, <2>2, SMTT(30) DEF change
<1>6. CASE Overwrites(existing, change.version) /\ existing = 0
  <2>1. local' = Created(local, change.id, change.version)
    BY <1>2, <1>4, <1>6 DEF CanCreate, Exists
  <2> QED
    BY <1>1, <1>2, <1>3, <2>1 DEF Created, Row, change
<1>7. CASE Overwrites(existing, change.version) /\ existing # 0
  <2>1. local' = Updated(local, change.id, change.version, existing)
    BY <1>2, <1>4, <1>7 DEF CanUpdate, Exists
  <2> QED
    BY <1>1, <1>2, <1>3, <2>1, ZenonT(60) DEF Updated, Row, change
<1> QED
  BY <1>5, <1>6, <1>7

\* Applying a change loses nothing that was held.
LEMMA PutChangeKeepsCursor ==
    ASSUME FedInv, CursorInv, ~overlapped, NEW s \in Syncs, PutChange(s)
    PROVE  CursorInv'
<1> DEFINE q == [sync[s] EXCEPT !.phase = "apply", !.change = NoChange, !.existing = 0]
<1>1. PICK change : change = sync[s].change
  OBVIOUS
<1>2. sync' = [sync EXCEPT ![s] = q]
  BY RequestBefore, ZenonT(60) DEF PutChange
<1>3. Under(s) /\ UNCHANGED <<remoteVars, cursor, late, overlapped>>
  BY DEF PutChange, Under
<1>4. /\ sync'[s].phase = "apply" /\ sync'[s].changes = sync[s].changes
      /\ sync'[s].next = sync[s].next
  BY <1>2, RequestBefore DEF Requests
<1>5. sync[s].phase = "put" /\ change.version <= written[change.id]
  BY <1>1 DEF PutChange, FedInv, ServedOK
<1> DEFINE data == local[change.id].data
<1>6. /\ change.id \in Ids /\ change.version \in 1 .. MaxVersion
      /\ data \in 0 .. MaxVersion /\ written[change.id] \in 0 .. MaxVersion
  BY <1>1, <1>5, PutChangeHolds, ZenonT(60) DEF FedInv, TypeOK, Rows, ServedOK, Changes
<1>7. /\ \A id \in Ids \ {change.id} : local'[id] = local[id]
      /\ \/ local'[change.id].data = change.version
         \/ /\ local'[change.id] = local[change.id]
            /\ change.version <= data
      /\ data <= change.version
  BY <1>1, PutChangeHolds, ZenonT(60)
<1>8. local'[change.id].data = change.version
  BY <1>6, <1>7
<1>9. \A id \in Ids : Exists(remote, id) /\ Held(id) => Held(id)'
  <2>1. Exists(remote, change.id) /\ Held(change.id) => change.version = remote[change.id].version
    BY <1>5, <1>6, <1>7, SMTT(30) DEF Held, FedInv, RemoteOK, Exists
  <2> QED
    BY <1>3, <1>7, <1>8, <2>1 DEF Held, remoteVars
<1>10. ASSUME NEW id \in Covered(sync[s].next)' PROVE Held(id)' \/ OnItsWay(s, id)'
  <2>1. id \in Ids /\ Exists(remote, id) /\ id \in Covered(sync[s].next)
    BY <1>3, <1>4, <1>10 DEF Covered, Exists, remoteVars
  <2>2. CASE Held(id)
    BY <1>9, <2>1, <2>2, ZenonT(60)
  <2>3. CASE Change(id, remote[id].version) \in sync[s].changes
    BY <1>3, <1>4, <2>3 DEF OnItsWay, remoteVars
  <2>4. CASE change = Change(id, remote[id].version)
    <3>1. change.id = id /\ change.version = remote[id].version
      BY <2>4 DEF Change
    <3> QED
      BY <1>3, <1>8, <3>1 DEF Held, remoteVars
  <2> QED
    BY <1>1, <1>5, <2>1, <2>2, <2>3, <2>4, ZenonT(60) DEF CursorInv, RequestOK, OnItsWay
<1>11. CarriedOnce(s)'
  <2>1. CarriedOnce(s) /\ \A other \in sync[s].changes : other.id # change.id /\ other.id \in Ids
    BY <1>1, <1>5, RequestBefore DEF CursorInv, RequestOK, Changes
  <2> QED
    BY <1>4, <1>7, <2>1 DEF CarriedOnce
<1>12. RequestOK(s)'
  BY <1>4, <1>10, <1>11 DEF RequestOK
<1>13. \A id \in Covered(cursor)' : Held(id)'
  BY <1>3, <1>9 DEF CursorInv, Covered, Exists, remoteVars
<1> HIDE DEF q
<1> QED
  BY <1>2, <1>3, <1>12, <1>13, OnlyRequest, ZenonT(60)

\* A change that storage refused is owned up to in late.
LEMMA PutFailsKeepsCursor ==
    ASSUME FedInv, CursorInv, ~overlapped, NEW s \in Syncs, PutFails(s)
    PROVE  CursorInv'
<1> DEFINE q == [sync[s] EXCEPT !.phase = "apply", !.change = NoChange, !.existing = 0]
<1>1. sync' = [sync EXCEPT ![s] = q]
  BY RequestBefore, ZenonT(60) DEF PutFails
<1>2. /\ Under(s) /\ UNCHANGED <<remoteVars, local, cursor, overlapped>>
      /\ late' = late \cup {sync[s].change.id} /\ sync[s].phase = "put"
  BY DEF PutFails, Under, localVars
<1>3. /\ sync'[s].phase = "apply" /\ sync'[s].changes = sync[s].changes
      /\ sync'[s].next = sync[s].next
  BY <1>1, RequestBefore DEF Requests
<1>4. ASSUME NEW id \in Covered(sync[s].next)' PROVE Held(id)' \/ OnItsWay(s, id)'
  <2>1. id \in Covered(sync[s].next) /\ id # sync[s].change.id
    BY <1>2, <1>3, <1>4 DEF Covered, Exists, remoteVars
  <2>2. Held(id) \/ Change(id, remote[id].version) \in sync[s].changes
    <3>1. Held(id) \/ OnItsWay(s, id)
      BY <1>2, <2>1, ZenonT(60) DEF CursorInv, RequestOK
    <3>2. Change(id, remote[id].version) # sync[s].change
      <4>1. Change(id, remote[id].version).id = id
        BY DEF Change
      <4> QED
        BY <2>1, <4>1, ZenonT(60)
    <3> QED
      BY <3>1, <3>2, ZenonT(60) DEF OnItsWay
  <2> QED
    BY <1>2, <1>3, <2>2 DEF Held, OnItsWay, remoteVars
<1>5. CarriedOnce(s)'
  BY <1>2, <1>3, ZenonT(60) DEF CursorInv, RequestOK, CarriedOnce
<1>6. RequestOK(s)'
  BY <1>3, <1>4, <1>5 DEF RequestOK
<1>7. \A id \in Covered(cursor)' : Held(id)'
  BY <1>2 DEF CursorInv, Covered, Held, Exists, remoteVars
<1> HIDE DEF q
<1> QED
  BY <1>1, <1>2, <1>6, <1>7, OnlyRequest, ZenonT(60)

\* With nothing left on its way, all that the new cursor covers is held.
LEMMA StoreCursorKeepsCursor ==
    ASSUME FedInv, CursorInv, ~overlapped, NEW s \in Syncs, StoreCursor(s)
    PROVE  CursorInv'
<1> DEFINE q == [sync[s] EXCEPT !.phase = "finish", !.next = 0]
<1>1. sync' = [sync EXCEPT ![s] = q]
  BY RequestBefore, ZenonT(60) DEF StoreCursor
<1>2. /\ Under(s) /\ UNCHANGED <<remoteVars, local, late, overlapped>>
      /\ cursor' = sync[s].next /\ sync[s].phase = "apply" /\ sync[s].changes = {}
  BY DEF StoreCursor, Under
<1>3. RequestOK(s)'
  BY <1>1, RequestBefore DEF RequestOK, Requests
<1>4. \A id \in Covered(cursor)' : Held(id)'
  BY <1>2 DEF CursorInv, RequestOK, OnItsWay, Covered, Held, Exists, remoteVars
<1> HIDE DEF q
<1> QED
  BY <1>1, <1>2, <1>3, <1>4, OnlyRequest, ZenonT(60)

\* A pull that fails, the end of a request and a dropped one leave the cursor alone.
LEMMA EndKeepsCursor ==
    ASSUME FedInv, CursorInv, ~overlapped, NEW s \in Syncs,
           PullFails(s) \/ RecordSync(s) \/ DropRequest(s)
    PROVE  CursorInv'
<1>1. Under(s) /\ UNCHANGED <<remoteVars, local, cursor, late, overlapped>>
  BY DEF PullFails, RecordSync, DropRequest, Under, localVars
<1>2. CASE PullFails(s)
  <2> DEFINE q == [sync[s] EXCEPT !.phase = "finish", !.since = 0, !.changes = {}]
  <2>1. sync' = [sync EXCEPT ![s] = q]
    BY <1>2, RequestBefore, ZenonT(60) DEF PullFails
  <2>2. q.phase = "finish"
    BY RequestBefore DEF Requests
  <2> HIDE DEF q
  <2> QED
    BY <1>1, <2>1, <2>2, NothingCarried, ZenonT(60)
<1>3. CASE RecordSync(s) \/ DropRequest(s)
  <2>1. sync' = [sync EXCEPT ![s] = Idle] /\ Idle.phase = "idle"
    BY <1>3 DEF RecordSync, DropRequest, Idle, Request
  <2> QED
    BY <1>1, <2>1, NothingCarried, ZenonT(60)
<1> QED
  BY <1>2, <1>3

\* Once requests have overlapped, they have overlapped for good.
LEMMA OverlapIsRemembered == Next /\ overlapped => overlapped'
BY ZenonT(60) DEF Next, Tick, StampWrite, CommitWrite, DeleteRemote, TriggerSync, SyncStep, BuildClient,
       ServeChanges, Respond, PullFails, GetExisting, PutChange, PutFails, StoreCursor,
       RecordSync, DropRequest, RemovePeer

\* Every step keeps what the cursor has passed.
LEMMA NextCursorInv == FedInv /\ CursorInv /\ [Next]_vars => CursorInv'
<1> SUFFICES ASSUME FedInv, CursorInv, [Next]_vars PROVE CursorInv'
  OBVIOUS
<1>1. CASE UNCHANGED vars
  BY <1>1, BystanderKeepsCursor DEF vars
<1>2. CASE Tick \/ RemovePeer \/ \E id \in Ids : StampWrite(id)
  BY <1>2, BystanderKeepsCursor DEF Tick, RemovePeer, StampWrite, localVars, remoteVars
<1>3. CASE Next /\ overlapped
  BY <1>3, OverlapIsRemembered DEF CursorInv
<1>4. ASSUME ~overlapped, NEW s \in Syncs, SyncStep(s) \/ DropRequest(s) PROVE CursorInv'
  BY <1>4, BuildClientKeepsCursor, ServeChangesKeepsCursor, RespondKeepsCursor,
     GetExistingKeepsCursor, PutChangeKeepsCursor, PutFailsKeepsCursor,
     StoreCursorKeepsCursor, EndKeepsCursor DEF SyncStep
<1> QED
  BY <1>1, <1>2, <1>3, <1>4, CommitWriteKeepsCursor, DeleteRemoteKeepsCursor,
     TriggerSyncKeepsCursor DEF Next

\* Between syncs that did not overlap, every row the stored cursor has passed is held in
\* the peer's current version, unless it was written while a response was put together,
\* left out of a page or refused by storage: pulls that fail and requests dropped half
\* way through their changes lose nothing, however many rows the peer has.
THEOREM CursorPassesWhatIsHeld == Spec => []CursorSkipsNothing
<1>1. CursorInv => CursorSkipsNothing
  BY DEF CursorInv, CursorSkipsNothing, Covered, Held
<1>2. Spec => []CursorInv
  BY InitCursorInv, NextCursorInv, FederationInvariant, PTL DEF Spec
<1> QED
  BY <1>1, <1>2, PTL

\* Only overlapping requests break last-write-wins in apply_change: as long as none have,
\* a change never replaces newer data of the same peer.
THEOREM AloneLastWriteWins ==
    Spec => [][~overlapped => \A id \in Ids : local[id].data <= local'[id].data]_vars
<1> DEFINE Wins == ~overlapped => \A id \in Ids : local[id].data <= local'[id].data
<1>1. FedInv /\ CursorInv /\ [Next]_vars => [Wins]_vars
  <2> SUFFICES ASSUME FedInv, CursorInv, Next, ~overlapped
               PROVE  \A id \in Ids : local[id].data <= local'[id].data
    OBVIOUS
  <2>1. \A id \in Ids : local[id].data \in 0 .. MaxVersion
    BY DEF FedInv, TypeOK, Rows
  <2>2. CASE local' = local
    BY <2>1, <2>2
  <2>3. ASSUME NEW s \in Syncs, PutChange(s)
        PROVE  \A id \in Ids : local[id].data <= local'[id].data
    BY <2>1, <2>3, PutChangeHolds
  <2> QED
    BY <2>2, <2>3, ZenonT(60) DEF Next, Tick, StampWrite, CommitWrite, DeleteRemote, TriggerSync, SyncStep,
           BuildClient, ServeChanges, Respond, PullFails, GetExisting, PutFails, StoreCursor,
           RecordSync, DropRequest, RemovePeer, localVars
<1>2. Spec => []CursorInv
  BY InitCursorInv, NextCursorInv, FederationInvariant, PTL DEF Spec
<1> QED
  BY <1>1, <1>2, FederationInvariant, PTL DEF Spec

-----------------------------------------------------------------------------
(***************************************************************************)
(* Every backup that BackupVault lists restores, and a finished retention  *)
(* pass keeps what the policy says, for any calls, clock readings and      *)
(* policies. The pass deletes one blob at a time and other calls run in    *)
(* between, so its outcome needs an account of how far it has got          *)
(* (PassOK).                                                               *)
(***************************************************************************)

\* Clock readings and policies are natural numbers, and an archive is something.
VaultConstants ==
    /\ Nothing \notin Jobs
    /\ LastTime \in Nat /\ MaxCount \in Nat /\ MaxAge \in Nat

BackupOver(id) == \E j \in Jobs : job[j] = [at |-> "over", id |-> id]

\* Blobs and calls: a manifest is the last thing its call writes, and as long as an id
\* is used once nobody else touches its two blobs.
BlobsOK ==
    /\ archives \in [BackupIds -> Jobs \cup {Nothing, TornBlob}]
    /\ manifests \in [BackupIds -> [checksum : Jobs, at : Nat] \cup {Nothing, TornBlob}]
    /\ job \in [Jobs -> [at : {"archive", "manifest", "over"}, id : BackupIds]
                        \cup {[at |-> "idle", id |-> Nothing]}]
    /\ instant \in 0 .. LastTime
    /\ \A j, k \in Jobs : j # k /\ job[j].at # "idle" /\ job[k].at # "idle"
                          /\ job[j].id = job[k].id => job[j].id \in spoilt
    /\ \A j \in Jobs : job[j].at = "manifest" /\ job[j].id \notin spoilt =>
                       archives[job[j].id] = j
    /\ \A id \in BackupIds : IsListed(id) => BackupOver(id)
    /\ \A id \in BackupIds :
          IsListed(id) /\ id \notin spoilt /\ ~(pass.at = "manifest" /\ pass.id = id)
              => archives[id] = manifests[id].checksum

\* The backup that is just being dropped, and the ones visited and kept.
Dropping == IF pass.at \in {"archive", "manifest"} THEN {pass.id} ELSE {}
KeptSoFar == {id \in pass.listed \ (pass.todo \cup spoilt \cup Dropping) : IsListed(id)}

\* How far the pass has got: what it kept is young enough, at most max_count, and not
\* older than what it dropped for its place; what is to come is no younger than what
\* has been.
PassOK ==
    /\ pass.todo \subseteq pass.listed /\ pass.listed \subseteq BackupIds
    /\ pass.rank \in Nat /\ pass.now \in Nat
    /\ Dropping \subseteq pass.listed \ pass.todo
    /\ \A id \in pass.listed : BackupOver(id)
    /\ \A t \in pass.todo, v \in pass.listed \ pass.todo : t[2] <= v[2]
    /\ \A t \in pass.todo \ spoilt : IsListed(t)
    /\ IsFiniteSet(KeptSoFar)
    /\ Cardinality(KeptSoFar) <= pass.rank /\ Cardinality(KeptSoFar) <= MaxCount
    /\ \A k \in KeptSoFar : k[2] + MaxAge >= pass.now
    /\ \A v \in pass.listed \ (pass.todo \cup spoilt \cup KeptSoFar) :
          \/ v[2] + MaxAge < pass.now
          \/ pass.rank > MaxCount /\ \A k \in KeptSoFar : v[2] <= k[2]
    /\ pass.at = "done" => pass.todo = {}

PassType ==
    /\ pass = [at |-> pass.at, todo |-> pass.todo, listed |-> pass.listed, rank |-> pass.rank,
               now |-> pass.now, id |-> pass.id]
    /\ pass.at \in {"none", "visit", "archive", "manifest", "done"}

VaultInv == BlobsOK /\ PassType /\ (pass.at # "none" => PassOK)

-----------------------------------------------------------------------------
\* The arithmetic of a pass: n backups kept at rank m.
LEMMA RankCounts ==
    ASSUME NEW n \in Nat, NEW m \in Nat, NEW limit \in Nat, n <= m
    PROVE  n <= m + 1 /\ n + 1 <= m + 1 /\ (m < limit => n + 1 <= limit)
BY SMTT(60)

LEMMA YoungEnough ==
    ASSUME NEW n \in Nat, NEW m \in Nat, NEW age \in Nat, ~(n + age < m)
    PROVE  n + age >= m
BY SMTT(60)

LEMMA IdTimes == ASSUME VaultConstants PROVE \A id \in BackupIds : id[2] \in Nat
BY DEF VaultConstants, BackupIds

\* A step that leaves the pass where it is, and what it listed alone, apart from
\* backups that are spoilt by now.
LEMMA PassStands ==
    ASSUME VaultConstants, PassOK,
           pass'.todo = pass.todo, pass'.listed = pass.listed, pass'.rank = pass.rank,
           pass'.now = pass.now, pass'.at = "done" => pass.todo = {},
           Dropping' \subseteq Dropping, spoilt \subseteq spoilt',
           \A id \in pass.listed : BackupOver(id)',
           \A t \in pass.todo \ spoilt' : IsListed(t)',
           KeptSoFar' = KeptSoFar \ spoilt'
    PROVE  PassOK'
<1>1. KeptSoFar' \subseteq KeptSoFar /\ IsFiniteSet(KeptSoFar)
  BY DEF PassOK
<1>2. /\ IsFiniteSet(KeptSoFar') /\ Cardinality(KeptSoFar') <= Cardinality(KeptSoFar)
      /\ Cardinality(KeptSoFar') \in Nat /\ Cardinality(KeptSoFar) \in Nat
  BY <1>1, FS_Subset, FS_CardinalityType
<1>3. Cardinality(KeptSoFar') <= pass'.rank /\ Cardinality(KeptSoFar') <= MaxCount
  BY <1>2 DEF PassOK, VaultConstants
<1>4. \A v \in pass'.listed \ (pass'.todo \cup spoilt' \cup KeptSoFar') :
          \/ v[2] + MaxAge < pass'.now
          \/ pass'.rank > MaxCount /\ \A k \in KeptSoFar' : v[2] <= k[2]
  <2> SUFFICES ASSUME NEW v \in pass'.listed \ (pass'.todo \cup spoilt' \cup KeptSoFar')
               PROVE  \/ v[2] + MaxAge < pass'.now
                      \/ pass'.rank > MaxCount /\ \A k \in KeptSoFar' : v[2] <= k[2]
    OBVIOUS
  <2>1. v \in pass.listed \ (pass.todo \cup spoilt \cup KeptSoFar)
    OBVIOUS
  <2> QED
    BY <1>1, <2>1 DEF PassOK
<1>5. \A k \in KeptSoFar' : k[2] + MaxAge >= pass'.now
  BY <1>1 DEF PassOK
<1>6. /\ pass'.todo \subseteq pass'.listed /\ pass'.listed \subseteq BackupIds
      /\ pass'.rank \in Nat /\ pass'.now \in Nat
      /\ Dropping' \subseteq pass'.listed \ pass'.todo
      /\ \A t \in pass'.todo, v \in pass'.listed \ pass'.todo : t[2] <= v[2]
      /\ pass'.at = "done" => pass'.todo = {}
  BY DEF PassOK
<1> QED
  BY <1>2, <1>3, <1>4, <1>5, <1>6 DEF PassOK

\* The same, when the pass does not move at all.
LEMMA PassUntouched ==
    ASSUME VaultConstants, VaultInv, UNCHANGED pass, spoilt \subseteq spoilt',
           \A id \in BackupIds : BackupOver(id) => BackupOver(id)',
           \A id \in BackupIds \ spoilt' : BackupOver(id) => (IsListed(id)' <=> IsListed(id))
    PROVE  PassType' /\ (pass'.at # "none" => PassOK')
<1>1. CASE pass.at # "none"
  <2>1. PassOK
    BY <1>1 DEF VaultInv
  <2>2. Dropping' = Dropping
    BY DEF Dropping
  <2>3. \A id \in pass.listed : BackupOver(id)' /\ (id \notin spoilt' => (IsListed(id)' <=> IsListed(id)))
    BY <2>1 DEF PassOK
  <2>4. KeptSoFar' = KeptSoFar \ spoilt'
    BY <2>2, <2>3 DEF KeptSoFar
  <2>5. \A t \in pass.todo \ spoilt' : IsListed(t)'
    BY <2>1, <2>3 DEF PassOK
  <2>6. PassOK'
    BY <2>1, <2>2, <2>3, <2>4, <2>5, PassStands, ZenonT(60) DEF PassOK
  <2> QED
    BY <2>6 DEF VaultInv, PassType
<1> QED
  BY <1>1 DEF VaultInv, PassType

LEMMA JobKinds ==
    ASSUME BlobsOK, NEW j \in Jobs
    PROVE  /\ job[j].at # "idle" => job[j].id \in BackupIds /\ job[j] = [at |-> job[j].at, id |-> job[j].id]
           /\ job[j].at \in {"idle", "archive", "manifest", "over"}
BY DEF BlobsOK

\* A call that has started is alone on its id, unless the id is spoilt.
LEMMA NotOverYet ==
    ASSUME BlobsOK, NEW j \in Jobs, job[j].at \in {"archive", "manifest"}, job[j].id \notin spoilt
    PROVE  ~BackupOver(job[j].id) /\ ~IsListed(job[j].id)
<1>1. job[j].id \in BackupIds
  BY JobKinds, ZenonT(60)
<1>2. ~BackupOver(job[j].id)
  BY DEF BlobsOK, BackupOver
<1> QED
  BY <1>1, <1>2 DEF BlobsOK

LEMMA BeginBackupKeeps ==
    ASSUME VaultConstants, VaultInv, NEW j \in Jobs, NEW kind \in Kinds, BeginBackup(j, kind)
    PROVE  VaultInv'
<1>1. PICK id : id = <<kind, instant>>
  BY ZenonT(60)
<1>2. /\ job[j].at = "idle" /\ job' = [job EXCEPT ![j] = [at |-> "archive", id |-> id]]
      /\ spoilt' = IF \E k \in Jobs : job[k].id = id THEN spoilt \cup {id} ELSE spoilt
      /\ UNCHANGED <<instant, archives, manifests, pass>>
  BY <1>1 DEF BeginBackup
<1>3. BlobsOK /\ id \in BackupIds
  BY <1>1 DEF VaultInv, BlobsOK, BackupIds
<1>4. /\ job'[j] = [at |-> "archive", id |-> id] /\ \A k \in Jobs \ {j} : job'[k] = job[k]
      /\ job' \in [Jobs -> [at : {"archive", "manifest", "over"}, id : BackupIds]
                           \cup {[at |-> "idle", id |-> Nothing]}]
  BY <1>2, <1>3 DEF BlobsOK
<1>5. \A i \in BackupIds : (IsListed(i)' <=> IsListed(i)) /\ (BackupOver(i) => BackupOver(i)')
  BY <1>2, <1>4, SMTT(30) DEF IsListed, BackupOver
<1>6. \A i, k \in Jobs : i # k /\ job'[i].at # "idle" /\ job'[k].at # "idle"
                         /\ job'[i].id = job'[k].id => job'[i].id \in spoilt'
  BY <1>2, <1>3, <1>4 DEF BlobsOK
<1>7. \A k \in Jobs : job'[k].at = "manifest" /\ job'[k].id \notin spoilt' =>
                      archives'[job'[k].id] = k
  BY <1>2, <1>3, <1>4 DEF BlobsOK
<1>8. BlobsOK'
  BY <1>2, <1>3, <1>4, <1>5, <1>6, <1>7, ZenonT(60) DEF BlobsOK
<1>9. spoilt \subseteq spoilt' /\ UNCHANGED pass
  BY <1>2
<1> QED
  BY <1>5, <1>8, <1>9, PassUntouched DEF VaultInv

LEMMA PutArchiveKeeps ==
    ASSUME VaultConstants, VaultInv, NEW j \in Jobs, NEW ok \in BOOLEAN, PutArchive(j, ok)
    PROVE  VaultInv'
<1>1. PICK id : id = job[j].id
  OBVIOUS
<1>2. BlobsOK /\ id \in BackupIds /\ job[j] = [at |-> "archive", id |-> id]
  BY <1>1, JobKinds DEF VaultInv, PutArchive
<1>3. PICK blob : /\ archives' = [archives EXCEPT ![id] = blob]
                  /\ blob \in Jobs \cup {Nothing, TornBlob} /\ (ok => blob = j)
  <2>1. PICK blob \in IF ok THEN {j} ELSE {archives[id], TornBlob} :
          archives' = [archives EXCEPT ![id] = blob]
    BY <1>1, ZenonT(60) DEF PutArchive
  <2>2. blob \in Jobs \cup {Nothing, TornBlob} /\ (ok => blob = j)
    BY <1>2, <2>1 DEF BlobsOK
  <2> QED
    BY <2>1, <2>2, ZenonT(60)
<1>4. /\ job' = [job EXCEPT ![j] = [at |-> IF ok THEN "manifest" ELSE "over", id |-> id]]
      /\ UNCHANGED <<instant, manifests, pass, spoilt>>
  <2>1. job' = [job EXCEPT ![j].at = IF ok THEN "manifest" ELSE "over"]
    BY DEF PutArchive
  <2>2. [job[j] EXCEPT !.at = IF ok THEN "manifest" ELSE "over"] = [at |-> IF ok THEN "manifest" ELSE "over", id |-> id]
    BY <1>2
  <2>3. job' = [job EXCEPT ![j] = [job[j] EXCEPT !.at = IF ok THEN "manifest" ELSE "over"]]
    BY <1>2, <2>1 DEF BlobsOK
  <2> QED
    BY <2>2, <2>3, ZenonT(60) DEF PutArchive
<1>5. /\ job'[j] = [at |-> IF ok THEN "manifest" ELSE "over", id |-> id]
      /\ \A k \in Jobs \ {j} : job'[k] = job[k]
      /\ job' \in [Jobs -> [at : {"archive", "manifest", "over"}, id : BackupIds]
                           \cup {[at |-> "idle", id |-> Nothing]}]
  BY <1>2, <1>4 DEF BlobsOK
<1>6. \A i \in BackupIds : (IsListed(i)' <=> IsListed(i)) /\ (BackupOver(i) => BackupOver(i)')
  BY <1>2, <1>4, <1>5 DEF IsListed, BackupOver
<1>7. \A i, k \in Jobs : i # k /\ job'[i].at # "idle" /\ job'[k].at # "idle"
                         /\ job'[i].id = job'[k].id => job'[i].id \in spoilt'
  BY <1>2, <1>4, <1>5, SMTT(30) DEF BlobsOK
<1>8. /\ archives' \in [BackupIds -> Jobs \cup {Nothing, TornBlob}]
      /\ ok => archives'[id] = j
      /\ \A i \in BackupIds \ {id} : archives'[i] = archives[i]
  BY <1>2, <1>3 DEF BlobsOK
<1>9. \A k \in Jobs : job'[k].at = "manifest" /\ job'[k].id \notin spoilt' =>
                      archives'[job'[k].id] = k
  <2> SUFFICES ASSUME NEW k \in Jobs, job'[k].at = "manifest", job'[k].id \notin spoilt'
               PROVE  archives'[job'[k].id] = k
    OBVIOUS
  <2>1. CASE k = j
    BY <1>5, <1>8, <2>1
  <2>2. CASE k # j
    <3>1. job[k] = job'[k] /\ job[k].id \in BackupIds /\ job[k].id # id
      <4>1. job[k] = job'[k] /\ job[k].at = "manifest" /\ job[k].id \notin spoilt
        BY <1>4, <1>5, <2>2, ZenonT(60)
      <4> job[j].at = "archive" /\ job[j].id = id
        BY <1>2
      <4>2. job[k].id \in BackupIds /\ job[k].at # "idle" /\ job[j].at # "idle"
        BY <1>2, <4>1, JobKinds, ZenonT(60)
      <4>3. job[k].id # job[j].id
        BY <1>2, <2>2, <4>1, <4>2, ZenonT(60) DEF BlobsOK
      <4> QED
        BY <1>2, <4>1, <4>2, <4>3, ZenonT(60)
    <3> QED
      BY <1>2, <1>4, <1>8, <3>1 DEF BlobsOK
  <2> QED
    BY <2>1, <2>2
<1>10. \A i \in BackupIds : IsListed(i)' /\ i \notin spoilt' /\ ~(pass'.at = "manifest" /\ pass'.id = i)
                         => archives'[i] = manifests'[i].checksum
  <2>1. id \notin spoilt => ~IsListed(id)
    BY <1>2, NotOverYet
  <2> QED
    BY <1>2, <1>4, <1>6, <1>8, <2>1, ZenonT(60) DEF BlobsOK
<1>11. BlobsOK'
  BY <1>2, <1>4, <1>5, <1>6, <1>7, <1>8, <1>9, <1>10, ZenonT(60) DEF BlobsOK
<1>12. spoilt \subseteq spoilt' /\ UNCHANGED pass
  BY <1>4
<1> QED
  BY <1>6, <1>11, <1>12, PassUntouched DEF VaultInv

LEMMA PutManifestKeeps ==
    ASSUME VaultConstants, VaultInv, NEW j \in Jobs, NEW ok \in BOOLEAN, PutManifest(j, ok)
    PROVE  VaultInv'
<1>1. PICK id : id = job[j].id
  OBVIOUS
<1>2. BlobsOK /\ id \in BackupIds /\ job[j] = [at |-> "manifest", id |-> id] /\ id[2] \in Nat
  BY <1>1, JobKinds, IdTimes DEF VaultInv, PutManifest
<1>3. PICK blob : /\ manifests' = [manifests EXCEPT ![id] = blob]
                  /\ blob \in [checksum : Jobs, at : Nat] \cup {Nothing, TornBlob}
                  /\ \/ blob \in {manifests[id], TornBlob}
                     \/ blob = [checksum |-> j, at |-> id[2]]
  <2>1. PICK blob \in IF ok THEN {[checksum |-> j, at |-> id[2]]} ELSE {manifests[id], TornBlob} :
          manifests' = [manifests EXCEPT ![id] = blob]
    BY <1>1, ZenonT(60) DEF PutManifest
  <2>2. manifests[id] \in [checksum : Jobs, at : Nat] \cup {Nothing, TornBlob}
    BY <1>2 DEF BlobsOK
  <2>3. blob \in [checksum : Jobs, at : Nat] \cup {Nothing, TornBlob}
    BY <1>2, <2>1, <2>2
  <2> QED
    BY <2>1, <2>3, ZenonT(60)
<1>4. /\ job' = [job EXCEPT ![j] = [at |-> "over", id |-> id]]
      /\ UNCHANGED <<instant, archives, pass, spoilt>>
  <2>1. job' = [job EXCEPT ![j].at = "over"]
    BY DEF PutManifest
  <2>2. [job[j] EXCEPT !.at = "over"] = [at |-> "over", id |-> id]
    BY <1>2
  <2>3. job' = [job EXCEPT ![j] = [job[j] EXCEPT !.at = "over"]]
    BY <1>2, <2>1 DEF BlobsOK
  <2> QED
    BY <2>2, <2>3, ZenonT(60) DEF PutManifest
<1>5. /\ job'[j] = [at |-> "over", id |-> id]
      /\ \A k \in Jobs \ {j} : job'[k] = job[k]
      /\ job' \in [Jobs -> [at : {"archive", "manifest", "over"}, id : BackupIds]
                           \cup {[at |-> "idle", id |-> Nothing]}]
  BY <1>2, <1>4, ZenonT(60) DEF BlobsOK
<1>6. \A i \in BackupIds : BackupOver(i) => BackupOver(i)'
  BY <1>2, <1>5 DEF BackupOver
<1>7. /\ \A i, k \in Jobs : i # k /\ job'[i].at # "idle" /\ job'[k].at # "idle"
                            /\ job'[i].id = job'[k].id => job'[i].id \in spoilt'
      /\ \A k \in Jobs : job'[k].at = "manifest" /\ job'[k].id \notin spoilt' =>
                         archives'[job'[k].id] = k
  BY <1>2, <1>4, <1>5, SMTT(30) DEF BlobsOK
<1>8. /\ manifests' \in [BackupIds -> [checksum : Jobs, at : Nat] \cup {Nothing, TornBlob}]
      /\ manifests'[id] = blob
      /\ \A i \in BackupIds \ {id} : manifests'[i] = manifests[i] /\ (IsListed(i)' <=> IsListed(i))
  BY <1>2, <1>3 DEF BlobsOK, IsListed
<1>9. \A i \in BackupIds : IsListed(i)' => BackupOver(i)'
  <2>1. BackupOver(id)'
    BY <1>5 DEF BackupOver
  <2> QED
    BY <1>2, <1>6, <1>8, <2>1 DEF BlobsOK
<1>10. id \notin spoilt => ~BackupOver(id) /\ ~IsListed(id) /\ archives[id] = j
  <2> job[j].at = "manifest" /\ job[j].id = id
    BY <1>2
  <2>1. id \notin spoilt => ~BackupOver(id) /\ ~IsListed(id)
    BY <1>2, NotOverYet, ZenonT(60)
  <2>2. id \notin spoilt => archives[id] = j
    BY <1>2, ZenonT(60) DEF BlobsOK
  <2> QED
    BY <2>1, <2>2, ZenonT(60)
<1>11. \A i \in BackupIds : IsListed(i)' /\ i \notin spoilt' /\ ~(pass'.at = "manifest" /\ pass'.id = i)
                         => archives'[i] = manifests'[i].checksum
  <2>1. id \notin spoilt /\ IsListed(id)' => archives[id] = manifests'[id].checksum
    BY <1>3, <1>8, <1>10, SMTT(40) DEF IsListed
  <2> QED
    BY <1>2, <1>4, <1>8, <2>1, ZenonT(60) DEF BlobsOK
<1>12. BlobsOK'
  BY <1>2, <1>4, <1>5, <1>7, <1>8, <1>9, <1>11, ZenonT(60) DEF BlobsOK
<1>13. spoilt \subseteq spoilt' /\ UNCHANGED pass
  BY <1>4
<1>14. \A i \in BackupIds \ spoilt' : BackupOver(i) => (IsListed(i)' <=> IsListed(i))
  BY <1>4, <1>8, <1>10
<1> QED
  BY <1>6, <1>12, <1>13, <1>14, PassUntouched DEF VaultInv

LEMMA BeginRetentionKeeps ==
    ASSUME VaultConstants, VaultInv, BeginRetention
    PROVE  VaultInv'
<1>1. PICK all : all = {id \in BackupIds : IsListed(id)}
  BY ZenonT(60)
<1>2. /\ pass' = [at |-> "visit", todo |-> all, listed |-> all, rank |-> 0, now |-> instant,
                  id |-> Nothing]
      /\ pass.at \in {"none", "done"}
      /\ UNCHANGED <<instant, archives, manifests, job, spoilt>>
  BY <1>1, ZenonT(60) DEF BeginRetention, NoPass
<1>3. BlobsOK /\ instant \in Nat
  BY SMTT(30) DEF VaultInv, BlobsOK, VaultConstants
<1>4. \A id \in BackupIds : (IsListed(id)' <=> IsListed(id)) /\ (BackupOver(id)' <=> BackupOver(id))
  BY <1>2 DEF IsListed, BackupOver
<1>5. BlobsOK'
  BY <1>2, <1>3, <1>4 DEF BlobsOK
<1>6. Dropping' = {} /\ KeptSoFar' = {}
  BY <1>2 DEF Dropping, KeptSoFar
<1>7. IsFiniteSet(KeptSoFar') /\ Cardinality(KeptSoFar') = 0
  BY <1>6, FS_EmptySet
<1>8. PassOK'
  <2>1. /\ pass'.at = "visit" /\ pass'.todo = all /\ pass'.listed = all
        /\ pass'.rank = 0 /\ pass'.now = instant
    BY <1>2, ZenonT(60)
  <2>2. /\ all \subseteq BackupIds /\ \A id \in all : BackupOver(id)' /\ IsListed(id)'
    BY <1>1, <1>3, <1>4, ZenonT(60) DEF BlobsOK
  <2>3. 0 \in Nat /\ 0 <= 0 /\ 0 <= MaxCount
    BY DEF VaultConstants
  <2> QED
    BY <1>3, <1>6, <1>7, <2>1, <2>2, <2>3, ZenonT(60) DEF PassOK
<1> QED
  BY <1>2, <1>5, <1>8 DEF VaultInv, PassType

LEMMA VisitKeeps ==
    ASSUME VaultConstants, VaultInv, NEW id \in BackupIds, Visit(id)
    PROVE  VaultInv'
<1>1. PICK drop \in BOOLEAN : drop <=> (pass.rank >= MaxCount \/ id[2] + MaxAge < pass.now)
  BY ZenonT(60)
<1>2. /\ pass.at = "visit" /\ id \in pass.todo /\ \A other \in pass.todo : other[2] <= id[2]
      /\ pass' = [at |-> IF drop THEN "archive" ELSE "visit", todo |-> pass.todo \ {id},
                  listed |-> pass.listed, rank |-> pass.rank + 1, now |-> pass.now, id |-> id]
      /\ UNCHANGED <<instant, archives, manifests, job, spoilt>>
  BY <1>1, ZenonT(60) DEF Visit, Expired, VaultInv, PassType
<1>3. BlobsOK /\ PassOK
  BY <1>2, ZenonT(60) DEF VaultInv
<1>4. \A i \in BackupIds : (IsListed(i)' <=> IsListed(i)) /\ (BackupOver(i)' <=> BackupOver(i))
  BY <1>2, ZenonT(60) DEF IsListed, BackupOver
<1>5. BlobsOK'
  BY <1>2, <1>3, <1>4 DEF BlobsOK
<1>6. Dropping = {} /\ Dropping' = IF drop THEN {id} ELSE {}
  BY <1>2, ZenonT(60) DEF Dropping
<1>7. /\ pass.rank \in Nat /\ pass.now \in Nat /\ MaxCount \in Nat /\ MaxAge \in Nat
      /\ \A i \in pass.listed : i \in BackupIds /\ i[2] \in Nat
  BY <1>3, IdTimes, ZenonT(60) DEF PassOK, VaultConstants
<1>8. id \in pass.listed /\ (id \notin spoilt => IsListed(id))
  BY <1>2, <1>3, ZenonT(60) DEF PassOK
<1>9. KeptSoFar' = IF drop \/ id \in spoilt THEN KeptSoFar ELSE KeptSoFar \cup {id}
  BY <1>2, <1>4, <1>6, <1>7, <1>8, ZenonT(60) DEF KeptSoFar
<1>10. id \notin KeptSoFar /\ IsFiniteSet(KeptSoFar) /\ Cardinality(KeptSoFar) \in Nat
  BY <1>2, <1>3, FS_CardinalityType, ZenonT(60) DEF KeptSoFar, PassOK
<1>11. /\ IsFiniteSet(KeptSoFar')
       /\ Cardinality(KeptSoFar') <= pass'.rank /\ Cardinality(KeptSoFar') <= MaxCount
  <2>1. Cardinality(KeptSoFar) <= pass.rank /\ Cardinality(KeptSoFar) <= MaxCount
    BY <1>3, ZenonT(60) DEF PassOK
  <2>2. CASE drop \/ id \in spoilt
    <3>1. KeptSoFar' = KeptSoFar /\ pass'.rank = pass.rank + 1
      BY <1>2, <1>9, <2>2, ZenonT(60)
    <3>2. Cardinality(KeptSoFar) <= pass.rank + 1
      BY <1>7, <1>10, <2>1, RankCounts, ZenonT(60)
    <3> QED
      BY <1>10, <2>1, <3>1, <3>2, ZenonT(60)
  <2>3. CASE ~(drop \/ id \in spoilt)
    <3>1. Cardinality(KeptSoFar') = Cardinality(KeptSoFar) + 1 /\ IsFiniteSet(KeptSoFar')
      BY <1>9, <1>10, <2>3, FS_AddElement
    <3>2. pass.rank < MaxCount
      BY <1>1, <1>7, <2>3
    <3>3. pass'.rank = pass.rank + 1
      BY <1>2, ZenonT(60)
    <3> QED
      BY <1>7, <1>10, <2>1, <3>1, <3>2, <3>3, RankCounts, ZenonT(60)
  <2> QED
    BY <2>2, <2>3
<1>12. \A k \in KeptSoFar' : k[2] + MaxAge >= pass'.now
  <2>1. \A k \in KeptSoFar : k[2] + MaxAge >= pass.now
    BY <1>3 DEF PassOK
  <2>2. ~drop => id[2] + MaxAge >= pass.now
    BY <1>1, <1>7, <1>8, YoungEnough, ZenonT(60)
  <2>3. pass'.now = pass.now
    BY <1>2, ZenonT(60)
  <2> QED
    BY <1>9, <2>1, <2>2, <2>3, ZenonT(60)
<1>13. \A t \in pass'.todo, v \in pass'.listed \ pass'.todo : t[2] <= v[2]
  BY <1>2, <1>3 DEF PassOK
<1>14. ASSUME NEW v \in pass'.listed \ (pass'.todo \cup spoilt' \cup KeptSoFar')
       PROVE  \/ v[2] + MaxAge < pass'.now
              \/ pass'.rank > MaxCount /\ \A k \in KeptSoFar' : v[2] <= k[2]
  <2>1. CASE v = id
    <3>1. drop
      BY <1>2, <1>9, <1>14, <2>1
    <3>2. \A k \in KeptSoFar' : id[2] <= k[2]
      BY <1>2, <1>3, <1>9, <3>1, ZenonT(60) DEF PassOK, KeptSoFar
    <3> QED
      BY <1>1, <1>2, <1>7, <2>1, <3>1, <3>2
  <2>2. CASE v # id
    <3>1. v \in pass.listed \ (pass.todo \cup spoilt \cup KeptSoFar)
      BY <1>2, <1>9, <1>14, <2>2
    <3>2. \/ v[2] + MaxAge < pass.now
          \/ pass.rank > MaxCount /\ \A k \in KeptSoFar : v[2] <= k[2]
      BY <1>3, <3>1, ZenonT(60) DEF PassOK
    <3>3. pass.rank > MaxCount => drop
      BY <1>1, <1>7
    <3> QED
      BY <1>2, <1>7, <1>9, <3>2, <3>3, SMTT(40)
  <2> QED
    BY <2>1, <2>2
<1>15. /\ pass'.todo \subseteq pass'.listed /\ pass'.listed \subseteq BackupIds
       /\ pass'.rank \in Nat /\ pass'.now \in Nat
       /\ Dropping' \subseteq pass'.listed \ pass'.todo
       /\ \A i \in pass'.listed : BackupOver(i)'
       /\ \A t \in pass'.todo \ spoilt' : IsListed(t)'
       /\ pass'.at # "done"
  <2>0. /\ pass'.todo = pass.todo \ {id} /\ pass'.listed = pass.listed /\ pass'.now = pass.now
        /\ pass'.rank = pass.rank + 1 /\ pass'.at = IF drop THEN "archive" ELSE "visit"
    BY <1>2, SMTT(30), ZenonT(30)
  <2>1. pass'.todo \subseteq pass'.listed /\ pass'.listed \subseteq BackupIds /\ pass'.now \in Nat
    BY <1>3, <2>0, SMTT(30), ZenonT(30) DEF PassOK
  <2>2. pass'.rank \in Nat /\ pass'.at # "done"
    BY <1>7, <2>0, SMTT(30), ZenonT(30)
  <2>3. Dropping' \subseteq pass'.listed \ pass'.todo
    BY <1>6, <1>8, <2>0, SMTT(30), ZenonT(30)
  <2>4. /\ \A i \in pass'.listed : BackupOver(i)'
        /\ \A t \in pass'.todo \ spoilt' : IsListed(t)'
    BY <1>2, <1>3, <1>4, <2>0, SMTT(30), ZenonT(30) DEF PassOK
  <2> QED
    BY <2>1, <2>2, <2>3, <2>4
<1>16. PassOK'
  BY <1>11, <1>12, <1>13, <1>14, <1>15 DEF PassOK
<1> QED
  BY <1>2, <1>5, <1>16 DEF VaultInv, PassType

\* A step of the pass on the backup it drops leaves every other one alone.
LEMMA DropStepKeeps ==
    ASSUME VaultConstants, VaultInv, pass.at \in {"archive", "manifest"}, UNCHANGED job
    PROVE  /\ BlobsOK /\ PassOK /\ PassType /\ pass.id \in BackupIds /\ BackupOver(pass.id)
           /\ \A j \in Jobs : job[j].at = "manifest" /\ job[j].id \notin spoilt => job[j].id # pass.id
           /\ \A id \in BackupIds : BackupOver(id)' <=> BackupOver(id)
<1>1. BlobsOK /\ PassOK /\ PassType
  BY DEF VaultInv
<1>2. pass.id \in pass.listed
  BY <1>1 DEF PassOK, Dropping
<1>3. pass.id \in BackupIds /\ BackupOver(pass.id)
  BY <1>1, <1>2 DEF PassOK
<1>4. \A j \in Jobs : job[j].at = "manifest" /\ job[j].id \notin spoilt => job[j].id # pass.id
  BY <1>1, <1>3, NotOverYet
<1>5. \A id \in BackupIds : BackupOver(id)' <=> BackupOver(id)
  BY DEF BackupOver
<1> QED
  BY <1>1, <1>3, <1>4, <1>5

LEMMA DeleteArchiveKeeps ==
    ASSUME VaultConstants, VaultInv, NEW ok \in BOOLEAN, DeleteArchive(ok)
    PROVE  VaultInv'
<1>1. /\ pass.at = "archive" /\ UNCHANGED <<instant, manifests, job, spoilt>>
      /\ archives' = IF ok THEN [archives EXCEPT ![pass.id] = Nothing] ELSE archives
      /\ pass' = IF ok THEN [pass EXCEPT !.at = "manifest"] ELSE NoPass
  BY DEF DeleteArchive
<1>2. PICK d : d = pass.id
  OBVIOUS
<1>3. /\ BlobsOK /\ PassOK /\ PassType /\ d \in BackupIds
      /\ \A j \in Jobs : job[j].at = "manifest" /\ job[j].id \notin spoilt => job[j].id # d
      /\ \A id \in BackupIds : (BackupOver(id)' <=> BackupOver(id)) /\ (IsListed(id)' <=> IsListed(id))
  BY <1>1, <1>2, DropStepKeeps DEF IsListed
<1>4. CASE ok
  <2>1. /\ pass'.at = "manifest" /\ pass'.todo = pass.todo /\ pass'.listed = pass.listed
        /\ pass'.rank = pass.rank /\ pass'.now = pass.now /\ pass'.id = d
        /\ PassType'
    BY <1>1, <1>2, <1>3, <1>4 DEF PassType
  <2>2. Dropping' = Dropping
    BY <1>1, <1>2, <2>1 DEF Dropping
  <2>3. KeptSoFar' = KeptSoFar \ spoilt'
    BY <1>1, <1>3, <2>1, <2>2 DEF KeptSoFar, PassOK
  <2>4. PassOK'
    BY <1>1, <1>3, <2>1, <2>2, <2>3, PassStands DEF PassOK
  <2>5. /\ archives' \in [BackupIds -> Jobs \cup {Nothing, TornBlob}]
        /\ \A id \in BackupIds \ {d} : archives'[id] = archives[id]
    BY <1>1, <1>2, <1>3, <1>4 DEF BlobsOK
  <2>6. \A j \in Jobs : job'[j].at = "manifest" /\ job'[j].id \notin spoilt' =>
                        archives'[job'[j].id] = j
    BY <1>1, <1>3, <2>5, JobKinds DEF BlobsOK
  <2>7. \A id \in BackupIds : IsListed(id)' /\ id \notin spoilt' /\ ~(pass'.at = "manifest" /\ pass'.id = id)
                           => archives'[id] = manifests'[id].checksum
    BY <1>1, <1>3, <2>1, <2>5 DEF BlobsOK
  <2>8. BlobsOK'
    BY <1>1, <1>3, <2>5, <2>6, <2>7 DEF BlobsOK
  <2> QED
    BY <2>1, <2>4, <2>8 DEF VaultInv
<1>5. CASE ~ok
  <2>1. pass' = NoPass /\ UNCHANGED archives
    BY <1>1, <1>5
  <2>2. BlobsOK'
    BY <1>1, <1>3, <2>1, ZenonT(60) DEF BlobsOK
  <2> QED
    BY <2>1, <2>2 DEF VaultInv, PassType, NoPass
<1> QED
  BY <1>4, <1>5

LEMMA DeleteManifestKeeps ==
    ASSUME VaultConstants, VaultInv, NEW ok \in BOOLEAN, DeleteManifest(ok)
    PROVE  VaultInv'
<1>1. PICK d : d = pass.id
  OBVIOUS
<1>2. /\ pass.at = "manifest" /\ UNCHANGED <<instant, archives, job>>
      /\ manifests' = IF ok THEN [manifests EXCEPT ![d] = Nothing] ELSE manifests
      /\ pass' = IF ok THEN [pass EXCEPT !.at = "visit"] ELSE NoPass
      /\ spoilt' = IF ok THEN spoilt ELSE spoilt \cup {d}
  BY <1>1 DEF DeleteManifest
<1>3. /\ BlobsOK /\ PassOK /\ PassType /\ d \in BackupIds
      /\ \A id \in BackupIds : BackupOver(id)' <=> BackupOver(id)
  BY <1>1, <1>2, DropStepKeeps
<1>4. CASE ok
  <2>1. /\ pass'.at = "visit" /\ pass'.todo = pass.todo /\ pass'.listed = pass.listed
        /\ pass'.rank = pass.rank /\ pass'.now = pass.now /\ spoilt' = spoilt
        /\ PassType'
    BY <1>2, <1>3, <1>4 DEF PassType
  <2>2. /\ manifests' \in [BackupIds -> [checksum : Jobs, at : Nat] \cup {Nothing, TornBlob}]
        /\ ~IsListed(d)'
        /\ \A id \in BackupIds \ {d} : manifests'[id] = manifests[id] /\ (IsListed(id)' <=> IsListed(id))
    BY <1>2, <1>3, <1>4 DEF BlobsOK, IsListed
  <2>3. Dropping' = {} /\ Dropping = {d} /\ d \in pass.listed \ pass.todo
    BY <1>1, <1>2, <1>3, <2>1 DEF Dropping, PassOK
  <2>4. KeptSoFar' = KeptSoFar \ spoilt'
    BY <1>3, <2>1, <2>2, <2>3, ZenonT(60) DEF KeptSoFar, PassOK
  <2>5. \A t \in pass.todo \ spoilt' : IsListed(t)'
    BY <1>3, <2>1, <2>2, <2>3, ZenonT(60) DEF PassOK
  <2>6. \A id \in pass.listed : BackupOver(id)'
    BY <1>3 DEF PassOK
  <2>7. PassOK'
    BY <1>3, <2>1, <2>3, <2>4, <2>5, <2>6, PassStands
  <2>8. \A id \in BackupIds : IsListed(id)' /\ id \notin spoilt' => archives'[id] = manifests'[id].checksum
    BY <1>1, <1>2, <1>3, <2>1, <2>2 DEF BlobsOK
  <2>9. BlobsOK'
    BY <1>2, <1>3, <2>1, <2>2, <2>8 DEF BlobsOK
  <2> QED
    BY <2>1, <2>7, <2>9 DEF VaultInv
<1>5. CASE ~ok
  <2>1. pass' = NoPass /\ UNCHANGED manifests /\ spoilt' = spoilt \cup {d}
    BY <1>2, <1>5
  <2>2. \A id \in BackupIds : IsListed(id)' <=> IsListed(id)
    BY <2>1 DEF IsListed
  <2>3. BlobsOK'
    BY <1>1, <1>2, <1>3, <2>1, <2>2 DEF BlobsOK
  <2> QED
    BY <2>1, <2>3 DEF VaultInv, PassType, NoPass
<1> QED
  BY <1>4, <1>5

LEMMA KilledKeeps ==
    ASSUME VaultConstants, VaultInv, Killed
    PROVE  VaultInv'
<1>1. /\ job' = [j \in Jobs |-> IF job[j].at = "idle" THEN job[j] ELSE [job[j] EXCEPT !.at = "over"]]
      /\ pass' = NoPass /\ UNCHANGED <<instant, archives, manifests>>
      /\ spoilt' = IF pass.at = "manifest" THEN spoilt \cup {pass.id} ELSE spoilt
  BY DEF Killed
<1>2. BlobsOK
  BY DEF VaultInv
<1>3. \A j \in Jobs : /\ job[j].at = "idle" => job'[j] = job[j]
                      /\ job[j].at # "idle" => job'[j] = [at |-> "over", id |-> job[j].id] /\ job[j].id \in BackupIds
  <2> SUFFICES ASSUME NEW j \in Jobs
               PROVE  /\ job[j].at = "idle" => job'[j] = job[j]
                      /\ job[j].at # "idle" => job'[j] = [at |-> "over", id |-> job[j].id] /\ job[j].id \in BackupIds
    OBVIOUS
  <2>1. job'[j] = IF job[j].at = "idle" THEN job[j] ELSE [job[j] EXCEPT !.at = "over"]
    BY <1>1
  <2>2. job[j].at # "idle" => job[j].id \in BackupIds /\ job[j] \in [at : {"archive", "manifest", "over"}, id : BackupIds]
    BY <1>2 DEF BlobsOK
  <2> QED
    BY <2>1, <2>2
<1>4. job' \in [Jobs -> [at : {"archive", "manifest", "over"}, id : BackupIds]
                        \cup {[at |-> "idle", id |-> Nothing]}]
  BY <1>1, <1>2, <1>3 DEF BlobsOK
<1>5. \A id \in BackupIds : (IsListed(id)' <=> IsListed(id)) /\ (BackupOver(id) => BackupOver(id)')
  BY <1>1, <1>3 DEF IsListed, BackupOver
<1>6. /\ \A i, k \in Jobs : i # k /\ job'[i].at # "idle" /\ job'[k].at # "idle"
                            /\ job'[i].id = job'[k].id => job'[i].id \in spoilt'
      /\ \A k \in Jobs : job'[k].at # "manifest"
  BY <1>1, <1>2, <1>3 DEF BlobsOK
<1>7. \A id \in BackupIds : IsListed(id)' /\ id \notin spoilt' => archives'[id] = manifests'[id].checksum
  BY <1>1, <1>2, <1>5 DEF BlobsOK
<1>8. BlobsOK'
  BY <1>1, <1>2, <1>4, <1>5, <1>6, <1>7 DEF BlobsOK
<1> QED
  BY <1>1, <1>8 DEF VaultInv, PassType, NoPass

LEMMA VaultNextInv ==
    ASSUME VaultConstants
    PROVE  VaultInv /\ [VaultNext]_vaultVars => VaultInv'
<1> SUFFICES ASSUME VaultInv, [VaultNext]_vaultVars PROVE VaultInv'
  OBVIOUS
<1>1. CASE Now \/ UNCHANGED vaultVars
  <2>1. UNCHANGED <<archives, manifests, job, pass, spoilt>> /\ instant' \in 0 .. LastTime
    BY <1>1, SMTT(30) DEF Now, vaultVars, VaultInv, BlobsOK, VaultConstants
  <2>2. \A id \in BackupIds : (IsListed(id)' <=> IsListed(id)) /\ (BackupOver(id)' <=> BackupOver(id))
    BY <2>1 DEF IsListed, BackupOver
  <2>3. BlobsOK'
    BY <2>1, <2>2 DEF VaultInv, BlobsOK
  <2> QED
    BY <2>1, <2>2, <2>3, PassUntouched DEF VaultInv
<1>2. CASE EndRetention
  <2>1. /\ pass.at = "visit" /\ pass.todo = {} /\ pass' = [pass EXCEPT !.at = "done"]
        /\ UNCHANGED <<instant, archives, manifests, job, spoilt>>
    BY <1>2 DEF EndRetention
  <2>2. BlobsOK /\ PassOK /\ PassType
    BY <2>1 DEF VaultInv
  <2>3. /\ pass'.at = "done" /\ pass'.todo = pass.todo /\ pass'.listed = pass.listed
        /\ pass'.rank = pass.rank /\ pass'.now = pass.now /\ pass'.id = pass.id
        /\ PassType'
    BY <2>1, <2>2 DEF PassType
  <2>4. \A id \in BackupIds : (IsListed(id)' <=> IsListed(id)) /\ (BackupOver(id)' <=> BackupOver(id))
    BY <2>1 DEF IsListed, BackupOver
  <2>5. BlobsOK'
    BY <2>1, <2>2, <2>3, <2>4 DEF BlobsOK
  <2>6. Dropping' = {} /\ Dropping = {}
    BY <2>1, <2>3 DEF Dropping
  <2>7. KeptSoFar' = KeptSoFar \ spoilt'
    BY <2>1, <2>2, <2>3, <2>4, <2>6 DEF KeptSoFar, PassOK
  <2>8. PassOK'
    BY <2>1, <2>2, <2>3, <2>4, <2>6, <2>7, PassStands DEF PassOK
  <2> QED
    BY <2>3, <2>5, <2>8 DEF VaultInv
<1> QED
  BY <1>1, <1>2, BeginBackupKeeps, PutArchiveKeeps, PutManifestKeeps, BeginRetentionKeeps, VisitKeeps,
     DeleteArchiveKeeps, DeleteManifestKeeps, KilledKeeps DEF VaultNext

LEMMA VaultInvariant ==
    ASSUME VaultConstants
    PROVE  VaultSpec => []VaultInv
<1>1. VaultInit => VaultInv
  BY SMTT(30) DEF VaultInit, VaultInv, BlobsOK, PassType, NoPass, IsListed, VaultConstants
<1> QED
  BY <1>1, VaultNextInv, PTL DEF VaultSpec

\* Every backup list_backups shows can be restored, for any number of backup calls,
\* retention passes, failed puts and deletes and crashes: as long as no two backups
\* share a millisecond, and retention was not stopped between its two deletes of it.
THEOREM ListedBackupsRestore ==
    ASSUME VaultConstants
    PROVE  VaultSpec => []ListedRestores
<1>1. VaultInv => ListedRestores
  <2> SUFFICES ASSUME VaultInv, NEW id \in BackupIds, IsListed(id), id \notin spoilt,
                      ~(pass.at = "manifest" /\ pass.id = id)
               PROVE  RestoreFull(id) # Nothing
    BY DEF ListedRestores
  <2>1. archives[id] = manifests[id].checksum
    BY DEF VaultInv, BlobsOK
  <2>2. manifests[id].checksum \in Jobs
    BY DEF VaultInv, BlobsOK, IsListed
  <2> QED
    BY <2>1, <2>2 DEF RestoreFull, VaultConstants
<1> QED
  BY <1>1, VaultInvariant, PTL

\* A retention pass that comes to its end leaves what the policy keeps, whatever backups
\* are made while it runs and whatever max_count and retention_days are.
THEOREM RetentionKeepsThePolicy ==
    ASSUME VaultConstants
    PROVE  VaultSpec => []RetentionExact
<1>1. VaultInv => RetentionExact
  <2> SUFFICES ASSUME VaultInv, pass.at = "done" PROVE RetentionExact
    BY DEF RetentionExact
  <2> DEFINE kept == {id \in pass.listed \ spoilt : IsListed(id)}
  <2>1. PassOK /\ pass.todo = {} /\ Dropping = {}
    BY DEF VaultInv, PassOK, Dropping
  <2>2. kept = KeptSoFar
    BY <2>1 DEF KeptSoFar
  <2>3. Cardinality(kept) <= MaxCount /\ \A id \in kept : id[2] + MaxAge >= pass.now
    BY <2>1, <2>2, ZenonT(60) DEF PassOK
  <2>4. ASSUME NEW id \in pass.listed \ (kept \cup spoilt), NEW k \in kept PROVE id[2] <= k[2]
    <3>1. id[2] \in Nat /\ k[2] \in Nat /\ MaxAge \in Nat /\ pass.now \in Nat
      BY <2>1, IdTimes DEF PassOK, VaultConstants
    <3>2. id[2] + MaxAge < pass.now \/ id[2] <= k[2]
      BY <2>1, <2>2 DEF PassOK
    <3>3. k[2] + MaxAge >= pass.now
      BY <2>3
    <3> QED
      BY <3>1, <3>2, <3>3
  <2> QED
    BY <2>3, <2>4 DEF RetentionExact
<1> QED
  BY <1>1, VaultInvariant, PTL
=============================================================================
