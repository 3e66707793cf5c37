---------------------------- MODULE DocumentStore ----------------------------
(***************************************************************************)
(* Document calls: StorageContext (packages/traits/src/storage_context.rs) *)
(* over StorageRouter's deadlines (storage_router.rs) over the SQLite      *)
(* document adapter (packages/storage-sqlite/src/document.rs).             *)
(*                                                                         *)
(* The adapter runs each operation in spawn_blocking under one mutex, so   *)
(* an operation is one step of the table; but the deadline drops only the  *)
(* future that waits for it.  The job of a caller that has been told       *)
(* Timeout is still queued, and runs.                                      *)
(*                                                                         *)
(* A document is reduced to what the calls look at: its id field, and for  *)
(* credentials the id its claims were sealed for.                          *)
(***************************************************************************)
EXTENDS Naturals

CONSTANTS
    DocIds, NoId,
    Calls,            \* each call is made at most once
    Wanted,           \* the requests made: [who, op, scope, ids, body]
    MayWrite, MayDelete,  \* callers that hold DocWrite, DocDelete
    Declared,         \* by plugin, the resolved collection names resolve_collection lets through
    Schemas           \* the pairs <<plugin, collection>> with a registered schema

VARIABLES
    docs,             \* plugin_data, by id
    call,             \* what each call is and how far it has come
    applied, audit    \* history: calls whose write was committed; calls an event was sent for

docVars == <<docs, call, applied, audit>>

NoDoc == [version |-> 0]
Sealed == "credentials"
NotMade == [at |-> "none"]
Unaudited == {"patch", "batch_create", "batch_update", "batch_delete"}   \* of the router only
Writes == {"create", "update", "delete"}

DocInit ==
    /\ docs = [i \in DocIds |-> NoDoc]
    /\ call = [c \in Calls |-> NotMade]
    /\ applied = {} /\ audit = {}

Is(c, phase) == call[c].at = phase
Move(c, phase) == call' = [call EXCEPT ![c].at = phase]
Held(i, scope) == docs[i].version > 0 /\ docs[i].scope = scope

-----------------------------------------------------------------------------
\* The checks made before anything is awaited.
Permitted(who, op, scope) ==
    \/ who = "system"
    \/ /\ who \in IF op = "delete" THEN MayDelete ELSE MayWrite
       /\ scope \in Declared[who]

\* doc_update reads the stored document first when the plugin has a schema.
ReadsFirst(who, op, scope) == op = "update" /\ <<who, scope>> \in Schemas

Submit(c, q) ==
    /\ Is(c, "none")
    /\ call' = [call EXCEPT ![c] =
         [op |-> q.op, scope |-> q.scope, ids |-> q.ids, body |-> q.body, blind |-> TRUE,
          at |-> IF ~Permitted(q.who, q.op, q.scope) THEN "refused"
                 ELSE IF ReadsFirst(q.who, q.op, q.scope) THEN "reading" ELSE "validated"]]
    /\ UNCHANGED <<docs, applied, audit>>

\* Mutant: the stored id is not compared.
IdUnchecked(c, found) == TRUE

\* The read, which may miss its own deadline; any error of it counts as "no
\* stored document".  validate_write compares the id only with a stored one.
SameId(c, found) == found /\ call[c].body # NoId => {call[c].body} = call[c].ids

ReadExisting(c, inTime) ==
    /\ Is(c, "reading")
    /\ LET found == inTime /\ \E i \in call[c].ids : Held(i, call[c].scope)
       IN  call' = [call EXCEPT ![c].at = IF SameId(c, found) THEN "validated" ELSE "refused",
                                ![c].blind = ~found]
    /\ UNCHANGED <<docs, applied, audit>>

\* encrypt_credential_claims needs the id field of the document; then the
\* adapter hands the work to the blocking pool.
Sealable(c) == call[c].scope = Sealed /\ call[c].op = "update" => call[c].body # NoId

Enqueue(c) ==
    /\ Is(c, "validated")
    /\ Move(c, IF Sealable(c) THEN "queued" ELSE "refused")
    /\ UNCHANGED <<docs, applied, audit>>

-----------------------------------------------------------------------------
\* The adapter's operations.  Each is one transaction of the table: it fails
\* as a whole when one of its rows is in the wrong state.
SealOf(c) == IF call[c].scope = Sealed /\ call[c].op \in Writes THEN call[c].body ELSE NoId

\* Mutant: INSERT OR REPLACE.
CreateReplaces(c) == TRUE

CanCreate(c) == \A i \in call[c].ids : docs[i].version = 0     \* id alone is the primary key
CanReplace(c) == \A i \in call[c].ids : Held(i, call[c].scope)

Succeeds(c) == IF call[c].op \in {"create", "batch_create"} THEN CanCreate(c) ELSE CanReplace(c)

Written(c, i) ==
    CASE call[c].op \in {"create", "batch_create"} ->
            [version |-> 1, scope |-> call[c].scope, seal |-> SealOf(c), blind |-> FALSE]
      [] call[c].op \in {"update", "batch_update"} ->
            [docs[i] EXCEPT !.version = @ + 1, !.seal = SealOf(c), !.blind = call[c].blind]
      [] call[c].op = "patch" -> [docs[i] EXCEPT !.version = @ + 1]
      [] OTHER -> NoDoc

\* The job runs whether or not its caller still waits.
RunJob(c) ==
    /\ Is(c, "queued") \/ Is(c, "abandoned")
    /\ IF Succeeds(c)
       THEN /\ docs' = [i \in DocIds |-> IF i \in call[c].ids THEN Written(c, i) ELSE docs[i]]
            /\ applied' = applied \cup {c}
       ELSE UNCHANGED <<docs, applied>>
    /\ Move(c, IF Is(c, "abandoned") THEN "timeout"
               ELSE IF Succeeds(c) THEN "ran" ELSE "failed")
    /\ UNCHANGED audit

\* with_timeout polls the job before the clock: only a job that has not
\* finished is given up.
Deadline(c) ==
    /\ Is(c, "queued")
    /\ Move(c, "abandoned")
    /\ UNCHANGED <<docs, applied, audit>>

\* Mutant: failed writes are announced too.
CompleteAnnouncesAll(c) ==
    /\ Is(c, "ran") \/ Is(c, "failed")
    /\ Move(c, IF Is(c, "ran") THEN "ok" ELSE "error")
    /\ audit' = IF call[c].op \in Writes THEN audit \cup {c} ELSE audit
    /\ UNCHANGED <<docs, applied>>

\* The caller sees the result; a successful write is announced.
Complete(c) ==
    /\ Is(c, "ran") \/ Is(c, "failed")
    /\ Move(c, IF Is(c, "ran") THEN "ok" ELSE "error")
    /\ audit' = IF Is(c, "ran") /\ call[c].op \in Writes THEN audit \cup {c} ELSE audit
    /\ UNCHANGED <<docs, applied>>

DocNext ==
    \E c \in Calls :
        \/ \E q \in Wanted : Submit(c, q)
        \/ \E inTime \in BOOLEAN : ReadExisting(c, inTime)
        \/ Enqueue(c)
        \/ RunJob(c)
        \/ Deadline(c)
        \/ Complete(c)

DocSpec == DocInit /\ [][DocNext]_docVars

-----------------------------------------------------------------------------
\* The audit trail and the table tell the same story: an event is sent only
\* for a committed write, every context write answered Ok has its event, and a
\* committed context write is missing from the trail only when its caller was
\* told Timeout or has not been answered yet (emit_audit after the router
\* call; with_timeout).
AuditFollowsWrite ==
    /\ audit \subseteq applied
    /\ \A c \in Calls : Is(c, "ok") =>
          c \in applied /\ (call[c].op \in Writes => c \in audit)
    /\ \A c \in applied \ audit : Is(c, "ran") \/ Is(c, "timeout") \/ call[c].op \in Unaudited

\* Only a write that never saw the stored document can leave a credential that
\* does not open under its own id: the id comparison of validate_write catches
\* every other one, and the read it needs may time out (doc_update discards
\* that error) or find nothing.
MisfiledOnlyWhenBlind ==
    \A i \in DocIds :
        docs[i].version > 0 /\ docs[i].seal \notin {i, NoId} => docs[i].blind

Table == INSTANCE VersionedTable WITH Rows <- DocIds,
                                      version <- [i \in DocIds |-> docs[i].version]

\* The documents form a versioned table, batches and late jobs included: each
\* committed write of a document adds one to its version, a transaction that
\* fails moves none of them, and a recreated document starts again at 1
\* (create, update and delete of document.rs and their batches).
DocsAreVersioned == Table!Spec
=============================================================================
