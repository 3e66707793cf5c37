----------------------------- MODULE PluginData -----------------------------
(***************************************************************************)
(* The encrypted record store of packages/storage-sqlite: execute_mutation *)
(* (backend.rs), credential encryption (credentials.rs) and key rotation   *)
(* (lib.rs).                                                               *)
(*                                                                         *)
(* The whole database is encrypted under one key, and the claims of each   *)
(* credential once more under a key derived from the master key that the   *)
(* process holds.  rekey moves the database first and the credentials in a *)
(* transaction of its own, so it can stop in between.                      *)
(*                                                                         *)
(* A row is reduced to its owner, its collection, its version, the         *)
(* collection it was validated as, and the key its claims are under.       *)
(***************************************************************************)
EXTENDS Naturals

CONSTANTS
    RecIds, Plugins,
    DbKeys, FirstKey,
    NoKey,                \* no process holds the database open
    MaxRecVersion, MaxRekeys   \* bounds

VARIABLES
    recs,          \* plugin_data
    dbKey,         \* the key the file is encrypted under
    master,        \* SqliteStorage.master_key
    rekeys,
    interrupted    \* history: a rekey stopped after the database had moved

recVars == <<recs, dbKey, master, rekeys, interrupted>>

Scopes == {"credentials", "notes"}
NoRec == [version |-> 0]
Live(i) == recs[i].version > 0
PlainText == "plain"

RecInit ==
    /\ recs = [i \in RecIds |-> NoRec]
    /\ dbKey = FirstKey /\ master = FirstKey
    /\ rekeys = 0 /\ interrupted = FALSE

Running == master # NoKey

-----------------------------------------------------------------------------
\* The payload has passed the schema of the collection named in the mutation.
Form(coll) == IF coll = "credentials" THEN master ELSE PlainText

Insert(i, p, coll) ==
    /\ Running /\ ~Live(i)
    /\ recs' = [recs EXCEPT ![i] = [version |-> 1, plugin |-> p, coll |-> coll,
                                    shape |-> coll, under |-> Form(coll)]]
    /\ UNCHANGED <<dbKey, master, rekeys, interrupted>>

\* UPDATE ... WHERE id AND plugin_id AND version: the collection named in the
\* mutation chooses the schema and the encryption, and selects no row.
Matches(i, p, coll, expected) == Live(i) /\ recs[i].plugin = p /\ recs[i].version = expected

Update(i, p, coll, expected) ==
    /\ Running
    /\ Matches(i, p, coll, expected) /\ expected < MaxRecVersion
    /\ recs' = [recs EXCEPT ![i].version = @ + 1, ![i].shape = coll, ![i].under = Form(coll)]
    /\ UNCHANGED <<dbKey, master, rekeys, interrupted>>

Delete(i, p) ==
    /\ Running /\ Live(i) /\ recs[i].plugin = p
    /\ recs' = [recs EXCEPT ![i] = NoRec]
    /\ UNCHANGED <<dbKey, master, rekeys, interrupted>>

-----------------------------------------------------------------------------
\* re_encrypt_credentials: all rows of the collection, or none.
CredentialRows == {i \in RecIds : Live(i) /\ recs[i].coll = "credentials"}
AllOpen == \A i \in CredentialRows : recs[i].under \in {master, PlainText}
\* Mutant: the transaction is dropped without a commit.
ReencryptionNotCommitted(key) == recs
Reencrypted(key) ==
    [i \in RecIds |-> IF i \in CredentialRows THEN [recs[i] EXCEPT !.under = key] ELSE recs[i]]

Rekey(key) ==
    /\ Running /\ key # master /\ rekeys < MaxRekeys
    /\ rekeys' = rekeys + 1
    /\ dbKey' = key
    /\ AllOpen
    /\ recs' = Reencrypted(key)
    /\ master' = key
    /\ UNCHANGED interrupted

\* The database has moved, and a row does not open, a statement of the
\* credentials' transaction fails, or the process dies before its commit.
RekeyStops(key, dies) ==
    /\ Running /\ key # master /\ rekeys < MaxRekeys
    /\ rekeys' = rekeys + 1
    /\ dbKey' = key
    /\ master' = IF dies THEN NoKey ELSE master
    /\ interrupted' = TRUE
    /\ UNCHANGED recs

Stop ==
    /\ Running
    /\ master' = NoKey
    /\ UNCHANGED <<recs, dbKey, rekeys, interrupted>>

\* init: the wrong key is DecryptionFailed.
Open(key) ==
    /\ ~Running
    /\ key = dbKey
    /\ master' = key
    /\ UNCHANGED <<recs, dbKey, rekeys, interrupted>>

RecNext ==
    \/ \E i \in RecIds, p \in Plugins :
          \/ \E coll \in Scopes : Insert(i, p, coll)
          \/ \E coll \in Scopes, v \in 1..MaxRecVersion : Update(i, p, coll, v)
          \/ Delete(i, p)
    \/ \E key \in DbKeys : \/ Rekey(key)
                           \/ \E dies \in BOOLEAN : RekeyStops(key, dies)
                           \/ Open(key)
    \/ Stop

RecSpec == RecInit /\ [][RecNext]_recVars

-----------------------------------------------------------------------------
\* Until a rekey has been cut short, every credential opens under the key that
\* opens the database, over any number of rotations, restarts and writes: a
\* rotation leaves no row of the collection behind.
CredentialsOpen ==
    ~interrupted => \A i \in CredentialRows : recs[i].under \in {dbKey, PlainText}

\* plugin_data is a versioned table, as the documents are.
RecTable == INSTANCE VersionedTable WITH Rows <- RecIds,
                                         version <- [i \in RecIds |-> recs[i].version]

\* Each update of a record adds one to its version and nothing else does:
\* a rotation rewrites the claims of every credential and moves no version.
RecordsAreVersioned == RecTable!Spec
=============================================================================
