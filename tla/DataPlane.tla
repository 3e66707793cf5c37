------------------------------ MODULE DataPlane ------------------------------
(***************************************************************************)
(* Records on their way from a request to the search index.                *)
(*                                                                         *)
(*   routes/data.rs, routes/graphql.rs   write the table, then publish     *)
(*   message_bus.rs                      a bounded broadcast channel       *)
(*   search_processor.rs, search.rs      index what the channel delivers   *)
(*                                                                         *)
(* A write and the publication of its events are separate steps, so the    *)
(* events of two requests may be published in another order than their     *)
(* writes.  A receiver that falls behind by more than the capacity loses   *)
(* the oldest events.  Documents are buffered until a commit; the process  *)
(* may stop at any time, which keeps the table and the committed index.    *)
(***************************************************************************)
EXTENDS LegacyStorage, Sequences, FiniteSets

CONSTANTS
    Ids,         \* record ids; create makes a new one each time
    Clients,     \* request handlers that run concurrently
    MaxVersion,  \* bound on a record's version
    Capacity,    \* of the broadcast channel
    Threshold,   \* commit_threshold of the search engine
    MaxRestarts  \* bound on the number of restarts

ASSUME DataAssumption ==
    /\ MaxVersion \in Nat \ {0}
    /\ Capacity \in Nat \ {0}
    /\ Threshold \in Nat \ {0}
    /\ MaxRestarts \in Nat

VARIABLES
    table,      \* plugin_data
    writes,     \* number of rows written under each id
    handler,    \* the events a handler still has to publish, in order
    channel,    \* events the search processor has not received
    lagged,     \* its next recv returns Lagged
    indexing,   \* the document between remove and index_record, if any
    committed,  \* documents searches can find
    buffered,   \* documents added since the last commit
    pending,    \* pending_count
    published,  \* version in the last event about each id; 0 after a deletion
    lost,       \* ids one of whose events or documents was lost
    restarts

vars == <<table, writes, handler, channel, lagged, indexing, committed, buffered,
          pending, published, lost, restarts>>

storageVars == <<table, writes>>
busVars == <<channel, lagged, published>>
searchVars == <<indexing, committed, buffered, pending>>

NewRecords == [kind |-> "new"]
RecordChanged(id, version) == [kind |-> "changed", id |-> id, version |-> version]
RecordDeleted(id) == [kind |-> "deleted", id |-> id]

Doc(id, version) == [id |-> id, version |-> version]
NoDoc == [id |-> "none", version |-> 0]

Init ==
    /\ table = [id \in Ids |-> NoRow]
    /\ writes = [id \in Ids |-> 0]
    /\ handler = [c \in Clients |-> <<>>]
    /\ channel = <<>>
    /\ lagged = FALSE
    /\ indexing = NoDoc
    /\ committed = {}
    /\ buffered = {}
    /\ pending = 0
    /\ published = [id \in Ids |-> 0]
    /\ lost = {}
    /\ restarts = 0

-----------------------------------------------------------------------------
(* Requests: the write, and what the handler publishes after it *)

\* The write has happened; with its audit entry in place the handler goes on to
\* publish, without it the request ends with an error and publishes nothing.
AfterWrite(c, id, events) ==
    \/ handler' = [handler EXCEPT ![c] = events] /\ UNCHANGED lost
    \/ lost' = lost \cup {id} /\ UNCHANGED handler

CreateRecord(c, id) ==
    /\ handler[c] = <<>>
    /\ writes[id] = 0
    /\ CanCreate(table, id)
    /\ table' = Created(table, id, 0)
    /\ writes' = [writes EXCEPT ![id] = 1]
    /\ AfterWrite(c, id, <<NewRecords, RecordChanged(id, 1)>>)
    /\ UNCHANGED <<busVars, searchVars, restarts>>

\* The client names the version it has seen.  A conflict (409) or an unknown id
\* (404) changes nothing.
UpdateRecord(c, id, version) ==
    /\ handler[c] = <<>>
    /\ version < MaxVersion
    /\ CanUpdate(table, id, version)
    /\ table' = Updated(table, id, 0, version)
    /\ writes' = [writes EXCEPT ![id] = @ + 1]
    /\ AfterWrite(c, id, <<NewRecords, RecordChanged(id, version + 1)>>)
    /\ UNCHANGED <<busVars, searchVars, restarts>>

DeleteRecord(c, id) ==
    /\ handler[c] = <<>>
    /\ Exists(table, id)
    /\ table' = Deleted(table, id)
    /\ AfterWrite(c, id, <<RecordDeleted(id)>>)
    /\ UNCHANGED <<writes, busVars, searchVars, restarts>>

About(event, id) == event.kind # "new" /\ event.id = id

\* MessageBus::publish: with the channel full, the oldest event makes room.
Publish(c) ==
    /\ handler[c] # <<>>
    /\ LET event == Head(handler[c])
           full == Len(channel) = Capacity IN
       /\ channel' = Append(IF full THEN Tail(channel) ELSE channel, event)
       /\ lagged' = (lagged \/ full)
       /\ lost' = lost \cup {id \in Ids : full /\ About(Head(channel), id)}
       /\ published' = [id \in Ids |->
             IF ~About(event, id) THEN published[id]
             ELSE IF event.kind = "deleted" THEN 0 ELSE event.version]
    /\ handler' = [handler EXCEPT ![c] = Tail(@)]
    /\ UNCHANGED <<storageVars, searchVars, restarts>>

-----------------------------------------------------------------------------
(* The search engine *)

Without(docs, id) == {d \in docs : d.id # id}

\* Mutant: a document that is still buffered escapes the removal.
RemoveCommittedOnly(id) ==
    /\ committed' = Without(committed, id) \cup buffered
    /\ buffered' = {}
    /\ UNCHANGED pending

\* SearchEngine::remove commits at once, and with it whatever was buffered.
\* The count of pending documents stays as it is.
Remove(id) ==
    /\ committed' = Without(committed \cup buffered, id)
    /\ buffered' = {}
    /\ UNCHANGED pending

\* SearchEngine::index_record.
IndexRecord(doc) ==
    IF pending + 1 >= Threshold
    THEN /\ committed' = committed \cup buffered \cup {doc}
         /\ buffered' = {}
         /\ pending' = 0
    ELSE /\ buffered' = buffered \cup {doc}
         /\ pending' = pending + 1
         /\ UNCHANGED committed

-----------------------------------------------------------------------------
(* The search processor *)

\* Mutant: Lagged is treated like Closed and the processor handles nothing more.
ReceiveLaggedStops ==
    /\ indexing = NoDoc
    /\ lagged
    /\ UNCHANGED vars

\* The events before the oldest one that is left are gone; a warning is logged.
ReceiveLagged ==
    /\ indexing = NoDoc
    /\ lagged
    /\ lagged' = FALSE
    /\ UNCHANGED <<storageVars, handler, channel, published, searchVars, lost, restarts>>

Receive ==
    /\ indexing = NoDoc
    /\ ~lagged /\ channel # <<>>
    /\ channel' = Tail(channel)
    /\ LET event == Head(channel) IN
       \/ /\ event.kind = "new"
          /\ UNCHANGED searchVars
       \/ /\ event.kind = "deleted"
          /\ Remove(event.id)
          /\ UNCHANGED indexing
       \/ /\ event.kind = "changed"
          /\ Remove(event.id)
          /\ indexing' = Doc(event.id, event.version)
    /\ UNCHANGED <<storageVars, handler, lagged, published, lost, restarts>>

\* The second half of a RecordChanged, after remove has released the writer.
IndexRemoved ==
    /\ indexing # NoDoc
    /\ IndexRecord(indexing)
    /\ indexing' = NoDoc
    /\ UNCHANGED <<storageVars, handler, busVars, lost, restarts>>

\* add_document fails: a warning is logged and the record is in no index.
IndexFails ==
    /\ indexing # NoDoc
    /\ lost' = lost \cup {indexing.id}
    /\ indexing' = NoDoc
    /\ UNCHANGED <<storageVars, handler, busVars, committed, buffered, pending, restarts>>

\* main starts the processor without a shutdown signal: when the process stops,
\* events that were not received and documents that were not committed are gone.
Restart ==
    /\ restarts < MaxRestarts
    /\ restarts' = restarts + 1
    /\ lost' = lost \cup {id \in Ids :
          \/ \E c \in Clients : \E i \in DOMAIN handler[c] : About(handler[c][i], id)
          \/ \E i \in DOMAIN channel : About(channel[i], id)
          \/ \E d \in buffered \cup {indexing} : d.id = id}
    /\ handler' = [c \in Clients |-> <<>>]
    /\ channel' = <<>>
    /\ lagged' = FALSE
    /\ indexing' = NoDoc
    /\ buffered' = {}
    /\ pending' = 0
    /\ UNCHANGED <<storageVars, published, committed>>

ProcessorStep == ReceiveLagged \/ Receive \/ IndexRemoved \/ IndexFails

Next ==
    \/ \E c \in Clients, id \in Ids :
          \/ CreateRecord(c, id)
          \/ \E version \in 1 .. MaxVersion : UpdateRecord(c, id, version)
          \/ DeleteRecord(c, id)
    \/ \E c \in Clients : Publish(c)
    \/ ProcessorStep
    \/ Restart

\* A handler that has written publishes, and the processor's task is polled.
Fairness == WF_vars(ProcessorStep) /\ \A c \in Clients : WF_vars(Publish(c))

Spec == Init /\ [][Next]_vars /\ Fairness

-----------------------------------------------------------------------------
(* What must hold *)

IndexedVersions(id) == {d.version : d \in {e \in committed \cup buffered : e.id = id}}

\* Optimistic concurrency: a record that exists has been written as often as its
\* version says, so no two updates were accepted on top of the same version,
\* whether or not their requests went on to fail.
VersionCountsWrites == \A id \in Ids : Exists(table, id) => table[id].version = writes[id]

\* A search never finds two versions of a record, also while a batch is pending.
\* And pending_count, which remove's commit does not reset, never undercounts:
\* flush is a no-op only when nothing is buffered, and no batch outgrows the
\* threshold.
IndexIsConsistent ==
    /\ \A id \in Ids : Cardinality(IndexedVersions(id)) <= 1
    /\ Cardinality(buffered) <= pending

\* Once requests are over the index holds, for each record none of whose events
\* was lost, what the last published event about it said.
SearchCatchesUp ==
    \A id \in Ids :
        <>[](id \in lost \/ IndexedVersions(id) = {published[id]} \ {0})

\* BusEvent::RecordDeleted: "A record was deleted and should be removed from the
\* index."  When nothing is under way and nothing was lost, a deleted record is
\* not in the index.
DeletedRecordIsNotFound ==
    (channel = <<>> /\ indexing = NoDoc /\ \A c \in Clients : handler[c] = <<>>) =>
        \A id \in Ids : id \notin lost /\ ~Exists(table, id) => IndexedVersions(id) = {}
=============================================================================
