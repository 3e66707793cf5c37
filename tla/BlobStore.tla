------------------------------ MODULE BlobStore ------------------------------
(***************************************************************************)
(* The filesystem blob adapter (packages/storage-sqlite/src/blob_fs.rs).   *)
(*                                                                         *)
(* A blob is two files: its data and a sidecar with the data's checksum.   *)
(* Each is written to a temporary file next to it and renamed into place;  *)
(* the temporary name depends on the key only, so concurrent writers of    *)
(* one key share it.  Nothing locks a key, any file operation may fail,    *)
(* and the process may die between any two.                                *)
(*                                                                         *)
(* Contents are values of Bytes; a sidecar is the value it is the checksum *)
(* of.  Torn is a file that is no single writer's.                         *)
(***************************************************************************)
EXTENDS Naturals

CONSTANTS Keys, Bytes, Torn, Absent, Workers, MaxBlobOps

VARIABLES
    disk,       \* [Keys -> [Files -> content]]
    work,       \* what each worker thread is executing
    mixed,      \* history: retrieve has answered bytes that are no single caller's
    settled,    \* history: the value of the last store that met no other operation
    ops

blobVars == <<disk, work, mixed, settled, ops>>

Files == {"data", "dataTmp", "meta", "metaTmp"}
Tmp == [data |-> "dataTmp", meta |-> "metaTmp"]
Rest == [at |-> "rest"]

BlobInit ==
    /\ disk = [k \in Keys |-> [f \in Files |-> Absent]]
    /\ work = [w \in Workers |-> Rest]
    /\ mixed = FALSE
    /\ settled = [k \in Keys |-> Absent]
    /\ ops = 0

At(w, s) == work[w].at = s
Finish(w) == work' = [work EXCEPT ![w] = Rest]
Busy(w, k) == work[w] # Rest /\ work[w].key = k
Put(k, f, v) == disk' = [disk EXCEPT ![k][f] = v]

\* Files of w's key that are removed are lost to writers that have them open.
Removing(w, files, r) ==
    work' = [v \in Workers |->
               IF v = w THEN r
               ELSE IF Busy(v, work[w].key) /\ work[v].fd \in files
                    THEN [work[v] EXCEPT !.fd = "none"] ELSE work[v]]

Uncontested(k) == \A u \in Workers : ~Busy(u, k)

\* A new operation on a key; it ends what is known of the key, and it is alone
\* as long as no other one is executing.
BeginOp(w, r) ==
    /\ At(w, "rest") /\ ops < MaxBlobOps
    /\ ops' = ops + 1
    /\ work' = [v \in Workers |->
                  IF v = w THEN r
                  ELSE IF Busy(v, r.key) THEN [work[v] EXCEPT !.alone = FALSE] ELSE work[v]]
    /\ settled' = [settled EXCEPT ![r.key] = Absent]
    /\ UNCHANGED <<disk, mixed>>

BeginStore(w, k, d) ==
    BeginOp(w, [at |-> "open", file |-> "data", key |-> k, data |-> d, sum |-> d,
                alone |-> Uncontested(k), fd |-> "none"])

BeginDelete(w, k) ==
    /\ disk[k]["data"] # Absent
    /\ BeginOp(w, [at |-> "unlink", key |-> k, alone |-> Uncontested(k), fd |-> "none"])

\* copy reads the two files of the source, and keeps the checksum it read.
BeginCopy(w, from, k) ==
    /\ disk[from]["data"] # Absent /\ disk[from]["meta"] \in Bytes
    /\ BeginOp(w, [at |-> "open", file |-> "data", key |-> k, data |-> disk[from]["data"],
                   sum |-> disk[from]["meta"], alone |-> Uncontested(k), fd |-> "none"])

-----------------------------------------------------------------------------
\* atomic_write, three file operations.  Opening truncates the shared
\* temporary file; fd is the name the opened file goes by now.
Value(w) == IF work[w].file = "data" THEN work[w].data ELSE work[w].sum

OpenTmp(w) ==
    /\ At(w, "open")
    /\ work' = [work EXCEPT ![w].at = "write", ![w].fd = Tmp[work[w].file]]
    /\ Put(work[w].key, Tmp[work[w].file], Torn)
    /\ UNCHANGED <<mixed, settled, ops>>

\* The bytes go to wherever the file is by now; two writers may mix theirs.
WriteTmp(w) ==
    /\ At(w, "write")
    /\ \E v \in {Value(w)} \cup IF work[w].alone THEN {} ELSE {Torn} :
          disk' = IF work[w].fd = "none" THEN disk
                  ELSE [disk EXCEPT ![work[w].key][work[w].fd] = v]
    /\ work' = [work EXCEPT ![w].at = "rename", ![w].fd = "none"]
    /\ UNCHANGED <<mixed, settled, ops>>

\* Renaming takes the file from under the writers that still have it open.
Carried(w, v) ==
    LET f == work[w].file
    IN  IF work[v] = Rest \/ work[v].key # work[w].key THEN work[v]
        ELSE IF work[v].fd = Tmp[f] THEN [work[v] EXCEPT !.fd = f]
        ELSE IF work[v].fd = f THEN [work[v] EXCEPT !.fd = "none"] ELSE work[v]

Rename(w) ==
    /\ At(w, "rename")
    /\ LET k == work[w].key f == work[w].file
       IN  /\ disk[k][Tmp[f]] # Absent
           /\ disk' = [disk EXCEPT ![k][f] = disk[k][Tmp[f]], ![k][Tmp[f]] = Absent]
           /\ work' = [v \in Workers |->
                         IF v # w THEN Carried(w, v)
                         ELSE IF f = "data" THEN [work[w] EXCEPT !.at = "open", !.file = "meta", !.fd = "none"]
                         ELSE Rest]
           /\ settled' = IF f = "meta" /\ work[w].alone /\ work[w].data = work[w].sum
                         THEN [settled EXCEPT ![k] = work[w].data] ELSE settled
    /\ UNCHANGED <<mixed, ops>>

\* A failed file operation, or a temporary file another writer has renamed
\* away.  Failing at the sidecar removes the data that is already in place.
WriteFails(w) ==
    /\ At(w, "open") \/ At(w, "write") \/ At(w, "rename")
    /\ LET k == work[w].key f == work[w].file
       IN  disk' = [disk EXCEPT ![k]["data"] = IF f = "meta" THEN Absent ELSE @,
                                ![k][Tmp[f]] = IF At(w, "rename") THEN Absent ELSE @]
    /\ Removing(w, (IF work[w].file = "meta" THEN {"data"} ELSE {})
                   \cup (IF At(w, "rename") THEN {Tmp[work[w].file]} ELSE {}), Rest)
    /\ UNCHANGED <<mixed, settled, ops>>

-----------------------------------------------------------------------------
\* delete: the data, then the sidecar if that works.
Unlink(w) ==
    /\ At(w, "unlink")
    /\ Put(work[w].key, "data", Absent)
    /\ Removing(w, {"data"}, [work[w] EXCEPT !.at = "unlinkMeta"])
    /\ UNCHANGED <<mixed, settled, ops>>

UnlinkMeta(w, works) ==
    /\ At(w, "unlinkMeta")
    /\ disk' = IF works THEN [disk EXCEPT ![work[w].key]["meta"] = Absent] ELSE disk
    /\ Removing(w, IF works THEN {"meta"} ELSE {}, Rest)
    /\ UNCHANGED <<mixed, settled, ops>>

\* retrieve: reads the data, then the sidecar, and compares.
ReadData(w, k) ==
    /\ At(w, "rest") /\ disk[k]["data"] # Absent /\ ops < MaxBlobOps
    /\ ops' = ops + 1
    /\ work' = [work EXCEPT ![w] = [at |-> "readMeta", key |-> k, data |-> disk[k]["data"],
                                    alone |-> FALSE, fd |-> "none"]]
    /\ UNCHANGED <<disk, mixed, settled>>

\* Mutant: any sidecar that can be read will do.
SidecarParses(w) == disk[work[w].key]["meta"] \in Bytes
ChecksumHolds(w) == disk[work[w].key]["meta"] \in Bytes \cap {work[w].data}

ReadMeta(w) ==
    /\ At(w, "readMeta")
    /\ mixed' = (mixed \/ (ChecksumHolds(w) /\ work[w].data = Torn))
    /\ Finish(w)
    /\ UNCHANGED <<disk, settled, ops>>

\* The process dies: every operation stops where it is.
Crash ==
    /\ \E w \in Workers : work[w] # Rest
    /\ work' = [w \in Workers |-> Rest]
    /\ UNCHANGED <<disk, mixed, settled, ops>>

BlobNext ==
    \/ \E w \in Workers, k \in Keys :
          \/ \E d \in Bytes : BeginStore(w, k, d)
          \/ \E from \in Keys : BeginCopy(w, from, k)
          \/ BeginDelete(w, k)
          \/ ReadData(w, k)
    \/ \E w \in Workers :
          \/ OpenTmp(w) \/ WriteTmp(w) \/ Rename(w) \/ WriteFails(w)
          \/ Unlink(w) \/ (\E works \in BOOLEAN : UnlinkMeta(w, works))
          \/ ReadMeta(w)
    \/ Crash

BlobSpec == BlobInit /\ [][BlobNext]_blobVars

-----------------------------------------------------------------------------
\* retrieve never hands out bytes that are not one caller's: whatever mixture
\* concurrent writers, failures or a crash left in the two files, the checksum
\* comparison turns it into an error.  And a store that ran alone and answered
\* Ok can be read back until the next operation on its key begins, whatever
\* had been left behind in the four files before it.
StoredBlobReadsBack ==
    /\ ~mixed
    /\ \A k \in Keys : settled[k] # Absent =>
          disk[k]["data"] = settled[k] /\ disk[k]["meta"] = settled[k]
=============================================================================
