----------------------------- MODULE DataProofs -----------------------------
(***************************************************************************)
(* Proofs about data at rest: the blobs, and the documents with their      *)
(* search index.                                                           *)
(***************************************************************************)
EXTENDS DataPlane, BlobStore, FiniteSetTheorems, TLAPS

(***************************************************************************)
(* A blob stored by nobody else at the time reads back, for any keys,      *)
(* bytes and workers of BlobStore. That rests on what an operation nobody  *)
(* has met relies on between its steps (OnTrack): its temporary file is    *)
(* still its own, and the data is in place before the sidecar.             *)
(***************************************************************************)

\* A mixture of two writers' bytes is not what either of them wrote.
BlobConstants == Torn \notin Bytes

Contents == Bytes \cup {Torn, Absent}

BlobStores ==
    [at : {"open", "write", "rename"}, file : {"data", "meta"}, key : Keys, data : Contents,
     sum : Contents, alone : BOOLEAN, fd : Files \cup {"none"}]
BlobDeletes == [at : {"unlink", "unlinkMeta"}, key : Keys, alone : BOOLEAN, fd : {"none"}]
BlobReads == [at : {"readMeta"}, key : Keys, data : Contents, alone : BOOLEAN, fd : {"none"}]

Writes(w) == work[w].at \notin {"rest", "readMeta"}

\* What an operation nobody has met relies on: the file it opened is still the
\* temporary one, what it wrote is still there, its data is in place before the
\* sidecar.
OnTrack(w) ==
    LET r == work[w]
    IN  r.at \in {"open", "write", "rename"} =>
          /\ r.at = "write" => r.fd = Tmp[r.file]
          /\ r.at = "rename" => disk[r.key][Tmp[r.file]] = Value(w)
          /\ r.file = "meta" => disk[r.key]["data"] = r.data

BlobTypes ==
    /\ disk \in [Keys -> [Files -> Contents]]
    /\ work \in [Workers -> {Rest} \cup BlobStores \cup BlobDeletes \cup BlobReads]
    /\ settled \in [Keys -> Contents]

BlobInv ==
    /\ BlobTypes
    /\ ~mixed
    /\ \A w \in Workers : Writes(w) /\ work[w].alone =>
          /\ \A v \in Workers \ {w} : Writes(v) => work[v].key # work[w].key
          /\ OnTrack(w)
    /\ \A k \in Keys : settled[k] # Absent =>
          /\ disk[k]["data"] = settled[k] /\ disk[k]["meta"] = settled[k]
          /\ \A w \in Workers : Writes(w) => work[w].key # k

-----------------------------------------------------------------------------
LEMMA WorkKinds ==
    ASSUME BlobInv, NEW w \in Workers
    PROVE  /\ work[w] = Rest \/ work[w] \in BlobStores \cup BlobDeletes \cup BlobReads
           /\ work[w] # Rest => work[w].key \in Keys /\ work[w].alone \in BOOLEAN
           /\ (work[w] = Rest <=> work[w].at = "rest")
           /\ work[w].at \in {"open", "write", "rename"} => work[w] \in BlobStores
           /\ work[w].at \in {"unlink", "unlinkMeta"} => work[w] \in BlobDeletes
           /\ work[w].at = "readMeta" => work[w] \in BlobReads
           /\ Writes(w) => work[w] # Rest
BY DEF BlobInv, BlobTypes, BlobStores, BlobDeletes, BlobReads, Rest, Writes

\* An operation stays on track while it rests and nobody touches its key.
LEMMA TrackKept ==
    ASSUME NEW w, work'[w] = work[w], disk'[work[w].key] = disk[work[w].key], OnTrack(w)
    PROVE  OnTrack(w)'
<1>1. Value(w)' = Value(w)
  BY ZenonT(60) DEF Value
<1> QED
  BY <1>1, ZenonT(60) DEF OnTrack

\* An operation may do what it likes to the files of its own key as long as it
\* keeps itself on track: whoever else works on that key is not alone.
LEMMA OwnKeyOnly ==
    ASSUME BlobInv, NEW w \in Workers, Writes(w), BlobTypes', UNCHANGED mixed,
           \A j \in Keys \ {work[w].key} : disk'[j] = disk[j] /\ settled'[j] = settled[j],
           \A v \in Workers \ {w} :
              /\ Writes(v)' => Writes(v)
              /\ Writes(v) => work'[v].key = work[v].key /\ work'[v].alone = work[v].alone
              /\ Writes(v) /\ work[v].key # work[w].key => work'[v] = work[v],
           Writes(w)' => /\ work'[w].key = work[w].key /\ work'[w].alone = work[w].alone
                         /\ work[w].alone => OnTrack(w)'
                         /\ settled'[work[w].key] = Absent,
           \/ settled'[work[w].key] = settled[work[w].key]
           \/ /\ settled'[work[w].key] = disk'[work[w].key]["data"]
              /\ settled'[work[w].key] = disk'[work[w].key]["meta"]
              /\ work[w].alone
    PROVE  BlobInv'
<1>1. PICK k \in Keys : k = work[w].key
  BY WorkKinds
<1>2. settled[k] = Absent
  BY <1>1 DEF BlobInv
<1>3. ASSUME NEW v \in Workers, Writes(v)', work'[v].alone
      PROVE  /\ \A u \in Workers \ {v} : Writes(u)' => work'[u].key # work'[v].key
             /\ OnTrack(v)'
  <2>1. Writes(v) /\ work[v].alone /\ work'[v].key = work[v].key
    BY <1>3
  <2>2. \A u \in Workers \ {v} : Writes(u) => work[u].key # work[v].key
    BY <2>1 DEF BlobInv
  <2>3. \A u \in Workers \ {v} : Writes(u)' => work'[u].key # work'[v].key
    BY <2>1, <2>2, SMTT(30), ZenonT(30)
  <2>4. CASE v = w
    BY <1>3, <2>1, <2>3, <2>4
  <2>5. CASE v # w
    <3>1. work[v].key # k /\ work[v].key \in Keys
      BY <1>1, <2>1, <2>2, <2>5, WorkKinds
    <3>2. work'[v] = work[v] /\ disk'[work[v].key] = disk[work[v].key]
      BY <1>1, <2>1, <2>5, <3>1
    <3>3. OnTrack(v)
      BY <2>1 DEF BlobInv
    <3> QED
      BY <2>3, <3>2, <3>3, TrackKept, ZenonT(60)
  <2> QED
    BY <2>4, <2>5
<1>4. ASSUME NEW j \in Keys, settled'[j] # Absent
      PROVE  /\ disk'[j]["data"] = settled'[j] /\ disk'[j]["meta"] = settled'[j]
             /\ \A v \in Workers : Writes(v)' => work'[v].key # j
  <2>1. CASE j = k
    <3>1. settled'[k] = disk'[k]["data"] /\ settled'[k] = disk'[k]["meta"] /\ work[w].alone
      BY <1>1, <1>2, <1>4, <2>1
    <3>2. \A v \in Workers \ {w} : Writes(v) => work[v].key # k
      BY <1>1, <3>1 DEF BlobInv
    <3> QED
      BY <1>1, <1>4, <2>1, <3>1, <3>2, ZenonT(60)
  <2>2. CASE j # k
    <3>1. settled[j] # Absent /\ disk'[j] = disk[j] /\ settled'[j] = settled[j]
      BY <1>1, <1>4, <2>2
    <3>2. /\ disk[j]["data"] = settled[j] /\ disk[j]["meta"] = settled[j]
          /\ \A v \in Workers : Writes(v) => work[v].key # j
      BY <3>1 DEF BlobInv
    <3> QED
      BY <1>1, <2>2, <3>1, <3>2
  <2> QED
    BY <2>1, <2>2
<1> QED
  BY <1>3, <1>4 DEF BlobInv

LEMMA BeginKeeps ==
    ASSUME BlobInv, NEW w \in Workers, NEW r \in BlobStores \cup BlobDeletes,
           r.alone = Uncontested(r.key), r.at \in {"open", "unlink"},
           r.at = "open" => r.file = "data",
           BeginOp(w, r)
    PROVE  BlobInv'
<1>1. /\ work' = [v \in Workers |-> IF v = w THEN r
                    ELSE IF Busy(v, r.key) THEN [work[v] EXCEPT !.alone = FALSE] ELSE work[v]]
      /\ settled' = [settled EXCEPT ![r.key] = Absent] /\ UNCHANGED <<disk, mixed>>
  BY DEF BeginOp
<1>2. r.key \in Keys
  BY DEF BlobStores, BlobDeletes
<1>3. ASSUME NEW v \in Workers \ {w}
      PROVE  /\ work'[v] = IF Busy(v, r.key) THEN [work[v] EXCEPT !.alone = FALSE] ELSE work[v]
             /\ work'[v] \in {Rest} \cup BlobStores \cup BlobDeletes \cup BlobReads
             /\ (Writes(v)' <=> Writes(v))
             /\ Writes(v) => work'[v].key = work[v].key
             /\ Writes(v) /\ work[v].key = r.key => ~work'[v].alone
             /\ Writes(v) /\ work[v].key # r.key => work'[v] = work[v]
  <2>1. work'[v] = IF Busy(v, r.key) THEN [work[v] EXCEPT !.alone = FALSE] ELSE work[v]
    BY <1>1
  <2>2. CASE Busy(v, r.key)
    <3>1. work'[v] = [work[v] EXCEPT !.alone = FALSE] /\ work[v] # Rest /\ work[v].key = r.key
      BY <2>1, <2>2 DEF Busy
    <3>2. CASE work[v] \in BlobStores
      BY <2>1, <3>1, <3>2, ZenonT(60) DEF BlobStores, Writes
    <3>3. CASE work[v] \in BlobDeletes
      BY <2>1, <3>1, <3>3, ZenonT(60) DEF BlobDeletes, Writes
    <3>4. CASE work[v] \in BlobReads
      BY <2>1, <3>1, <3>4, ZenonT(60) DEF BlobReads, Writes
    <3> QED
      BY <3>1, <3>2, <3>3, <3>4, WorkKinds
  <2>3. CASE ~Busy(v, r.key)
    BY <2>1, <2>3, WorkKinds DEF Writes, Busy
  <2> QED
    BY <2>1, <2>2, <2>3
<1>4. work'[w] = r
  BY <1>1
<1>5. BlobTypes'
  <2>1. work' \in [Workers -> {Rest} \cup BlobStores \cup BlobDeletes \cup BlobReads]
    BY <1>1, <1>3, <1>4
  <2> QED
    BY <1>1, <2>1, ZenonT(60) DEF BlobInv, BlobTypes, Contents
<1>6. ASSUME NEW v \in Workers, Writes(v)', work'[v].alone
      PROVE  /\ \A u \in Workers \ {v} : Writes(u)' => work'[u].key # work'[v].key
             /\ OnTrack(v)'
  <2>1. CASE v = w
    <3>1. \A u \in Workers : ~Busy(u, r.key)
      BY <1>4, <1>6, <2>1, ZenonT(60) DEF Uncontested
    <3>2. \A u \in Workers \ {w} : Writes(u) => work[u].key # r.key
      BY <3>1, WorkKinds DEF Busy
    <3> QED
      BY <1>3, <1>4, <2>1, <3>2, ZenonT(60) DEF OnTrack
  <2>2. CASE v # w
    <3>1. Writes(v) /\ work[v].key # r.key /\ work'[v] = work[v]
      BY <1>3, <1>6, <2>2, ZenonT(60)
    <3>2. OnTrack(v) /\ \A u \in Workers \ {v} : Writes(u) => work[u].key # work[v].key
      BY <1>6, <3>1 DEF BlobInv
    <3> QED
      BY <1>1, <1>3, <1>4, <2>2, <3>1, <3>2, ZenonT(60) DEF OnTrack, Value
  <2> QED
    BY <2>1, <2>2
<1>7. ASSUME NEW j \in Keys, settled'[j] # Absent
      PROVE  /\ disk'[j]["data"] = settled'[j] /\ disk'[j]["meta"] = settled'[j]
             /\ \A v \in Workers : Writes(v)' => work'[v].key # j
  <2>1. j # r.key /\ settled[j] # Absent /\ settled'[j] = settled[j]
    BY <1>1, <1>2, <1>7 DEF BlobInv, BlobTypes
  <2>2. /\ disk[j]["data"] = settled[j] /\ disk[j]["meta"] = settled[j]
        /\ \A v \in Workers : Writes(v) => work[v].key # j
    BY <2>1 DEF BlobInv
  <2>3. ASSUME NEW v \in Workers, Writes(v)' PROVE work'[v].key # j
    BY <1>3, <1>4, <2>1, <2>2, <2>3, ZenonT(60)
  <2> QED
    BY <1>1, <2>1, <2>2, <2>3
<1> QED
  BY <1>1, <1>5, <1>6, <1>7 DEF BlobInv

LEMMA TmpFiles ==
    /\ \A f \in {"data", "meta"} : Tmp[f] \in Files /\ Tmp[f] # "data" /\ Tmp[f] # "meta" /\ f \in Files
    /\ "data" \in Files /\ "meta" \in Files
BY DEF Tmp, Files

LEMMA OpenKeeps ==
    ASSUME BlobInv, NEW w \in Workers, OpenTmp(w)
    PROVE  BlobInv'
<1>1. PICK k \in Keys, f \in {"data", "meta"} : k = work[w].key /\ f = work[w].file
  BY WorkKinds DEF OpenTmp, At, BlobStores
<1>2. /\ work[w].at = "open" /\ work[w] \in BlobStores
      /\ work' = [work EXCEPT ![w] = [work[w] EXCEPT !.at = "write", !.fd = Tmp[f]]]
      /\ disk' = [disk EXCEPT ![k] = [disk[k] EXCEPT ![Tmp[f]] = Torn]]
      /\ UNCHANGED <<mixed, settled>>
  BY <1>1, WorkKinds, ZenonT(60) DEF OpenTmp, At, Put, BlobInv, BlobTypes
<1>3. /\ work'[w] \in BlobStores /\ work'[w].at = "write" /\ work'[w].fd = Tmp[f]
      /\ work'[w].file = f /\ work'[w].key = k /\ work'[w].data = work[w].data
      /\ work'[w].alone = work[w].alone
  BY <1>1, <1>2, TmpFiles, ZenonT(60) DEF BlobInv, BlobTypes, BlobStores
<1>4. /\ \A v \in Workers \ {w} : work'[v] = work[v]
      /\ \A j \in Keys \ {k} : disk'[j] = disk[j]
      /\ disk'[k]["data"] = disk[k]["data"]
  BY <1>1, <1>2, TmpFiles DEF BlobInv, BlobTypes
<1>5. BlobTypes'
  <2>1. disk' \in [Keys -> [Files -> Contents]]
    BY <1>2, TmpFiles DEF BlobInv, BlobTypes, Contents
  <2>2. work' \in [Workers -> {Rest} \cup BlobStores \cup BlobDeletes \cup BlobReads]
    BY <1>2, <1>3 DEF BlobInv, BlobTypes
  <2> QED
    BY <1>2, <2>1, <2>2 DEF BlobInv, BlobTypes
<1>6. Writes(w) /\ Writes(w)' /\ settled[k] = Absent
  BY <1>1, <1>2, <1>3 DEF Writes, BlobInv
<1>7. ASSUME work[w].alone PROVE OnTrack(w)'
  <2>1. OnTrack(w)
    BY <1>6, <1>7 DEF BlobInv
  <2> QED
    BY <1>1, <1>2, <1>3, <1>4, <2>1 DEF OnTrack
<1> QED
  BY <1>1, <1>2, <1>3, <1>4, <1>5, <1>6, <1>7, OwnKeyOnly DEF Writes

LEMMA WriteKeeps ==
    ASSUME BlobInv, NEW w \in Workers, WriteTmp(w)
    PROVE  BlobInv'
<1>1. PICK k \in Keys, f \in {"data", "meta"} : k = work[w].key /\ f = work[w].file
  BY WorkKinds DEF WriteTmp, At, BlobStores
<1>2. PICK x \in Contents :
        /\ work[w].alone => x = Value(w)
        /\ disk' = IF work[w].fd = "none" THEN disk
                   ELSE [disk EXCEPT ![k] = [disk[k] EXCEPT ![work[w].fd] = x]]
  <2>1. PICK x \in {Value(w)} \cup IF work[w].alone THEN {} ELSE {Torn} :
          disk' = IF work[w].fd = "none" THEN disk
                  ELSE [disk EXCEPT ![work[w].key][work[w].fd] = x]
    BY ZenonT(60) DEF WriteTmp
  <2>2. Value(w) \in Contents /\ Torn \in Contents
    BY WorkKinds DEF WriteTmp, At, Value, Contents, BlobStores
  <2>3. x \in Contents /\ (work[w].alone => x = Value(w))
    BY <2>1, <2>2
  <2>4. disk' = IF work[w].fd = "none" THEN disk
                ELSE [disk EXCEPT ![k] = [disk[k] EXCEPT ![work[w].fd] = x]]
    BY <1>1, <2>1 DEF BlobInv, BlobTypes
  <2> QED
    BY <2>3, <2>4
<1>3. /\ work[w].at = "write" /\ work[w] \in BlobStores
      /\ work' = [work EXCEPT ![w] = [work[w] EXCEPT !.at = "rename", !.fd = "none"]]
      /\ UNCHANGED <<mixed, settled>>
  BY WorkKinds, ZenonT(60) DEF WriteTmp, At, BlobInv, BlobTypes
<1>4. /\ work'[w] \in BlobStores /\ work'[w].at = "rename"
      /\ work'[w].file = f /\ work'[w].key = k /\ work'[w].data = work[w].data
      /\ work'[w].sum = work[w].sum /\ work'[w].alone = work[w].alone
  BY <1>1, <1>3, TmpFiles, ZenonT(60) DEF BlobInv, BlobTypes, BlobStores
<1>5. /\ \A v \in Workers \ {w} : work'[v] = work[v]
      /\ \A j \in Keys \ {k} : disk'[j] = disk[j]
  BY <1>2, <1>3 DEF BlobInv, BlobTypes
<1>6. BlobTypes'
  <2>1. disk' \in [Keys -> [Files -> Contents]]
    BY <1>2, <1>3 DEF BlobInv, BlobTypes, BlobStores
  <2>2. work' \in [Workers -> {Rest} \cup BlobStores \cup BlobDeletes \cup BlobReads]
    BY <1>3, <1>4 DEF BlobInv, BlobTypes
  <2> QED
    BY <1>3, <2>1, <2>2 DEF BlobInv, BlobTypes
<1>7. Writes(w) /\ Writes(w)' /\ settled[k] = Absent
  BY <1>1, <1>3, <1>4 DEF Writes, BlobInv
<1>8. ASSUME work[w].alone PROVE OnTrack(w)'
  <2>1. work[w].fd = Tmp[f] /\ (f = "meta" => disk[k]["data"] = work[w].data)
    BY <1>1, <1>3, <1>7, <1>8 DEF BlobInv, OnTrack
  <2>2. disk'[k][Tmp[f]] = Value(w) /\ disk'[k]["data"] = disk[k]["data"]
    <3>1. Tmp[f] # "none" /\ Tmp[f] # "data" /\ Tmp[f] \in Files
      BY TmpFiles DEF Files
    <3>2. disk' = [disk EXCEPT ![k] = [disk[k] EXCEPT ![Tmp[f]] = x]] /\ x = Value(w)
      BY <1>2, <1>8, <2>1, <3>1
    <3> QED
      BY <3>1, <3>2 DEF BlobInv, BlobTypes
  <2>3. Value(w)' = Value(w)
    BY <1>1, <1>4 DEF Value
  <2> QED
    BY <1>4, <2>1, <2>2, <2>3 DEF OnTrack
<1> QED
  BY <1>1, <1>3, <1>4, <1>5, <1>6, <1>7, <1>8, OwnKeyOnly DEF Writes

\* What renaming and removing files do to the other operations.
LEMMA OthersKeepGoing ==
    ASSUME BlobInv, NEW v \in Workers, NEW x \in {"data", "meta", "none"}, NEW y,
           \/ y = work[v]
           \/ work[v] # Rest /\ work[v].fd # "none" /\ y = [work[v] EXCEPT !.fd = x]
    PROVE  /\ y \in {Rest} \cup BlobStores \cup BlobDeletes \cup BlobReads
           /\ y.at = work[v].at
           /\ Writes(v) => y.key = work[v].key /\ y.alone = work[v].alone
<1>1. CASE y = work[v]
  BY <1>1, WorkKinds
<1>2. CASE work[v] # Rest /\ work[v].fd # "none" /\ y = [work[v] EXCEPT !.fd = x]
  <2>1. work[v] \in BlobStores
    BY <1>2, WorkKinds DEF BlobDeletes, BlobReads
  <2> QED
    BY <1>2, <2>1 DEF BlobStores, Files
<1> QED
  BY <1>1, <1>2

LEMMA RemovingOthers ==
    ASSUME BlobInv, NEW w \in Workers, Writes(w), NEW files \in SUBSET Files,
           NEW r \in {Rest} \cup BlobDeletes, Removing(w, files, r)
    PROVE  /\ work'[w] = r
           /\ work' \in [Workers -> {Rest} \cup BlobStores \cup BlobDeletes \cup BlobReads]
           /\ \A v \in Workers \ {w} :
                 /\ work'[v].at = work[v].at
                 /\ Writes(v) => work'[v].key = work[v].key /\ work'[v].alone = work[v].alone
                 /\ Writes(v) /\ work[v].key # work[w].key => work'[v] = work[v]
<1>1. work' = [v \in Workers |->
               IF v = w THEN r
               ELSE IF Busy(v, work[w].key) /\ work[v].fd \in files
                    THEN [work[v] EXCEPT !.fd = "none"] ELSE work[v]]
  BY DEF Removing
<1>2. ASSUME NEW v \in Workers \ {w}
      PROVE  /\ work'[v] \in {Rest} \cup BlobStores \cup BlobDeletes \cup BlobReads
             /\ work'[v].at = work[v].at
             /\ Writes(v) => work'[v].key = work[v].key /\ work'[v].alone = work[v].alone
             /\ Writes(v) /\ work[v].key # work[w].key => work'[v] = work[v]
  <2>1. \/ work'[v] = work[v]
        \/ /\ work[v] # Rest /\ work[v].fd # "none" /\ work[v].key = work[w].key
           /\ work'[v] = [work[v] EXCEPT !.fd = "none"]
    BY <1>1 DEF Busy, Files
  <2> QED
    BY <2>1, OthersKeepGoing
<1>3. work'[w] = r
  BY <1>1
<1> QED
  BY <1>1, <1>2, <1>3

LEMMA RenameKeeps ==
    ASSUME BlobInv, NEW w \in Workers, Rename(w)
    PROVE  BlobInv'
<1>1. PICK k \in Keys, f \in {"data", "meta"} : k = work[w].key /\ f = work[w].file
  BY WorkKinds DEF Rename, At, BlobStores
<1>2. work[w].at = "rename" /\ work[w] \in BlobStores /\ UNCHANGED mixed
  BY WorkKinds DEF Rename, At
<1>3. disk' = [disk EXCEPT ![k][f] = disk[k][Tmp[f]], ![k][Tmp[f]] = Absent]
  BY <1>1 DEF Rename
<1>4. /\ \A j \in Keys \ {k} : disk'[j] = disk[j]
      /\ disk'[k][f] = disk[k][Tmp[f]]
      /\ f # "data" => disk'[k]["data"] = disk[k]["data"]
      /\ disk' \in [Keys -> [Files -> Contents]]
  BY <1>3, TmpFiles DEF BlobInv, BlobTypes, Contents
<1>5. /\ work' \in [Workers -> {Rest} \cup BlobStores \cup BlobDeletes \cup BlobReads]
      /\ work'[w] = IF f = "data" THEN [work[w] EXCEPT !.at = "open", !.file = "meta", !.fd = "none"]
                    ELSE Rest
      /\ \A v \in Workers \ {w} :
            /\ work'[v].at = work[v].at
            /\ Writes(v) => work'[v].key = work[v].key /\ work'[v].alone = work[v].alone
            /\ Writes(v) /\ work[v].key # k => work'[v] = work[v]
  <2>1. work' = [v \in Workers |->
                   IF v # w THEN Carried(w, v)
                   ELSE IF f = "data" THEN [work[w] EXCEPT !.at = "open", !.file = "meta", !.fd = "none"]
                   ELSE Rest]
    BY <1>1 DEF Rename
  <2>2. work'[w] = IF f = "data" THEN [work[w] EXCEPT !.at = "open", !.file = "meta", !.fd = "none"]
                   ELSE Rest
    BY <2>1
  <2>3. work'[w] \in {Rest} \cup BlobStores
    BY <1>2, <2>2, ZenonT(60) DEF BlobStores
  <2>4. ASSUME NEW v \in Workers \ {w}
        PROVE  /\ work'[v] \in {Rest} \cup BlobStores \cup BlobDeletes \cup BlobReads
               /\ work'[v].at = work[v].at
               /\ Writes(v) => work'[v].key = work[v].key /\ work'[v].alone = work[v].alone
               /\ Writes(v) /\ work[v].key # k => work'[v] = work[v]
    <3>1. work'[v] = Carried(w, v)
      BY <2>1
    <3>2. \/ work'[v] = work[v]
          \/ /\ work[v] # Rest /\ work[v].fd # "none" /\ work[v].key = k
             /\ \/ work'[v] = [work[v] EXCEPT !.fd = f]
                \/ work'[v] = [work[v] EXCEPT !.fd = "none"]
      BY <1>1, <3>1, TmpFiles DEF Carried, Files
    <3> QED
      BY <3>2, OthersKeepGoing
  <2> QED
    BY <2>1, <2>2, <2>3, <2>4
<1>6. settled' = IF f = "meta" /\ work[w].alone /\ work[w].data = work[w].sum
                 THEN [settled EXCEPT ![k] = work[w].data] ELSE settled
  BY <1>1 DEF Rename
<1>7. BlobTypes' /\ \A j \in Keys \ {k} : settled'[j] = settled[j]
  BY <1>2, <1>4, <1>5, <1>6 DEF BlobInv, BlobTypes, BlobStores
<1>8. Writes(w) /\ settled[k] = Absent
  BY <1>1, <1>2 DEF Writes, BlobInv
<1>9. work[w].alone => disk[k][Tmp[f]] = Value(w) /\ (f = "meta" => disk[k]["data"] = work[w].data)
  BY <1>1, <1>2, <1>8 DEF BlobInv, OnTrack
<1>10. CASE f = "data"
  <2>1. /\ work'[w].at = "open" /\ work'[w].file = "meta" /\ work'[w].key = k
        /\ work'[w].alone = work[w].alone /\ work'[w].data = work[w].data
    BY <1>1, <1>2, <1>5, <1>10 DEF BlobStores
  <2>2. work[w].alone => OnTrack(w)'
    BY <1>1, <1>4, <1>9, <1>10, <2>1 DEF OnTrack, Value
  <2>3. settled' = settled
    BY <1>6, <1>10
  <2> QED
    BY <1>1, <1>2, <1>4, <1>5, <1>7, <1>8, <2>1, <2>2, <2>3, OwnKeyOnly, ZenonT(60) DEF Writes
<1>11. CASE f = "meta"
  <2>1. ~Writes(w)'
    BY <1>5, <1>11 DEF Writes, Rest
  <2>2. \/ settled'[k] = settled[k]
        \/ /\ settled'[k] = disk'[k]["data"] /\ settled'[k] = disk'[k]["meta"]
           /\ work[w].alone
    <3>1. CASE work[w].alone /\ work[w].data = work[w].sum
      <4>1. settled'[k] = work[w].data
        BY <1>6, <1>11, <3>1 DEF BlobInv, BlobTypes
      <4>2. Value(w) = work[w].sum
        BY <1>1, <1>11 DEF Value
      <4> QED
        BY <1>4, <1>9, <1>11, <3>1, <4>1, <4>2
    <3> QED
      BY <1>6, <3>1
  <2> QED
    BY <1>1, <1>2, <1>4, <1>5, <1>7, <1>8, <2>1, <2>2, OwnKeyOnly, ZenonT(60) DEF Writes
<1> QED
  BY <1>10, <1>11

\* An operation that ends, or that removes files, without having stored.
LEMMA EndKeeps ==
    ASSUME BlobInv, NEW w \in Workers, Writes(w), NEW files \in SUBSET Files, NEW r,
           Removing(w, files, r),
           r = Rest \/ (r = [work[w] EXCEPT !.at = "unlinkMeta"] /\ At(w, "unlink")),
           disk' \in [Keys -> [Files -> Contents]],
           \A j \in Keys \ {work[w].key} : disk'[j] = disk[j],
           UNCHANGED <<mixed, settled>>
    PROVE  BlobInv'
<1>1. /\ r \in {Rest} \cup BlobDeletes
      /\ r # Rest => r.at = "unlinkMeta" /\ r.key = work[w].key /\ r.alone = work[w].alone
  <2>1. CASE r # Rest
    <3>1. work[w] \in BlobDeletes /\ r = [work[w] EXCEPT !.at = "unlinkMeta"]
      BY <2>1, WorkKinds DEF At
    <3> QED
      BY <3>1 DEF BlobDeletes
  <2> QED
    BY <2>1
<1>2. /\ work'[w] = r
      /\ work' \in [Workers -> {Rest} \cup BlobStores \cup BlobDeletes \cup BlobReads]
      /\ \A v \in Workers \ {w} :
            /\ work'[v].at = work[v].at
            /\ Writes(v) => work'[v].key = work[v].key /\ work'[v].alone = work[v].alone
            /\ Writes(v) /\ work[v].key # work[w].key => work'[v] = work[v]
  BY <1>1, RemovingOthers, ZenonT(60)
<1>3. BlobTypes'
  BY <1>2 DEF BlobInv, BlobTypes
<1>4. settled[work[w].key] = Absent
  BY WorkKinds DEF BlobInv
<1>5. Writes(w)' => /\ work'[w].key = work[w].key /\ work'[w].alone = work[w].alone
                    /\ OnTrack(w)'
  BY <1>1, <1>2 DEF Writes, Rest, OnTrack
<1> QED
  BY <1>2, <1>3, <1>4, <1>5, OwnKeyOnly DEF Writes

LEMMA BlobNextInv ==
    ASSUME BlobConstants
    PROVE  BlobInv /\ [BlobNext]_blobVars => BlobInv'
<1> SUFFICES ASSUME BlobInv, [BlobNext]_blobVars PROVE BlobInv'
  OBVIOUS
<1>1. ASSUME NEW w \in Workers, NEW k \in Keys, NEW d \in Bytes, BeginStore(w, k, d)
      PROVE  BlobInv'
  <2>1. PICK r : r = [at |-> "open", file |-> "data", key |-> k, data |-> d, sum |-> d,
                      alone |-> Uncontested(k), fd |-> "none"]
    BY ZenonT(60)
  <2>2. Uncontested(k) \in BOOLEAN
    BY DEF Uncontested
  <2>3. r \in BlobStores /\ r.key = k /\ r.alone = Uncontested(k) /\ r.at = "open" /\ r.file = "data"
    BY <2>1, <2>2 DEF BlobStores, Contents
  <2>4. BeginOp(w, r)
    BY <1>1, <2>1 DEF BeginStore
  <2> QED
    BY <2>3, <2>4, BeginKeeps
<1>2. ASSUME NEW w \in Workers, NEW k \in Keys, NEW from \in Keys, BeginCopy(w, from, k)
      PROVE  BlobInv'
  <2>1. PICK r : r = [at |-> "open", file |-> "data", key |-> k, data |-> disk[from]["data"],
                      sum |-> disk[from]["meta"], alone |-> Uncontested(k), fd |-> "none"]
    BY ZenonT(60)
  <2>2. /\ Uncontested(k) \in BOOLEAN
        /\ disk[from]["data"] \in Contents /\ disk[from]["meta"] \in Contents
    BY TmpFiles DEF Uncontested, BlobInv, BlobTypes
  <2>3. r \in BlobStores /\ r.key = k /\ r.alone = Uncontested(k) /\ r.at = "open" /\ r.file = "data"
    BY <2>1, <2>2 DEF BlobStores
  <2>4. BeginOp(w, r)
    BY <1>2, <2>1 DEF BeginCopy
  <2> QED
    BY <2>3, <2>4, BeginKeeps
<1>3. ASSUME NEW w \in Workers, NEW k \in Keys, BeginDelete(w, k)
      PROVE  BlobInv'
  <2>1. PICK r : r = [at |-> "unlink", key |-> k, alone |-> Uncontested(k), fd |-> "none"]
    BY ZenonT(60)
  <2>2. Uncontested(k) \in BOOLEAN
    BY DEF Uncontested
  <2>3. r \in BlobDeletes /\ r.key = k /\ r.alone = Uncontested(k) /\ r.at = "unlink"
    BY <2>1, <2>2 DEF BlobDeletes
  <2>4. BeginOp(w, r)
    BY <1>3, <2>1 DEF BeginDelete
  <2> QED
    BY <2>3, <2>4, BeginKeeps
<1>4. ASSUME NEW w \in Workers, work[w] = Rest \/ work[w].at = "readMeta",
             NEW r \in {Rest} \cup BlobReads, work' = [work EXCEPT ![w] = r],
             UNCHANGED <<disk, settled>>, ~mixed'
      PROVE  BlobInv'
  <2>1. BlobTypes'
    BY <1>4 DEF BlobInv, BlobTypes
  <2>2. ASSUME NEW v \in Workers
        PROVE  (Writes(v)' <=> Writes(v)) /\ (Writes(v) => work'[v] = work[v])
    <3>1. work'[v] = IF v = w THEN r ELSE work[v]
      BY <1>4 DEF BlobInv, BlobTypes
    <3>2. Rest.at = "rest"
      BY DEF Rest
    <3>3. r.at \in {"rest", "readMeta"}
      BY <3>2, ZenonT(60) DEF BlobReads
    <3>4. work[w].at \in {"rest", "readMeta"}
      BY <1>4, <3>2, ZenonT(60)
    <3> QED
      BY <3>1, <3>3, <3>4, ZenonT(60) DEF Writes
  <2>3. \A v \in Workers : Writes(v) /\ OnTrack(v) => OnTrack(v)'
    BY <1>4, <2>2, TrackKept, ZenonT(60)
  <2>4. ASSUME NEW v \in Workers, Writes(v)', work'[v].alone
        PROVE  /\ \A u \in Workers \ {v} : Writes(u)' => work'[u].key # work'[v].key
               /\ OnTrack(v)'
    <3>1. Writes(v) /\ work'[v] = work[v] /\ work[v].alone
      BY <2>2, <2>4
    <3>2. OnTrack(v) /\ \A u \in Workers \ {v} : Writes(u) => work[u].key # work[v].key
      BY <3>1, ZenonT(60) DEF BlobInv
    <3> QED
      BY <2>2, <2>3, <3>1, <3>2, ZenonT(60)
  <2>5. ASSUME NEW k \in Keys, settled'[k] # Absent
        PROVE  /\ disk'[k]["data"] = settled'[k] /\ disk'[k]["meta"] = settled'[k]
               /\ \A v \in Workers : Writes(v)' => work'[v].key # k
    <3>1. settled' = settled /\ disk' = disk
      BY <1>4
    <3>2. /\ disk[k]["data"] = settled[k] /\ disk[k]["meta"] = settled[k]
          /\ \A v \in Workers : Writes(v) => work[v].key # k
      BY <2>5, <3>1, ZenonT(60) DEF BlobInv
    <3> QED
      BY <2>2, <3>1, <3>2, ZenonT(60)
  <2> QED
    BY <1>4, <2>1, <2>4, <2>5, ZenonT(60) DEF BlobInv
<1>5. ASSUME NEW w \in Workers, NEW k \in Keys, ReadData(w, k) PROVE BlobInv'
  <2>1. PICK r : r = [at |-> "readMeta", key |-> k, data |-> disk[k]["data"],
                      alone |-> FALSE, fd |-> "none"]
    BY ZenonT(60)
  <2>2. r \in BlobReads
    BY <2>1, TmpFiles DEF BlobReads, BlobInv, BlobTypes
  <2>3. work[w] = Rest /\ work' = [work EXCEPT ![w] = r] /\ UNCHANGED <<disk, settled, mixed>>
    BY <1>5, <2>1, WorkKinds DEF ReadData, At
  <2> QED
    BY <1>4, <2>2, <2>3, ZenonT(60) DEF BlobInv
<1>6. ASSUME NEW w \in Workers, ReadMeta(w) PROVE BlobInv'
  <2>1. ~(ChecksumHolds(w) /\ work[w].data = Torn)
    BY DEF ChecksumHolds, BlobConstants
  <2>2. ~mixed'
    BY <1>6, <2>1, ZenonT(60) DEF ReadMeta, BlobInv
  <2> QED
    BY <1>4, <1>6, <2>2, ZenonT(60) DEF ReadMeta, Finish, At
<1>7. ASSUME NEW w \in Workers, WriteFails(w) PROVE BlobInv'
  <2>1. Writes(w) /\ work[w] \in BlobStores
    BY <1>7, WorkKinds DEF WriteFails, At, Writes
  <2>2. PICK files : files = (IF work[w].file = "meta" THEN {"data"} ELSE {})
                   \cup (IF At(w, "rename") THEN {Tmp[work[w].file]} ELSE {})
    BY ZenonT(60)
  <2>3. files \in SUBSET Files /\ Removing(w, files, Rest)
    BY <1>7, <2>1, <2>2, TmpFiles DEF WriteFails, BlobStores
  <2>4. PICK k \in Keys, f \in {"data", "meta"} : k = work[w].key /\ f = work[w].file
    BY <2>1 DEF BlobStores
  <2>5. disk' = [disk EXCEPT ![k]["data"] = IF f = "meta" THEN Absent ELSE @,
                             ![k][Tmp[f]] = IF At(w, "rename") THEN Absent ELSE @]
    BY <1>7, <2>4 DEF WriteFails
  <2>6. disk' \in [Keys -> [Files -> Contents]] /\ \A j \in Keys \ {k} : disk'[j] = disk[j]
    <3>1. PICK a, b : /\ a = IF f = "meta" THEN Absent ELSE disk[k]["data"]
                      /\ b = IF At(w, "rename") THEN Absent ELSE disk[k][Tmp[f]]
      OBVIOUS
    <3>2. a \in Contents /\ b \in Contents
      BY <3>1, TmpFiles DEF BlobInv, BlobTypes, Contents
    <3>3. disk' = [disk EXCEPT ![k] = [disk[k] EXCEPT !["data"] = a, ![Tmp[f]] = b]]
      BY <2>5, <3>1, TmpFiles, ZenonT(60) DEF BlobInv, BlobTypes
    <3> QED
      BY <3>2, <3>3, TmpFiles DEF BlobInv, BlobTypes
  <2> QED
    BY <1>7, <2>1, <2>3, <2>4, <2>6, EndKeeps, ZenonT(60) DEF WriteFails
<1>8. ASSUME NEW w \in Workers, Unlink(w) PROVE BlobInv'
  <2>1. Writes(w) /\ work[w] \in BlobDeletes
    BY <1>8, WorkKinds DEF Unlink, At, Writes
  <2>2. disk' \in [Keys -> [Files -> Contents]] /\ \A j \in Keys \ {work[w].key} : disk'[j] = disk[j]
    BY <1>8, <2>1, TmpFiles DEF Unlink, Put, BlobInv, BlobTypes, BlobDeletes, Contents
  <2>3. {"data"} \in SUBSET Files
    BY TmpFiles
  <2> QED
    BY <1>8, <2>1, <2>2, <2>3, EndKeeps DEF Unlink
<1>9. ASSUME NEW w \in Workers, NEW works \in BOOLEAN, UnlinkMeta(w, works) PROVE BlobInv'
  <2>1. Writes(w) /\ work[w] \in BlobDeletes
    BY <1>9, WorkKinds DEF UnlinkMeta, At, Writes
  <2>2. disk' \in [Keys -> [Files -> Contents]] /\ \A j \in Keys \ {work[w].key} : disk'[j] = disk[j]
    BY <1>9, <2>1, TmpFiles DEF UnlinkMeta, BlobInv, BlobTypes, BlobDeletes, Contents
  <2>3. PICK files \in SUBSET Files : files = IF works THEN {"meta"} ELSE {}
    BY TmpFiles, ZenonT(60)
  <2>4. Removing(w, files, Rest) /\ UNCHANGED <<mixed, settled>>
    BY <1>9, <2>3 DEF UnlinkMeta
  <2> QED
    BY <2>1, <2>2, <2>4, EndKeeps
<1>10. CASE Crash
  BY <1>10 DEF Crash, BlobInv, BlobTypes, Writes, Rest
<1>11. CASE UNCHANGED blobVars
  BY <1>11 DEF blobVars, BlobInv, BlobTypes, Writes, OnTrack, Value
<1> QED
  BY <1>1, <1>2, <1>3, <1>5, <1>6, <1>7, <1>8, <1>9, <1>10, <1>11,
     OpenKeeps, WriteKeeps, RenameKeeps DEF BlobNext

\* No answer of retrieve mixes the bytes of two callers, and a store that ran alone and
\* answered Ok reads back until the next store, copy or delete of its key begins: for
\* any number of keys, contents and worker threads, whatever failed writes and crashes
\* left in the temporary files.
THEOREM LoneStoresReadBack ==
    ASSUME BlobConstants
    PROVE  BlobSpec => []StoredBlobReadsBack
<1>1. BlobInit => BlobInv
  BY DEF BlobInit, BlobInv, BlobTypes, Contents, Writes, Rest
<1>2. BlobInv => StoredBlobReadsBack
  BY DEF BlobInv, StoredBlobReadsBack
<1> QED
  BY <1>1, <1>2, BlobNextInv, PTL DEF BlobSpec

-----------------------------------------------------------------------------
(***************************************************************************)
(* Proofs, for any records, clients, channel capacity and commit           *)
(* threshold, of the safety properties of DataPlane.                       *)
(*                                                                         *)
(* The table's invariant is about writes alone.  That searches never find  *)
(* two versions of a record rests on the processor's order: between        *)
(* `remove` and `index_record` the record it is about to index is in no    *)
(* index (SearchInv), and only one record is in that state at a time.      *)
(***************************************************************************)

TableRows == [version : Nat, data : {0}]

TableInv ==
    /\ table \in [Ids -> TableRows]
    /\ writes \in [Ids -> Nat]
    /\ VersionCountsWrites

Indexed == committed \cup buffered

SearchInv ==
    /\ pending \in Nat
    /\ IsFiniteSet(buffered) /\ Cardinality(buffered) <= pending
    /\ \A d, e \in Indexed : d.id = e.id => d = e
    /\ indexing # NoDoc => \A d \in Indexed : d.id # indexing.id

-----------------------------------------------------------------------------
(* The table *)

\* The table is empty and nothing was written.
LEMMA TableInitInv == Init => TableInv
BY DEF Init, TableInv, TableRows, VersionCountsWrites, NoRow, Row, Exists

\* Every step keeps the count: an accepted update is one write on top of the
\* version it names, and a deleted record is not created again.
LEMMA TableNextInv == TableInv /\ [Next]_vars => TableInv'
<1> SUFFICES ASSUME TableInv, [Next]_vars PROVE TableInv'
  OBVIOUS
<1> USE DEF TableInv, TableRows, VersionCountsWrites, Exists, NoRow, Row
<1>1. ASSUME NEW c \in Clients, NEW id \in Ids, CreateRecord(c, id) PROVE TableInv'
  BY <1>1 DEF CreateRecord, CanCreate, Created
<1>2. ASSUME NEW c \in Clients, NEW id \in Ids, NEW version \in 1 .. MaxVersion,
             UpdateRecord(c, id, version)
      PROVE  TableInv'
  <2>1. /\ table[id].version = version /\ writes[id] = version
        /\ table' = [table EXCEPT ![id] = [version |-> version + 1, data |-> 0]]
        /\ writes' = [writes EXCEPT ![id] = version + 1]
    BY <1>2, ZenonT(60) DEF UpdateRecord, CanUpdate, Updated
  <2>2. version + 1 \in Nat
    BY DataAssumption
  <2> QED
    BY <2>1, <2>2
<1>3. ASSUME NEW c \in Clients, NEW id \in Ids, DeleteRecord(c, id) PROVE TableInv'
  BY <1>3 DEF DeleteRecord, Deleted
<1>4. CASE UNCHANGED storageVars
  BY <1>4 DEF storageVars
<1>5. ASSUME \/ \E c \in Clients : Publish(c)
             \/ ProcessorStep \/ Restart \/ UNCHANGED vars
      PROVE  UNCHANGED storageVars
  BY <1>5 DEF Publish, ProcessorStep, ReceiveLagged, Receive, IndexRemoved, IndexFails,
              Restart, vars, storageVars
<1> QED
  BY <1>1, <1>2, <1>3, <1>4, <1>5 DEF Next

-----------------------------------------------------------------------------
(* The index *)

\* The index is empty.
LEMMA SearchInitInv == Init => SearchInv
<1>1. IsFiniteSet({}) /\ Cardinality({}) = 0 /\ 0 \in Nat /\ 0 <= 0
  BY FS_EmptySet
<1>2. {} \cup {} = {}
  OBVIOUS
<1> QED
  BY <1>1, <1>2, ZenonT(60) DEF Init, SearchInv, Indexed

\* Steps of requests leave the search engine alone.
LEMMA RequestsLeaveIndex ==
    ASSUME NEW c \in Clients,
           \/ Publish(c)
           \/ \E id \in Ids : CreateRecord(c, id) \/ DeleteRecord(c, id)
           \/ \E id \in Ids, version \in 1 .. MaxVersion : UpdateRecord(c, id, version)
    PROVE  UNCHANGED searchVars
BY ZenonT(60) DEF Publish, CreateRecord, DeleteRecord, UpdateRecord

\* remove keeps the invariant, and leaves no document of the record.
LEMMA RemoveKeeps ==
    ASSUME SearchInv, NEW id, Remove(id)
    PROVE  /\ pending' \in Nat
           /\ IsFiniteSet(buffered') /\ Cardinality(buffered') <= pending'
           /\ \A d, e \in Indexed' : d.id = e.id => d = e
           /\ \A d \in Indexed' : d.id # id
<1>1. Indexed' = {d \in Indexed : d.id # id} /\ buffered' = {} /\ pending' = pending
  BY DEF Remove, Without, Indexed
<1>2. pending \in Nat /\ \A d, e \in Indexed : d.id = e.id => d = e
  BY ZenonT(60) DEF SearchInv
<1>3. IsFiniteSet({}) /\ Cardinality({}) <= pending
  BY <1>2, FS_EmptySet
<1> QED
  BY <1>1, <1>2, <1>3, ZenonT(60)

\* Receiving an event keeps the invariant.
LEMMA ReceiveKeeps ==
    ASSUME SearchInv, Receive
    PROVE  SearchInv'
<1> DEFINE event == Head(channel)
<1>1. CASE UNCHANGED searchVars
  BY <1>1 DEF searchVars, SearchInv, Indexed
<1>2. CASE Remove(event.id) /\ UNCHANGED indexing
  <2>1. indexing' = NoDoc
    BY <1>2 DEF Receive
  <2> QED
    BY <1>2, <2>1, RemoveKeeps DEF SearchInv
<1>3. CASE Remove(event.id) /\ indexing' = Doc(event.id, event.version)
  <2>1. indexing'.id = event.id
    BY <1>3 DEF Doc
  <2> QED
    BY <1>3, <2>1, RemoveKeeps DEF SearchInv
<1> QED
  BY <1>1, <1>2, <1>3 DEF Receive

\* index_record keeps the invariant: the record is in no index by now, and the
\* count grows with the buffer.
LEMMA IndexRemovedKeeps ==
    ASSUME SearchInv, IndexRemoved
    PROVE  SearchInv'
<1>1. Indexed' = Indexed \cup {indexing} /\ indexing' = NoDoc
  BY DEF IndexRemoved, IndexRecord, Indexed
<1>2. \A d, e \in Indexed' : d.id = e.id => d = e
  BY <1>1 DEF SearchInv, IndexRemoved
<1>3. pending' \in Nat /\ IsFiniteSet(buffered') /\ Cardinality(buffered') <= pending'
  <2>1. CASE pending + 1 >= Threshold
    <3>1. buffered' = {} /\ pending' = 0
      BY <2>1 DEF IndexRemoved, IndexRecord
    <3> QED
      BY <3>1, FS_EmptySet
  <2>2. CASE ~(pending + 1 >= Threshold)
    <3>1. buffered' = buffered \cup {indexing} /\ pending' = pending + 1
      BY <2>2 DEF IndexRemoved, IndexRecord
    <3>2. Cardinality(buffered) \in Nat
      BY FS_CardinalityType DEF SearchInv
    <3>3. /\ IsFiniteSet(buffered')
          /\ Cardinality(buffered') \in {Cardinality(buffered), Cardinality(buffered) + 1}
      BY <3>1, FS_AddElement DEF SearchInv
    <3> QED
      BY <3>1, <3>2, <3>3 DEF SearchInv
  <2> QED
    BY <2>1, <2>2
<1> QED
  BY <1>1, <1>2, <1>3 DEF SearchInv

\* Every step keeps the index free of second versions.
LEMMA SearchNextInv == SearchInv /\ [Next]_vars => SearchInv'
<1> SUFFICES ASSUME SearchInv, [Next]_vars PROVE SearchInv'
  OBVIOUS
<1>1. CASE UNCHANGED searchVars
  BY <1>1 DEF searchVars, SearchInv, Indexed
<1>2. CASE ReceiveLagged \/ UNCHANGED vars
  BY <1>1, <1>2 DEF ReceiveLagged, vars, searchVars
<1>3. CASE IndexFails
  BY <1>3 DEF IndexFails, SearchInv, Indexed
<1>4. CASE Restart
  <2>1. Indexed' \subseteq Indexed /\ buffered' = {} /\ pending' = 0 /\ indexing' = NoDoc
    BY <1>4 DEF Restart, Indexed
  <2> QED
    BY <2>1, FS_EmptySet DEF SearchInv
<1> QED
  BY <1>1, <1>2, <1>3, <1>4, RequestsLeaveIndex, ReceiveKeeps, IndexRemovedKeeps
  DEF Next, ProcessorStep

-----------------------------------------------------------------------------
(* The theorems *)

\* A record that exists has been written as often as its version says: no two
\* updates were accepted on top of the same version.
THEOREM VersionsCountWrites == Spec => []VersionCountsWrites
<1>1. TableInv => VersionCountsWrites
  BY DEF TableInv
<1> QED
  BY <1>1, TableInitInv, TableNextInv, PTL DEF Spec

\* A search never finds two versions of a record, whatever was lost or restarted,
\* and pending_count never undercounts the buffer.
THEOREM IndexStaysConsistent == Spec => []IndexIsConsistent
<1>1. SearchInv => IndexIsConsistent
  <2> SUFFICES ASSUME SearchInv, NEW id \in Ids
               PROVE  Cardinality(IndexedVersions(id)) <= 1
    BY DEF SearchInv, IndexIsConsistent
  <2> DEFINE docs == {d \in Indexed : d.id = id}
  <2>1. IndexedVersions(id) = {d.version : d \in docs}
    BY DEF IndexedVersions, Indexed
  <2>2. CASE docs = {}
    BY <2>1, <2>2, FS_EmptySet
  <2>3. CASE docs # {}
    <3>1. PICK d \in docs : TRUE
      BY <2>3
    <3>2. docs = {d}
      BY <3>1 DEF SearchInv
    <3>3. IndexedVersions(id) = {d.version}
      BY <2>1, <3>2
    <3> QED
      BY <3>3, FS_Singleton
  <2> QED
    BY <2>2, <2>3
<1> QED
  BY <1>1, SearchInitInv, SearchNextInv, PTL DEF Spec

-----------------------------------------------------------------------------
(* What the index has caught up with *)

Events ==
    [kind : {"new"}] \cup [kind : {"deleted"}, id : Ids]
        \cup [kind : {"changed"}, id : Ids, version : Nat \ {0}]

\* The version that is in the index once the event is handled, 0 for none.
Said(event) == IF event.kind = "deleted" THEN 0 ELSE event.version

Silent(queue, id) == \A k \in 1 .. Len(queue) : ~About(queue[k], id)

\* The last event about id in the queue, if there is one, says v.
LastSays(queue, id, v) ==
    \A k \in 1 .. Len(queue) :
        About(queue[k], id) /\ (\A j \in k + 1 .. Len(queue) : ~About(queue[j], id))
            => Said(queue[k]) = v

\* The processor is on its way to what was published last about id: an event says so, or
\* the document between remove and index_record is it, or the index has it.
OnItsWay(id) ==
    /\ LastSays(channel, id, published[id])
    /\ Silent(channel, id) =>
          IF indexing # NoDoc /\ indexing.id = id
          THEN indexing.version = published[id]
          ELSE IndexedVersions(id) = {published[id]} \ {0}

EventInv ==
    /\ channel \in Seq(Events) /\ handler \in [Clients -> Seq(Events)]
    /\ indexing # NoDoc => indexing.version \in Nat \ {0}
    /\ \A id \in Ids \ lost : OnItsWay(id)

\* Once the processor has received every event, the index holds, for each record none of
\* whose events was lost, the version of the last published one and no other, and nothing
\* of a record whose last event was RecordDeleted.
IndexFollowsEvents ==
    channel = <<>> /\ indexing = NoDoc =>
        \A id \in Ids \ lost : IndexedVersions(id) = {published[id]} \ {0}

\* When the oldest event goes, the last ones still say the same, and of a record that is
\* no longer spoken of it was the last.
LEMMA TailSays ==
    ASSUME NEW q \in Seq(Events), q # <<>>, NEW id, NEW v, LastSays(q, id, v)
    PROVE  /\ Tail(q) \in Seq(Events) /\ Head(q) \in Events
           /\ LastSays(Tail(q), id, v)
           /\ Silent(Tail(q), id) => IF About(Head(q), id) THEN Said(Head(q)) = v
                                                           ELSE Silent(q, id)
<1>1. /\ Len(q) \in Nat \ {0} /\ Len(Tail(q)) = Len(q) - 1 /\ Head(q) = q[1]
      /\ \A k \in 1 .. Len(q) - 1 : Tail(q)[k] = q[k + 1]
      /\ Tail(q) \in Seq(Events) /\ Head(q) \in Events
  OBVIOUS
<1>2. ASSUME NEW k \in 1 .. Len(q) - 1, About(q[k + 1], id),
             \A j \in k + 1 .. Len(q) - 1 : ~About(q[j + 1], id)
      PROVE  Said(q[k + 1]) = v
  <2>1. ASSUME NEW j \in k + 2 .. Len(q) PROVE ~About(q[j], id)
    <3>1. j - 1 \in k + 1 .. Len(q) - 1 /\ (j - 1) + 1 = j
      BY <1>1
    <3> QED
      BY <1>2, <3>1
  <2>2. k + 1 \in 1 .. Len(q) /\ (k + 1) + 1 = k + 2
    BY <1>1
  <2> QED
    BY <1>2, <2>1, <2>2 DEF LastSays
<1>3. LastSays(Tail(q), id, v)
  BY <1>1, <1>2 DEF LastSays
<1>4. ASSUME Silent(Tail(q), id), NEW j \in 2 .. Len(q) PROVE ~About(q[j], id)
  <2>1. j - 1 \in 1 .. Len(q) - 1 /\ (j - 1) + 1 = j
    BY <1>1
  <2> QED
    BY <1>1, <1>4, <2>1 DEF Silent
<1>5. Silent(Tail(q), id) => IF About(Head(q), id) THEN Said(Head(q)) = v ELSE Silent(q, id)
  BY <1>1, <1>4 DEF LastSays, Silent
<1> QED
  BY <1>1, <1>3, <1>5

\* A new event is the last one about its record and changes nothing for the others.
LEMMA AppendSays ==
    ASSUME NEW q \in Seq(Events), NEW e \in Events, NEW id, NEW v, LastSays(q, id, v)
    PROVE  /\ Append(q, e) \in Seq(Events)
           /\ About(e, id) => LastSays(Append(q, e), id, Said(e)) /\ ~Silent(Append(q, e), id)
           /\ ~About(e, id) => /\ LastSays(Append(q, e), id, v)
                               /\ Silent(Append(q, e), id) => Silent(q, id)
<1> DEFINE all == Append(q, e)
           last == Len(q) + 1
<1>1. /\ all \in Seq(Events) /\ Len(q) \in Nat /\ Len(all) = last /\ all[last] = e
      /\ \A k \in 1 .. Len(q) : all[k] = q[k]
  OBVIOUS
<1>2. /\ last \in 1 .. last
      /\ \A k \in 1 .. last : k = last \/ (k \in 1 .. Len(q) /\ last \in k + 1 .. last)
      /\ \A k \in 1 .. Len(q) : k \in 1 .. last
      /\ \A k \in 1 .. Len(q) : \A j \in k + 1 .. Len(q) : j \in k + 1 .. last /\ j \in 1 .. Len(q)
  BY <1>1
<1> HIDE DEF all, last
<1>3. ASSUME About(e, id) PROVE LastSays(all, id, Said(e)) /\ ~Silent(all, id)
  BY <1>1, <1>2, <1>3, ZenonT(60) DEF LastSays, Silent
<1>4. ASSUME ~About(e, id)
      PROVE  LastSays(all, id, v) /\ (Silent(all, id) => Silent(q, id))
  <2>1. ASSUME NEW k \in 1 .. last, About(all[k], id),
               \A j \in k + 1 .. last : ~About(all[j], id)
        PROVE  Said(all[k]) = v
    <3>1. k \in 1 .. Len(q) /\ all[k] = q[k]
      BY <1>1, <1>2, <1>4, <2>1, ZenonT(60)
    <3>2. \A j \in k + 1 .. Len(q) : ~About(q[j], id)
      BY <1>1, <1>2, <2>1, <3>1, ZenonT(60)
    <3> QED
      BY <2>1, <3>1, <3>2, ZenonT(60) DEF LastSays
  <2>2. Silent(all, id) => Silent(q, id)
    BY <1>1, <1>2, ZenonT(60) DEF Silent
  <2> QED
    BY <1>1, <2>1, <2>2, ZenonT(60) DEF LastSays
<1> QED
  BY <1>1, <1>3, <1>4, ZenonT(60) DEF all

\* A step that keeps the documents of a record keeps their versions.
LEMMA SameDocuments ==
    ASSUME NEW id, \A d : d.id = id => (d \in Indexed' <=> d \in Indexed)
    PROVE  IndexedVersions(id)' = IndexedVersions(id)
BY DEF IndexedVersions, Indexed

\* Nothing was published, and nothing is indexed.
LEMMA EventInitInv == Init => EventInv
<1> SUFFICES ASSUME Init PROVE EventInv
  OBVIOUS
<1>1. channel = <<>> /\ indexing = NoDoc /\ Indexed = {} /\ lost = {}
  BY DEF Init, Indexed
<1>2. <<>> \in Seq(Events) /\ 1 .. Len(<<>>) = {}
  OBVIOUS
<1>3. handler \in [Clients -> Seq(Events)]
  BY <1>2 DEF Init
<1>4. ASSUME NEW id \in Ids PROVE OnItsWay(id)
  <2>1. published[id] = 0 /\ IndexedVersions(id) = {}
    BY <1>1 DEF Init, IndexedVersions, Indexed
  <2>2. LastSays(channel, id, published[id])
    BY <1>1, <1>2, ZenonT(60) DEF LastSays
  <2> QED
    BY <1>1, <2>1, <2>2, ZenonT(60) DEF OnItsWay
<1> QED
  BY <1>1, <1>2, <1>3, <1>4 DEF EventInv

\* A write leaves the bus and the engine alone, and gives its handler events to publish.
LEMMA WriteKeepsEvents ==
    ASSUME EventInv, NEW c \in Clients, NEW id \in Ids, NEW events \in Seq(Events),
           AfterWrite(c, id, events), UNCHANGED <<busVars, searchVars>>
    PROVE  EventInv'
<1>1. handler' \in [Clients -> Seq(Events)] /\ lost \subseteq lost'
  BY ZenonT(60) DEF AfterWrite, EventInv
<1>2. UNCHANGED <<channel, published, indexing, committed, buffered>>
  BY DEF busVars, searchVars
<1>3. ASSUME NEW i \in Ids, OnItsWay(i) PROVE OnItsWay(i)'
  BY <1>2, <1>3 DEF OnItsWay, LastSays, Silent, IndexedVersions
<1> QED
  BY <1>1, <1>2, <1>3 DEF EventInv

\* What the handlers publish are events.
LEMMA WritesAreEvents ==
    ASSUME NEW id \in Ids, NEW version \in Nat \ {0}
    PROVE  /\ <<NewRecords, RecordChanged(id, version)>> \in Seq(Events)
           /\ <<RecordDeleted(id)>> \in Seq(Events)
<1>1. /\ NewRecords \in Events /\ RecordChanged(id, version) \in Events
      /\ RecordDeleted(id) \in Events
  BY DEF NewRecords, RecordChanged, RecordDeleted, Events
<1> QED
  BY <1>1

\* Publishing makes an event the last about its record; the event that a full channel
\* drops for it was lost.
LEMMA PublishKeepsEvents ==
    ASSUME EventInv, NEW c \in Clients, Publish(c)
    PROVE  EventInv'
<1> DEFINE event == Head(handler[c])
           full == Len(channel) = Capacity
           kept == IF full THEN Tail(channel) ELSE channel
<1>1. /\ handler[c] \in Seq(Events) /\ handler[c] # <<>> /\ channel \in Seq(Events)
  BY DEF EventInv, Publish
<1>2. event \in Events /\ Tail(handler[c]) \in Seq(Events)
  BY <1>1
<1>3. handler' \in [Clients -> Seq(Events)]
  BY <1>2 DEF EventInv, Publish
<1>4. /\ channel' = Append(kept, event)
      /\ lost' = lost \cup {id \in Ids : full /\ About(Head(channel), id)}
      /\ published' = [id \in Ids |-> IF ~About(event, id) THEN published[id] ELSE Said(event)]
      /\ UNCHANGED <<indexing, committed, buffered>>
  BY DEF Publish, Said, searchVars
<1>5. full => channel # <<>>
  BY <1>1, DataAssumption
<1>6. kept \in Seq(Events)
  BY <1>1, <1>5
<1>7. channel' \in Seq(Events)
  BY <1>2, <1>4, <1>6
<1>8. ASSUME NEW id \in Ids \ lost' PROVE OnItsWay(id)'
  <2>1. OnItsWay(id) /\ (full => ~About(Head(channel), id))
    BY <1>4 DEF EventInv
  <2>2. LastSays(kept, id, published[id]) /\ (Silent(kept, id) => Silent(channel, id))
    <3>1. CASE full
      BY <1>1, <1>5, <2>1, <3>1, TailSays DEF OnItsWay
    <3>2. CASE ~full
      BY <2>1, <3>2 DEF OnItsWay
    <3> QED
      BY <3>1, <3>2
  <2>3. IndexedVersions(id)' = IndexedVersions(id) /\ indexing' = indexing
    BY <1>4 DEF IndexedVersions
  <2>4. CASE About(event, id)
    <3>1. published'[id] = Said(event)
      BY <1>4, <2>4
    <3>2. LastSays(Append(kept, event), id, Said(event)) /\ ~Silent(Append(kept, event), id)
      BY <1>2, <1>6, <2>2, <2>4, AppendSays, ZenonT(60)
    <3> QED
      BY <1>4, <3>1, <3>2, ZenonT(60) DEF OnItsWay, LastSays, Silent
  <2>5. CASE ~About(event, id)
    <3>1. published'[id] = published[id]
      BY <1>4, <2>5
    <3>2. /\ LastSays(Append(kept, event), id, published[id])
          /\ Silent(Append(kept, event), id) => Silent(kept, id)
      BY <1>2, <1>6, <2>2, <2>5, AppendSays, ZenonT(60)
    <3>3. LastSays(channel, id, published[id])'
      BY <1>4, <3>1, <3>2 DEF LastSays
    <3>4. Silent(channel, id)' => Silent(channel, id)
      BY <1>4, <2>2, <3>2, ZenonT(60) DEF Silent
    <3> QED
      BY <2>1, <2>3, <3>1, <3>3, <3>4 DEF OnItsWay
  <2> QED
    BY <2>4, <2>5
<1> QED
  BY <1>3, <1>4, <1>7, <1>8 DEF EventInv

\* Receiving takes the oldest event away and does what it says, or the half of it that
\* comes before index_record.
LEMMA ReceiveKeepsEvents ==
    ASSUME EventInv, Receive
    PROVE  EventInv'
<1> DEFINE event == Head(channel)
<1>1. /\ channel \in Seq(Events) /\ channel # <<>> /\ channel' = Tail(channel)
      /\ UNCHANGED <<handler, published, lost>> /\ indexing = NoDoc
  BY DEF EventInv, Receive
<1>2. event \in Events /\ channel' \in Seq(Events)
  BY <1>1
<1>3. \/ event.kind = "new" /\ Indexed' = Indexed /\ indexing' = NoDoc
      \/ /\ event.kind = "deleted"
         /\ Indexed' = {d \in Indexed : d.id # event.id} /\ indexing' = NoDoc
      \/ /\ event.kind = "changed"
         /\ Indexed' = {d \in Indexed : d.id # event.id}
         /\ indexing' = Doc(event.id, event.version)
  BY <1>1 DEF Receive, searchVars, Remove, Without, Indexed
<1>4. event.kind = "changed" => event.version \in Nat \ {0}
  BY <1>2 DEF Events
<1>5. event.kind = "changed" =>
         indexing'.id = event.id /\ indexing'.version = event.version /\ indexing' # NoDoc
  <2> SUFFICES ASSUME event.kind = "changed"
               PROVE  /\ indexing'.id = event.id /\ indexing'.version = event.version
                      /\ indexing' # NoDoc
    OBVIOUS
  <2>1. indexing'.id = event.id /\ indexing'.version = event.version
    <3>1. indexing' = Doc(event.id, event.version)
      BY <1>3, ZenonT(60)
    <3> QED
      BY <3>1, ZenonT(60) DEF Doc
  <2>2. NoDoc.version = 0 /\ event.version # 0
    BY <1>4 DEF NoDoc
  <2> QED
    BY <2>1, <2>2, ZenonT(60)
<1>6. (indexing # NoDoc => indexing.version \in Nat \ {0})'
  BY <1>3, <1>4, <1>5
<1>7. ASSUME NEW id \in Ids \ lost PROVE OnItsWay(id)'
  <2>1. OnItsWay(id)
    BY DEF EventInv
  <2>2. /\ LastSays(Tail(channel), id, published[id])
        /\ Silent(Tail(channel), id) =>
              IF About(event, id) THEN Said(event) = published[id] ELSE Silent(channel, id)
    BY <1>1, <2>1, TailSays DEF OnItsWay
  <2>3. LastSays(channel, id, published[id])'
    BY <1>1, <2>2 DEF LastSays
  <2>4. ASSUME Silent(channel, id)', ~About(event, id)
        PROVE  /\ ~(indexing' # NoDoc /\ indexing'.id = id)
               /\ IndexedVersions(id)' = {published[id]} \ {0}
    <3>1. Silent(channel, id)
      BY <1>1, <2>2, <2>4 DEF Silent
    <3>2. IndexedVersions(id) = {published[id]} \ {0}
      BY <1>1, <2>1, <3>1 DEF OnItsWay
    <3>3. event.kind = "new" \/ event.id # id
      BY <2>4 DEF About
    <3>4. \A d : d.id = id => (d \in Indexed' <=> d \in Indexed)
      BY <1>3, <3>3
    <3>5. ~(indexing' # NoDoc /\ indexing'.id = id)
      BY <1>3, <1>5, <3>3
    <3> QED
      BY <3>2, <3>4, <3>5, SameDocuments
  <2>5. ASSUME Silent(channel, id)', About(event, id), event.kind = "deleted"
        PROVE  indexing' = NoDoc /\ IndexedVersions(id)' = {published[id]} \ {0}
    <3>1. event.id = id /\ published[id] = 0
      BY <1>1, <2>2, <2>5 DEF About, Said, Silent
    <3>2. \A d \in Indexed' : d.id # id
      BY <1>3, <2>5, <3>1
    <3>3. IndexedVersions(id)' = {}
      BY <3>2 DEF IndexedVersions, Indexed
    <3> QED
      BY <1>3, <2>5, <3>1, <3>3
  <2>6. ASSUME Silent(channel, id)', About(event, id), event.kind = "changed"
        PROVE  indexing' # NoDoc /\ indexing'.id = id /\ indexing'.version = published[id]
    BY <1>1, <1>5, <2>2, <2>6 DEF About, Said, Silent
  <2>7. About(event, id) => event.kind \in {"deleted", "changed"}
    BY <1>3 DEF About
  <2> QED
    BY <1>1, <2>3, <2>4, <2>5, <2>6, <2>7 DEF OnItsWay
<1> QED
  BY <1>1, <1>2, <1>6, <1>7 DEF EventInv


\* index_record puts the document in, and by SearchInv there was none of its record.
LEMMA IndexRemovedKeepsEvents ==
    ASSUME SearchInv, EventInv, IndexRemoved
    PROVE  EventInv'
<1>1. /\ Indexed' = Indexed \cup {indexing} /\ indexing # NoDoc /\ indexing' = NoDoc
      /\ UNCHANGED <<handler, channel, published, lost>>
  BY DEF IndexRemoved, IndexRecord, Indexed, busVars
<1>2. ASSUME NEW id \in Ids \ lost PROVE OnItsWay(id)'
  <2>1. OnItsWay(id)
    BY DEF EventInv
  <2>2. LastSays(channel, id, published[id])'
    BY <1>1, <2>1 DEF OnItsWay, LastSays
  <2>3. Silent(channel, id)' => Silent(channel, id)
    BY <1>1 DEF Silent
  <2>4. CASE indexing.id = id
    <3>1. {d \in Indexed' : d.id = id} = {indexing}
      BY <1>1, <2>4 DEF SearchInv
    <3>2. IndexedVersions(id)' = {indexing.version}
      BY <3>1 DEF IndexedVersions, Indexed
    <3>3. indexing.version # 0
      BY <1>1 DEF EventInv
    <3>4. Silent(channel, id) => indexing.version = published[id]
      BY <1>1, <2>1, <2>4 DEF OnItsWay
    <3> QED
      BY <1>1, <2>2, <2>3, <3>2, <3>3, <3>4 DEF OnItsWay
  <2>5. CASE indexing.id # id
    <3>1. IndexedVersions(id)' = IndexedVersions(id)
      BY <1>1, <2>5, SameDocuments
    <3>2. Silent(channel, id) => IndexedVersions(id) = {published[id]} \ {0}
      BY <2>1, <2>5 DEF OnItsWay
    <3> QED
      BY <1>1, <2>2, <2>3, <3>1, <3>2 DEF OnItsWay
  <2> QED
    BY <2>4, <2>5
<1> QED
  BY <1>1, <1>2 DEF EventInv

\* A failure and a restart lose what they take from a record.
LEMMA LossKeepsEvents ==
    ASSUME EventInv, IndexFails \/ Restart
    PROVE  EventInv'
<1>1. CASE IndexFails
  <2>1. /\ Indexed' = Indexed /\ indexing' = NoDoc /\ lost' = lost \cup {indexing.id}
        /\ UNCHANGED <<handler, channel, published>>
    BY <1>1 DEF IndexFails, Indexed, busVars
  <2>2. ASSUME NEW id \in Ids \ lost' PROVE OnItsWay(id)'
    <3>1. OnItsWay(id) /\ indexing.id # id
      BY <2>1 DEF EventInv
    <3>2. LastSays(channel, id, published[id])' /\ (Silent(channel, id)' => Silent(channel, id))
      BY <2>1, <3>1 DEF OnItsWay, LastSays, Silent
    <3>3. IndexedVersions(id)' = IndexedVersions(id)
      BY <2>1, SameDocuments
    <3> QED
      BY <2>1, <3>1, <3>2, <3>3 DEF OnItsWay
  <2> QED
    BY <2>1, <2>2 DEF EventInv
<1>2. CASE Restart
  <2>1. /\ channel' = <<>> /\ indexing' = NoDoc /\ Indexed' = committed
        /\ published' = published /\ handler' = [c \in Clients |-> <<>>]
    BY <1>2 DEF Restart, Indexed
  <2>2. <<>> \in Seq(Events) /\ 1 .. Len(<<>>) = {}
    OBVIOUS
  <2>3. ASSUME NEW id \in Ids \ lost' PROVE OnItsWay(id)'
    <3>1. /\ OnItsWay(id) /\ indexing.id # id /\ \A d \in buffered : d.id # id
          /\ \A i \in DOMAIN channel : ~About(channel[i], id)
      BY <1>2 DEF EventInv, Restart
    <3>2. Silent(channel, id)
      <4>1. channel \in Seq(Events)
        BY ZenonT(60) DEF EventInv
      <4>2. DOMAIN channel = 1 .. Len(channel)
        BY <4>1
      <4> QED
        BY <3>1, <4>2, ZenonT(60) DEF Silent
    <3>3. IndexedVersions(id) = {published[id]} \ {0}
      BY <3>1, <3>2 DEF OnItsWay
    <3>4. \A d : d.id = id => (d \in Indexed' <=> d \in Indexed)
      BY <2>1, <3>1 DEF Indexed
    <3>5. IndexedVersions(id)' = IndexedVersions(id)
      BY <3>4, SameDocuments
    <3>6. LastSays(channel, id, published[id])'
      BY <2>1, <2>2, ZenonT(60) DEF LastSays
    <3> QED
      BY <2>1, <3>3, <3>5, <3>6, ZenonT(60) DEF OnItsWay
  <2> QED
    BY <2>1, <2>2, <2>3 DEF EventInv
<1> QED
  BY <1>1, <1>2

\* Every step keeps the processor on its way.
LEMMA EventNextInv == SearchInv /\ EventInv /\ [Next]_vars => EventInv'
<1> SUFFICES ASSUME SearchInv, EventInv, [Next]_vars PROVE EventInv'
  OBVIOUS
<1>0. 1 \in Nat \ {0}
  OBVIOUS
<1>1. ASSUME NEW c \in Clients, NEW id \in Ids, CreateRecord(c, id) PROVE EventInv'
  BY <1>0, <1>1, WritesAreEvents, WriteKeepsEvents, ZenonT(60) DEF CreateRecord
<1>2. ASSUME NEW c \in Clients, NEW id \in Ids, NEW version \in 1 .. MaxVersion,
             UpdateRecord(c, id, version)
      PROVE  EventInv'
  <2>1. version + 1 \in Nat \ {0}
    BY DataAssumption
  <2> QED
    BY <1>2, <2>1, WritesAreEvents, WriteKeepsEvents, ZenonT(60) DEF UpdateRecord
<1>3. ASSUME NEW c \in Clients, NEW id \in Ids, DeleteRecord(c, id) PROVE EventInv'
  BY <1>0, <1>3, WritesAreEvents, WriteKeepsEvents, ZenonT(60) DEF DeleteRecord
<1>4. CASE ReceiveLagged \/ UNCHANGED vars
  <2>1. UNCHANGED <<handler, channel, published, lost, indexing, committed, buffered>>
    BY <1>4 DEF ReceiveLagged, vars, searchVars
  <2>2. ASSUME NEW id \in Ids, OnItsWay(id) PROVE OnItsWay(id)'
    BY <2>1, <2>2 DEF OnItsWay, LastSays, Silent, IndexedVersions
  <2> QED
    BY <2>1, <2>2 DEF EventInv
<1> QED
  BY <1>1, <1>2, <1>3, <1>4, PublishKeepsEvents, ReceiveKeepsEvents, IndexRemovedKeepsEvents,
     LossKeepsEvents DEF Next, ProcessorStep

\* Once the processor has received every event, the index is what the events said: the
\* safety half of SearchCatchesUp, for any records, requests, channel and restarts.
THEOREM IndexHasCaughtUp == Spec => []IndexFollowsEvents
<1>1. EventInv => IndexFollowsEvents
  <2> SUFFICES ASSUME EventInv, channel = <<>>, indexing = NoDoc, NEW id \in Ids \ lost
               PROVE  IndexedVersions(id) = {published[id]} \ {0}
    BY DEF IndexFollowsEvents
  <2>1. Len(<<>>) = 0
    OBVIOUS
  <2>2. Silent(channel, id)
    BY <2>1 DEF Silent
  <2> QED
    BY <2>2 DEF EventInv, OnItsWay
<1> QED
  BY <1>1, SearchInitInv, SearchNextInv, EventInitInv, EventNextInv, PTL DEF Spec


-----------------------------------------------------------------------------
(* The table as a versioned table *)

PluginTable ==
    INSTANCE VersionedTable WITH Rows <- Ids, version <- [id \in Ids |-> table[id].version]

\* One step of the routes is one step of the table, or none.
LEMMA RouteSimulates ==
    ASSUME TableInv, TableInv', [Next]_vars
    PROVE  [PluginTable!Write]_[id \in Ids |-> table[id].version]
<1>1. \A id \in Ids : table[id].version \in Nat /\ table'[id].version \in Nat
  BY DEF TableInv, TableRows
<1>2. DOMAIN table = Ids
  BY DEF TableInv
<1>3. ASSUME NEW id \in Ids, NEW new \in Nat, table' = [table EXCEPT ![id] = Row(new, 0)],
             new = 0 \/ new = table[id].version + 1
      PROVE  PluginTable!Write
  <2>1. ASSUME NEW r \in Ids PROVE PluginTable!RowStep(r)
    <3>1. CASE r = id
      <4>1. table'[id].version = new
        BY <1>2, <1>3 DEF Row
      <4> QED
        BY <1>1, <1>3, <3>1, <4>1 DEF PluginTable!RowStep
    <3>2. CASE r # id
      <4>1. table'[r] = table[r]
        BY <1>2, <1>3, <3>2
      <4> QED
        BY <4>1 DEF PluginTable!RowStep
    <3> QED
      BY <3>1, <3>2
  <2> QED
    BY <1>1, <2>1 DEF PluginTable!Write
<1>4. ASSUME NEW c \in Clients, NEW id \in Ids, CreateRecord(c, id) PROVE PluginTable!Write
  <2>1. table[id].version = 0 /\ table' = [table EXCEPT ![id] = Row(1, 0)]
    BY <1>4 DEF CreateRecord, CanCreate, Created, Exists
  <2>2. 1 \in Nat /\ 1 = table[id].version + 1
    BY <2>1
  <2> QED
    BY <1>3, <2>1, <2>2, ZenonT(60)
<1>5. ASSUME NEW c \in Clients, NEW id \in Ids, NEW v \in 1 .. MaxVersion, UpdateRecord(c, id, v)
      PROVE  PluginTable!Write
  <2>1. table[id].version = v /\ table' = [table EXCEPT ![id] = Row(v + 1, 0)]
    BY <1>5 DEF UpdateRecord, CanUpdate, Updated
  <2>2. v + 1 \in Nat
    BY DataAssumption
  <2> QED
    BY <1>3, <2>1, <2>2, ZenonT(60)
<1>6. ASSUME NEW c \in Clients, NEW id \in Ids, DeleteRecord(c, id) PROVE PluginTable!Write
  <2>1. table' = [table EXCEPT ![id] = Row(0, 0)]
    BY <1>6 DEF DeleteRecord, Deleted, NoRow
  <2>2. 0 \in Nat
    OBVIOUS
  <2> QED
    BY <1>3, <2>1, <2>2, ZenonT(60)
<1>7. CASE table' = table
  BY <1>7
<1>8. (\E c \in Clients : Publish(c)) \/ ProcessorStep \/ Restart \/ UNCHANGED vars => table' = table
  BY DEF Publish, ProcessorStep, ReceiveLagged, Receive, IndexRemoved, IndexFails, Restart,
         vars, storageVars
<1> QED
  BY <1>4, <1>5, <1>6, <1>7, <1>8 DEF Next

\* The rows that the record routes write through StorageAdapter are a versioned table, as
\* those of the document store are, whatever the requests, the bus and the index do.
THEOREM RecordRoutesRefineTable == Spec => PluginTable!Spec
<1>1. Init => PluginTable!Init
  BY DEF Init, PluginTable!Init, NoRow, Row
<1> QED
  BY <1>1, TableInitInv, TableNextInv, RouteSimulates, PTL DEF Spec, PluginTable!Spec

-----------------------------------------------------------------------------
(* Searches agree with the table when no two requests about a record overlap *)

\* A record is written only when no handler has an event about it left to publish.
Serial ==
    \A id \in Ids : table'[id] # table[id] => \A c \in Clients : Silent(handler[c], id)

\* Every event about id that is left to publish says the table's version, and with none
\* left the last one published did.
SaysTheTable(id) ==
    /\ \A c \in Clients : \A k \in 1 .. Len(handler[c]) :
          About(handler[c][k], id) => Said(handler[c][k]) = table[id].version
    /\ (\A c \in Clients : Silent(handler[c], id)) => published[id] = table[id].version

SerialInv == \A id \in Ids \ lost : SaysTheTable(id)

\* No request, event or document is under way.
AtRest == channel = <<>> /\ indexing = NoDoc /\ \A c \in Clients : handler[c] = <<>>

\* At rest the index holds the stored version of every record none of whose events was
\* lost, and no other.
SearchIsCurrent ==
    AtRest => \A id \in Ids \ lost : IndexedVersions(id) = {table[id].version} \ {0}

\* What a request that wrote the table leaves behind.
LEMMA WriteSaysTheTable ==
    ASSUME EventInv, TableInv, SerialInv, Serial, UNCHANGED published,
           NEW c \in Clients, handler[c] = <<>>, NEW id \in Ids, NEW row, NEW events \in Seq(Events),
           table' = [table EXCEPT ![id] = row], row # table[id],
           \A k \in 1 .. Len(events) : About(events[k], id) => Said(events[k]) = row.version,
           \A other \in Ids \ {id} : Silent(events, other),
           \E k \in 1 .. Len(events) : About(events[k], id),
           AfterWrite(c, id, events)
    PROVE  SerialInv'
<1> USE DEF TableInv, EventInv
<1>1. table'[id] = row /\ \A other \in Ids \ {id} : table'[other] = table[other]
  OBVIOUS
<1>2. \A d \in Clients : Silent(handler[d], id)
  BY <1>1 DEF Serial
<1>3. CASE lost' = lost \cup {id} /\ UNCHANGED handler
  <2> SUFFICES ASSUME NEW other \in Ids \ lost' PROVE SaysTheTable(other)'
    BY DEF SerialInv
  <2>1. SaysTheTable(other)
    BY <1>3 DEF SerialInv
  <2>2. table'[other] = table[other] /\ handler' = handler /\ published' = published
    BY <1>1, <1>3
  <2> QED
    BY <2>1, <2>2 DEF SaysTheTable
<1>4. CASE handler' = [handler EXCEPT ![c] = events] /\ UNCHANGED lost
  <2>1. handler'[c] = events /\ \A d \in Clients \ {c} : handler'[d] = handler[d]
    BY <1>4
  <2>2. SaysTheTable(id)'
    BY <1>1, <1>2, <2>1, ZenonT(60) DEF SaysTheTable, Silent
  <2>3. ASSUME NEW other \in Ids \ {id}, other \notin lost PROVE SaysTheTable(other)'
    <3>1. SaysTheTable(other)
      BY <2>3 DEF SerialInv
    <3>2. 1 .. Len(handler[c]) = {}
      OBVIOUS
    <3>3. \A d \in Clients : Silent(handler'[d], other) => Silent(handler[d], other)
      <4> SUFFICES ASSUME NEW d \in Clients, Silent(handler'[d], other)
                   PROVE  Silent(handler[d], other)
        OBVIOUS
      <4>1. CASE d = c
        BY <3>2, <4>1 DEF Silent
      <4>2. CASE d # c
        BY <2>1, <4>2
      <4> QED
        BY <4>1, <4>2
    <3>4. \A d \in Clients : \A k \in 1 .. Len(handler'[d]) :
             About(handler'[d][k], other) => handler'[d] = handler[d]
      BY <2>1, <2>3 DEF Silent
    <3>5. table'[other] = table[other]
      BY <1>1, <2>3
    <3> QED
      BY <3>1, <3>3, <3>4, <3>5, ZenonT(60) DEF SaysTheTable
  <2> QED
    BY <1>4, <2>2, <2>3 DEF SerialInv
<1> QED
  BY <1>3, <1>4 DEF AfterWrite

\* What the three requests publish.
LEMMA RequestEvents ==
    ASSUME NEW id \in Ids, NEW v \in Nat \ {0}
    PROVE  /\ <<NewRecords, RecordChanged(id, v)>> \in Seq(Events)
           /\ <<RecordDeleted(id)>> \in Seq(Events)
           /\ ~About(NewRecords, id)
           /\ \A other \in Ids :
                 /\ ~About(NewRecords, other)
                 /\ About(RecordChanged(id, v), other) <=> other = id
                 /\ About(RecordDeleted(id), other) <=> other = id
           /\ Said(RecordChanged(id, v)) = v /\ Said(RecordDeleted(id)) = 0
<1>1. NewRecords \in Events /\ RecordChanged(id, v) \in Events /\ RecordDeleted(id) \in Events
  <2>1. NewRecords \in [kind : {"new"}]
    BY DEF NewRecords
  <2>2. RecordChanged(id, v) \in [kind : {"changed"}, id : Ids, version : Nat \ {0}]
    BY DEF RecordChanged
  <2>3. RecordDeleted(id) \in [kind : {"deleted"}, id : Ids]
    BY DEF RecordDeleted
  <2> QED
    BY <2>1, <2>2, <2>3, ZenonT(60) DEF Events
<1>2. NewRecords.kind = "new"
  BY DEF NewRecords
<1>3. RecordChanged(id, v).kind = "changed" /\ RecordChanged(id, v).id = id
      /\ RecordChanged(id, v).version = v
  BY DEF RecordChanged
<1>4. RecordDeleted(id).kind = "deleted" /\ RecordDeleted(id).id = id
  BY DEF RecordDeleted
<1> HIDE DEF NewRecords, RecordChanged, RecordDeleted
<1> QED
  BY <1>1, <1>2, <1>3, <1>4, SMTT(60) DEF About, Said

\* The requests.
LEMMA RequestSaysTheTable ==
    ASSUME EventInv, TableInv, SerialInv, Serial, NEW c \in Clients, NEW id \in Ids,
           \/ CreateRecord(c, id) \/ DeleteRecord(c, id)
           \/ \E version \in 1 .. MaxVersion : UpdateRecord(c, id, version)
    PROVE  SerialInv'
<1>1. UNCHANGED published /\ handler[c] = <<>>
  BY ZenonT(60) DEF CreateRecord, DeleteRecord, UpdateRecord, busVars
<1>2. ASSUME NEW v \in Nat \ {0}, v # table[id].version, table' = [table EXCEPT ![id] = Row(v, 0)],
             AfterWrite(c, id, <<NewRecords, RecordChanged(id, v)>>)
      PROVE  SerialInv'
  <2> DEFINE events == <<NewRecords, RecordChanged(id, v)>>
  <2>1. /\ events \in Seq(Events) /\ Len(events) = 2
        /\ events[1] = NewRecords /\ events[2] = RecordChanged(id, v)
    BY RequestEvents
  <2>2. Row(v, 0).version = v
    BY DEF Row
  <2>3. /\ \A k \in 1 .. Len(events) : About(events[k], id) => Said(events[k]) = Row(v, 0).version
        /\ \E k \in 1 .. Len(events) : About(events[k], id)
        /\ \A other \in Ids \ {id} : Silent(events, other)
    <3> HIDE DEF events
    <3>1. \A k \in 1 .. Len(events) : k = 1 \/ k = 2
      BY <2>1
    <3>2. 2 \in 1 .. Len(events)
      BY <2>1
    <3>3. /\ \A other \in Ids : ~About(events[1], other)
          /\ \A other \in Ids : About(events[2], other) <=> other = id
          /\ Said(events[2]) = v
      <4>1. /\ \A other \in Ids : ~About(NewRecords, other)
            /\ \A other \in Ids : About(RecordChanged(id, v), other) <=> other = id
            /\ Said(RecordChanged(id, v)) = v
        BY RequestEvents, ZenonT(60)
      <4> QED
        BY <2>1, <4>1, ZenonT(60)
    <3> QED
      BY <2>2, <3>1, <3>2, <3>3 DEF Silent
  <2>4. AfterWrite(c, id, events)
    BY <1>2
  <2>5. Row(v, 0) # table[id]
    BY <1>2, <2>2
  <2> HIDE DEF events
  <2> QED
    BY <1>1, <1>2, <2>1, <2>3, <2>4, <2>5, WriteSaysTheTable, ZenonT(60)
<1>3. CASE CreateRecord(c, id)
  <2>1. 1 # table[id].version
    <3>1. CanCreate(table, id)
      BY <1>3 DEF CreateRecord
    <3>2. table[id].version = 0
      BY <3>1 DEF CanCreate, Exists
    <3> QED
      BY <3>2, SMTT(60)
  <2>2. /\ table' = [table EXCEPT ![id] = Row(1, 0)]
        /\ AfterWrite(c, id, <<NewRecords, RecordChanged(id, 1)>>)
    BY <1>3 DEF CreateRecord, Created
  <2>3. 1 \in Nat \ {0}
    OBVIOUS
  <2> QED
    BY <1>2, <2>1, <2>2, <2>3, ZenonT(60)
<1>4. ASSUME NEW version \in 1 .. MaxVersion, UpdateRecord(c, id, version) PROVE SerialInv'
  <2>1. version + 1 \in Nat \ {0} /\ version + 1 # version
    BY DataAssumption
  <2>2. version = table[id].version
    BY <1>4 DEF UpdateRecord, CanUpdate
  <2> QED
    BY <1>2, <1>4, <2>1, <2>2, ZenonT(60) DEF UpdateRecord, Updated
<1>5. CASE DeleteRecord(c, id)
  <2> DEFINE events == <<RecordDeleted(id)>>
  <2>1. /\ events \in Seq(Events) /\ Len(events) = 1 /\ events[1] = RecordDeleted(id)
    BY RequestEvents
  <2>2. NoRow.version = 0
    BY DEF NoRow, Row
  <2>3. /\ \A k \in 1 .. Len(events) : About(events[k], id) => Said(events[k]) = NoRow.version
        /\ \E k \in 1 .. Len(events) : About(events[k], id)
        /\ \A other \in Ids \ {id} : Silent(events, other)
    <3> HIDE DEF events
    <3>1. \A k \in 1 .. Len(events) : k = 1
      BY <2>1
    <3>2. 1 \in 1 .. Len(events) /\ 1 \in Nat \ {0}
      BY <2>1
    <3>3. /\ \A other \in Ids : About(events[1], other) <=> other = id
          /\ Said(events[1]) = 0
      <4>1. /\ \A other \in Ids : About(RecordDeleted(id), other) <=> other = id
            /\ Said(RecordDeleted(id)) = 0
        BY <3>2, RequestEvents, ZenonT(60)
      <4> QED
        BY <2>1, <4>1, ZenonT(60)
    <3> QED
      BY <2>2, <3>1, <3>2, <3>3 DEF Silent
  <2>4. AfterWrite(c, id, events) /\ table' = [table EXCEPT ![id] = NoRow]
    BY <1>5, ZenonT(60) DEF DeleteRecord, Deleted
  <2>5. NoRow # table[id]
    BY <1>5, <2>2 DEF DeleteRecord, Exists
  <2> HIDE DEF events
  <2> QED
    BY <1>1, <2>1, <2>3, <2>4, <2>5, WriteSaysTheTable, ZenonT(60)
<1> QED
  BY <1>3, <1>4, <1>5

\* Publishing an event about a record publishes what the table says.
LEMMA PublishSaysTheTable ==
    ASSUME EventInv, SerialInv, NEW c \in Clients, Publish(c)
    PROVE  SerialInv'
<1> DEFINE q == handler[c]
<1>1. q \in Seq(Events) /\ q # <<>> /\ UNCHANGED table /\ lost \subseteq lost'
  BY DEF Publish, EventInv, storageVars
<1>2. /\ Len(q) \in Nat \ {0} /\ Len(Tail(q)) = Len(q) - 1 /\ Head(q) = q[1]
      /\ \A k \in 1 .. Len(q) - 1 : Tail(q)[k] = q[k + 1]
  BY <1>1
<1>3. handler'[c] = Tail(q) /\ \A d \in Clients \ {c} : handler'[d] = handler[d]
  BY DEF Publish, EventInv
<1>4. \A id \in Ids : published'[id] = IF About(Head(q), id) THEN Said(Head(q)) ELSE published[id]
  BY DEF Publish, Said
<1> SUFFICES ASSUME NEW id \in Ids \ lost PROVE SaysTheTable(id)'
  BY <1>1 DEF SerialInv
<1> HIDE DEF q
<1>5. SaysTheTable(id)
  BY DEF SerialInv
<1>6. ASSUME NEW k \in 1 .. Len(q) PROVE About(q[k], id) => Said(q[k]) = table[id].version
  BY <1>5 DEF SaysTheTable, q
<1>7. ASSUME NEW d \in Clients, NEW k \in 1 .. Len(handler'[d]), About(handler'[d][k], id)
      PROVE  Said(handler'[d][k]) = table[id].version
  <2>1. CASE d = c
    <3>1. k + 1 \in 1 .. Len(q) /\ k \in 1 .. Len(q) - 1
      BY <1>2, <1>3, <1>7, <2>1, SMTT(60)
    <3>2. handler'[d][k] = q[k + 1]
      BY <1>2, <1>3, <2>1, <3>1
    <3> QED
      BY <1>6, <1>7, <3>1, <3>2
  <2>2. CASE d # c
    BY <1>3, <1>5, <1>7, <2>2 DEF SaysTheTable
  <2> QED
    BY <2>1, <2>2
<1>8. ASSUME \A d \in Clients : Silent(handler'[d], id) PROVE published'[id] = table[id].version
  <2>1. CASE About(Head(q), id)
    <3>1. 1 \in 1 .. Len(q)
      BY <1>2
    <3> QED
      BY <1>2, <1>4, <1>6, <2>1, <3>1
  <2>2. CASE ~About(Head(q), id)
    <3>1. ASSUME NEW k \in 1 .. Len(q) PROVE ~About(q[k], id)
      <4>1. CASE k = 1
        BY <1>2, <2>2, <4>1
      <4>2. CASE k # 1
        <5>1. k - 1 \in 1 .. Len(q) - 1 /\ (k - 1) + 1 = k
          BY <1>2, <4>2
        <5>2. ~About(Tail(q)[k - 1], id)
          <6>1. k - 1 \in 1 .. Len(Tail(q))
            BY <1>2, <5>1, ZenonT(60)
          <6>2. Silent(Tail(q), id)
            BY <1>3, <1>8, ZenonT(60)
          <6> QED
            BY <6>1, <6>2, ZenonT(60) DEF Silent
        <5>3. Tail(q)[k - 1] = q[k]
          BY <1>2, <5>1, SMTT(60)
        <5> QED
          BY <5>2, <5>3, ZenonT(60)
      <4> QED
        BY <4>1, <4>2
    <3>2. \A d \in Clients : Silent(handler[d], id)
      BY <1>3, <1>8, <3>1 DEF Silent, q
    <3> QED
      BY <1>4, <1>5, <2>2, <3>2 DEF SaysTheTable
  <2> QED
    BY <2>1, <2>2
<1> QED
  BY <1>1, <1>7, <1>8 DEF SaysTheTable

\* A restart forgets the events of handlers, and their records are lost.
LEMMA RestartSaysTheTable ==
    ASSUME EventInv, SerialInv, Restart
    PROVE  SerialInv'
<1>1. UNCHANGED <<table, published>> /\ lost \subseteq lost' /\ handler' = [c \in Clients |-> <<>>]
  BY DEF Restart, storageVars
<1> SUFFICES ASSUME NEW id \in Ids \ lost' PROVE SaysTheTable(id)'
  BY DEF SerialInv
<1>2. \A c \in Clients : \A k \in DOMAIN handler[c] : ~About(handler[c][k], id)
  BY DEF Restart
<1>3. \A c \in Clients : DOMAIN handler[c] = 1 .. Len(handler[c])
  BY DEF EventInv
<1>4. \A c \in Clients : Silent(handler[c], id)
  BY <1>2, <1>3 DEF Silent
<1>5. published[id] = table[id].version
  BY <1>1, <1>4 DEF SerialInv, SaysTheTable
<1>6. Len(<<>>) = 0
  OBVIOUS
<1>7. \A c \in Clients : handler'[c] = <<>>
  BY <1>1
<1>8. \A c \in Clients : 1 .. Len(handler'[c]) = {}
  BY <1>6, <1>7
<1>9. published'[id] = table'[id].version
  BY <1>1, <1>5
<1> QED
  BY <1>8, <1>9 DEF SaysTheTable

LEMMA SerialNextInv ==
    EventInv /\ TableInv /\ SerialInv /\ [Next]_vars /\ [Serial]_vars => SerialInv'
<1> SUFFICES ASSUME EventInv, TableInv, SerialInv, [Next]_vars, [Serial]_vars PROVE SerialInv'
  OBVIOUS
<1>1. CASE ProcessorStep \/ UNCHANGED vars
  <2>1. UNCHANGED <<table, handler, published>> /\ lost \subseteq lost'
    BY <1>1 DEF ProcessorStep, ReceiveLagged, Receive, IndexRemoved, IndexFails, vars,
                storageVars, busVars
  <2> QED
    BY <2>1 DEF SerialInv, SaysTheTable, Silent
<1>2. CASE UNCHANGED vars
  BY <1>1, <1>2
<1>3. CASE ~UNCHANGED vars
  <2>1. Serial /\ Next
    BY <1>3
  <2> QED
    BY <1>1, <2>1, RequestSaysTheTable, PublishSaysTheTable, RestartSaysTheTable DEF Next
<1> QED
  BY <1>2, <1>3

\* When no request writes a record while another still has an event about it to publish,
\* searches agree with the table at rest: of a record none of whose events was lost the
\* index holds the stored version and no other, and a deleted one is not found.  That
\* order of requests about one record is all that DeletedRecordIsNotFound lacks; lag,
\* failures, batches and restarts do no harm (routes/data.rs, search_processor.rs).
THEOREM SerialWritesAreFound ==
    Spec /\ [][Serial]_vars =>
        [](SearchIsCurrent /\ DeletedRecordIsNotFound)
<1>1. Init => SerialInv
  BY DEF Init, SerialInv, SaysTheTable, NoRow, Row
<1>2. Spec => []TableInv
  BY TableInitInv, TableNextInv, PTL DEF Spec
<1>3. Spec => []EventInv
  BY SearchInitInv, SearchNextInv, EventInitInv, EventNextInv, PTL DEF Spec
<1>4. Spec /\ [][Serial]_vars => []SerialInv
  BY <1>1, <1>2, <1>3, SerialNextInv, PTL DEF Spec
<1>5. SerialInv /\ IndexFollowsEvents => SearchIsCurrent
  <2> SUFFICES ASSUME SerialInv, IndexFollowsEvents, AtRest, NEW id \in Ids \ lost
               PROVE  IndexedVersions(id) = {table[id].version} \ {0}
    BY DEF SearchIsCurrent
  <2>1. IndexedVersions(id) = {published[id]} \ {0}
    BY DEF IndexFollowsEvents, AtRest
  <2>2. Len(<<>>) = 0
    OBVIOUS
  <2>3. \A c \in Clients : Silent(handler[c], id)
    BY <2>2, SMTT(60) DEF AtRest, Silent
  <2> QED
    BY <2>1, <2>3 DEF SerialInv, SaysTheTable
<1>6. SearchIsCurrent => DeletedRecordIsNotFound
  <2> SUFFICES ASSUME SearchIsCurrent, AtRest, NEW id \in Ids, id \notin lost, ~Exists(table, id)
               PROVE  IndexedVersions(id) = {}
    BY DEF DeletedRecordIsNotFound, AtRest
  <2>1. table[id].version = 0
    BY DEF Exists
  <2> QED
    BY <2>1 DEF SearchIsCurrent
<1> QED
  BY <1>4, <1>5, <1>6, IndexHasCaughtUp, PTL

-----------------------------------------------------------------------------
(* The search processor works off its backlog *)

\* An event costs at most a reception and an indexing, and a lag one reception more.
Backlog ==
    3 * Len(channel) + (IF indexing = NoDoc THEN 0 ELSE 2) + (IF lagged THEN 1 ELSE 0)

\* The conditions under which the processor's task has something to do, other than to
\* fail: a lag to take note of, an event of a kind it knows, or a document to index.
CanProcess ==
    \/ indexing # NoDoc
    \/ lagged
    \/ channel # <<>> /\ Head(channel).kind \in {"new", "deleted", "changed"}

\* Every step of the search processor, a failed one included, leaves it less to do, and
\* what is left never grows but by a publication; while there is something left it can go
\* on.  So it reaches the state of which IndexHasCaughtUp speaks once requests are over,
\* whatever the capacity, the batches and the events are (search_processor.rs).
THEOREM BacklogShrinks ==
    /\ Spec => [][/\ ProcessorStep => Backlog' < Backlog
                  /\ (\A c \in Clients : ~Publish(c)) => Backlog' <= Backlog]_vars
    /\ Spec => [](Backlog \in Nat /\ (Backlog = 0 \/ CanProcess))
<1> DEFINE A == /\ ProcessorStep => Backlog' < Backlog
                /\ (\A c \in Clients : ~Publish(c)) => Backlog' <= Backlog
           B == Backlog \in Nat /\ (Backlog = 0 \/ CanProcess)
<1>1. Spec => []EventInv
  BY SearchInitInv, SearchNextInv, EventInitInv, EventNextInv, PTL DEF Spec
<1>2. EventInv => B
  <2> SUFFICES ASSUME EventInv PROVE B
    OBVIOUS
  <2>1. channel \in Seq(Events) /\ Len(channel) \in Nat /\ (Len(channel) = 0 <=> channel = <<>>)
    BY DEF EventInv
  <2>2. channel # <<>> => Head(channel) \in Events
    BY <2>1
  <2>3. channel # <<>> => Head(channel).kind \in {"new", "deleted", "changed"}
    BY <2>2 DEF Events
  <2>4. Backlog \in Nat
    BY <2>1 DEF Backlog
  <2>5. Backlog = 0 \/ CanProcess
    BY <2>1, <2>3 DEF Backlog, CanProcess
  <2> QED
    BY <2>4, <2>5
<1>3. ASSUME EventInv, EventInv', ProcessorStep PROVE Backlog' < Backlog
  <2>1. Len(channel) \in Nat /\ Len(channel') \in Nat
    BY <1>3 DEF EventInv
  <2>2. CASE ReceiveLagged
    <3>1. channel' = channel /\ indexing' = indexing /\ lagged = TRUE /\ lagged' = FALSE
      BY <2>2 DEF ReceiveLagged, searchVars
    <3> QED
      BY <2>1, <3>1 DEF Backlog
  <2>3. CASE Receive
    <3>1. channel' = Tail(channel) /\ channel # <<>> /\ lagged' = lagged /\ indexing = NoDoc
      BY <2>3 DEF Receive
    <3>2. Len(channel') = Len(channel) - 1
      BY <1>3, <3>1 DEF EventInv
    <3> QED
      BY <2>1, <3>1, <3>2 DEF Backlog
  <2>4. CASE IndexRemoved \/ IndexFails
    <3>1. channel' = channel /\ lagged' = lagged /\ indexing # NoDoc /\ indexing' = NoDoc
      BY <2>4 DEF IndexRemoved, IndexFails, busVars
    <3> QED
      BY <2>1, <3>1 DEF Backlog
  <2> QED
    BY <1>3, <2>2, <2>3, <2>4 DEF ProcessorStep
<1>4. ASSUME EventInv, EventInv', Next, \A c \in Clients : ~Publish(c) PROVE Backlog' <= Backlog
  <2>1. Backlog \in Nat /\ Backlog' \in Nat
    <3>1. Len(channel) \in Nat /\ Len(channel') \in Nat
      BY <1>4 DEF EventInv
    <3> QED
      BY <3>1 DEF Backlog
  <2>2. CASE ProcessorStep
    BY <1>3, <1>4, <2>1, <2>2
  <2>3. CASE Restart
    <3>1. channel' = <<>> /\ lagged' = FALSE /\ indexing' = NoDoc
      BY <2>3 DEF Restart
    <3>2. Len(<<>>) = 0
      OBVIOUS
    <3>3. Backlog' = 0
      BY <3>1, <3>2 DEF Backlog
    <3> QED
      BY <2>1, <3>3
  <2>4. ASSUME NEW c \in Clients, NEW id \in Ids,
               \/ CreateRecord(c, id) \/ DeleteRecord(c, id)
               \/ \E version \in 1 .. MaxVersion : UpdateRecord(c, id, version)
        PROVE  Backlog' <= Backlog
    <3>1. channel' = channel /\ lagged' = lagged /\ indexing' = indexing
      BY <2>4, ZenonT(60) DEF CreateRecord, DeleteRecord, UpdateRecord, busVars, searchVars
    <3>2. Backlog' = Backlog
      BY <3>1 DEF Backlog
    <3> QED
      BY <2>1, <3>2
  <2> QED
    BY <1>4, <2>2, <2>3, <2>4 DEF Next
<1>5. EventInv /\ EventInv' /\ [Next]_vars => [A]_vars
  BY <1>3, <1>4
<1> HIDE DEF A, B
<1>6. Spec => [][A]_vars
  BY <1>1, <1>5, PTL DEF Spec
<1>7. Spec => []B
  BY <1>1, <1>2, PTL
<1> QED
  BY <1>6, <1>7 DEF A, B
=============================================================================
