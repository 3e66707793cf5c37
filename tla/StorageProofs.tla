---------------------------- MODULE StorageProofs ---------------------------
(***************************************************************************)
(* Proofs about the stores of documents, records, schemas, credentials and *)
(* rejected payloads, one section for each.                                *)
(***************************************************************************)
EXTENDS DocumentStore, PluginData, SchemaVersioning, IdentityStore, Quarantine, FiniteSetTheorems,
        TLAPS

(***************************************************************************)
(* Payloads in Quarantine are neither lost nor duplicated, for any         *)
(* payloads, slots and reprocessors. The property counts where a payload   *)
(* is; what keeps the count right is where its entry and its reprocessor   *)
(* are at the same time (Placed).                                          *)
(***************************************************************************)

\* A payload is something.
QuarConstants == Vacant \notin Items

Where(i) == {s \in Slots : live[s] = i}

\* The record of i is created and its entry not yet deleted.
Restored(i) == \E w \in Reprocessors : redo[w] = [at |-> "delete", item |-> i]

QuarTypes ==
    /\ live \in [Slots -> Items \cup {Vacant}]
    /\ redo \in [Reprocessors -> [at : {"create", "delete"}, item : Items] \cup {NotRunning}]
    /\ entries \subseteq stored /\ stored \subseteq Items
    /\ \A s \in Slots : live[s] # Vacant => live[s] \in stored
    /\ \A w \in Reprocessors : redo[w] # NotRunning => redo[w].item \in stored
    /\ gone \subseteq stored

\* Where a payload is that nobody deleted or overwrote.
Placed(i) ==
    /\ i \in entries \/ Where(i) # {}
    /\ Restored(i) => Where(i) # {}
    /\ i \notin contested =>
          /\ \A v, w \in InFlight(i) : v = w
          /\ InFlight(i) # {} => i \in entries
          /\ IF i \in entries /\ ~Restored(i) THEN Where(i) = {}
                                              ELSE \E s \in Slots : Where(i) = {s}

QuarInv ==
    /\ QuarTypes
    /\ \A i \in Items : IsFiniteSet(Where(i))
    /\ \A i \in stored \ gone : Placed(i)

-----------------------------------------------------------------------------
\* Writing i to the slot s moves s, and nothing else, to the slots of i.
LEMMA SlotWritten ==
    ASSUME QuarInv, NEW s \in Slots, NEW i \in Items, live' = [live EXCEPT ![s] = i]
    PROVE  /\ Where(i)' = Where(i) \cup {s}
           /\ \A j \in Items \ {i} : Where(j)' = Where(j) \ {s}
           /\ \A j \in Items : IsFiniteSet(Where(j)')
<1>1. Where(i)' = Where(i) \cup {s} /\ \A j \in Items \ {i} : Where(j)' = Where(j) \ {s}
  BY DEF QuarInv, QuarTypes, Where
<1>2. \A j \in Items : IsFiniteSet(Where(j))
  BY DEF QuarInv
<1>3. IsFiniteSet(Where(i) \cup {s}) /\ \A j \in Items : IsFiniteSet(Where(j) \ {s})
  BY <1>2, FS_AddElement, FS_RemoveElement
<1> QED
  BY <1>1, <1>3

LEMMA SameRecords == ASSUME UNCHANGED live PROVE \A i : Where(i)' = Where(i)
BY DEF Where

LEMMA SameCalls ==
    ASSUME UNCHANGED redo
    PROVE  \A i : (Restored(i)' <=> Restored(i)) /\ InFlight(i)' = InFlight(i)
BY DEF Restored, InFlight

\* A payload that was never stored is nowhere.
LEMMA NowhereYet ==
    ASSUME QuarConstants, QuarInv, NEW i \in Items \ stored
    PROVE  Where(i) = {} /\ i \notin entries /\ InFlight(i) = {} /\ ~Restored(i)
BY DEF QuarConstants, QuarInv, QuarTypes, Where, InFlight, Restored, NotRunning

LEMMA CreateKeeps ==
    ASSUME QuarConstants, QuarInv, NEW i \in Items, ValidatedCreate(i)
    PROVE  QuarInv'
<1>1. i \notin stored /\ stored' = stored \cup {i} /\ UNCHANGED <<redo, gone, contested>>
  BY DEF ValidatedCreate
<1>2. i \notin gone
  BY <1>1 DEF QuarInv, QuarTypes
<1>3. Where(i) = {} /\ i \notin entries /\ InFlight(i) = {} /\ ~Restored(i)
  BY <1>1, NowhereYet
<1>4. CASE Create(i) /\ UNCHANGED entries
  <2>1. PICK s \in Slots : live[s] = Vacant /\ live' = [live EXCEPT ![s] = i]
    BY <1>4, ZenonT(60) DEF Create
  <2>2. QuarTypes'
    BY <1>1, <1>4, <2>1 DEF QuarInv, QuarTypes
  <2>3. /\ Where(i)' = Where(i) \cup {s} /\ \A j \in Items : IsFiniteSet(Where(j)')
        /\ \A j \in Items \ {i} : Where(j)' = Where(j) \ {s}
    BY <2>1, SlotWritten, ZenonT(60)
  <2>4. \A j \in Items \ {i} : Where(j)' = Where(j)
    BY <2>1, <2>3 DEF Where, QuarConstants
  <2>5. ASSUME NEW j \in stored' \ gone' PROVE Placed(j)'
    <3>1. CASE j = i
      <4>1. Where(i)' = {s}
        BY <1>3, <2>3
      <4> QED
        BY <1>1, <1>3, <1>4, <3>1, <4>1, SameCalls DEF Placed
    <3>2. CASE j # i
      BY <1>1, <1>4, <2>4, <2>5, <3>2, SameCalls DEF Placed, QuarInv, QuarTypes
    <3> QED
      BY <3>1, <3>2
  <2> QED
    BY <2>2, <2>3, <2>5 DEF QuarInv
<1>5. CASE entries' = entries \cup {i} /\ UNCHANGED live
  <2>1. QuarTypes'
    BY <1>1, <1>5 DEF QuarInv, QuarTypes
  <2>2. \A j \in stored' \ gone' : Placed(j)'
    BY <1>1, <1>2, <1>3, <1>5, SameCalls, SameRecords DEF Placed, QuarInv
  <2> QED
    BY <1>5, <2>1, <2>2, SameRecords DEF QuarInv
<1> QED
  BY <1>4, <1>5 DEF ValidatedCreate

LEMMA OverwriteKeeps ==
    ASSUME QuarConstants, QuarInv, NEW s \in Slots, NEW i \in Items, ValidatedUpdate(s, i)
    PROVE  QuarInv'
<1>1. /\ i \notin stored /\ stored' = stored \cup {i} /\ UNCHANGED <<redo, contested>>
      /\ live[s] # Vacant
  BY DEF ValidatedUpdate
<1>2. i \notin gone
  BY <1>1 DEF QuarInv, QuarTypes
<1>3. Where(i) = {} /\ i \notin entries /\ InFlight(i) = {} /\ ~Restored(i)
  BY <1>1, NowhereYet
<1>4. CASE live' = [live EXCEPT ![s] = i] /\ gone' = gone \cup {live[s]} /\ UNCHANGED entries
  <2>1. QuarTypes'
    BY <1>1, <1>4 DEF QuarInv, QuarTypes
  <2>2. /\ Where(i)' = Where(i) \cup {s} /\ \A j \in Items : IsFiniteSet(Where(j)')
        /\ \A j \in Items \ {i} : Where(j)' = Where(j) \ {s}
    BY <1>4, SlotWritten, ZenonT(60)
  <2>3. ASSUME NEW j \in stored' \ gone' PROVE Placed(j)'
    <3>1. CASE j = i
      <4>1. Where(i)' = {s}
        BY <1>3, <2>2
      <4> QED
        BY <1>1, <1>3, <1>4, <3>1, <4>1, SameCalls DEF Placed
    <3>2. CASE j # i
      <4>1. j \in stored \ gone /\ j \in Items /\ live[s] # j
        BY <1>1, <1>4, <2>3, <3>2 DEF QuarInv, QuarTypes
      <4>2. Where(j)' = Where(j)
        BY <2>2, <3>2, <4>1 DEF Where
      <4> QED
        BY <1>1, <1>4, <4>1, <4>2, SameCalls DEF Placed, QuarInv
    <3> QED
      BY <3>1, <3>2
  <2> QED
    BY <2>1, <2>2, <2>3 DEF QuarInv
<1>5. CASE entries' = entries \cup {i} /\ UNCHANGED <<live, gone>>
  <2>1. QuarTypes'
    BY <1>1, <1>5 DEF QuarInv, QuarTypes
  <2>2. \A j \in stored' \ gone' : Placed(j)'
    BY <1>1, <1>2, <1>3, <1>5, SameCalls, SameRecords DEF Placed, QuarInv
  <2> QED
    BY <1>5, <2>1, <2>2, SameRecords DEF QuarInv
<1> QED
  BY <1>4, <1>5 DEF ValidatedUpdate

LEMMA FetchKeeps ==
    ASSUME QuarConstants, QuarInv, NEW w \in Reprocessors, NEW i \in Items, FetchEntry(w, i)
    PROVE  QuarInv'
<1> DEFINE r == [at |-> "create", item |-> i]
<1>1. /\ redo[w].at = "idle" /\ i \in entries /\ redo' = [redo EXCEPT ![w] = r]
      /\ contested' = IF InFlight(i) # {} THEN contested \cup {i} ELSE contested
      /\ UNCHANGED <<live, entries, stored, gone>>
  BY DEF FetchEntry
<1>2. redo[w] = NotRunning
  BY <1>1 DEF QuarInv, QuarTypes
<1>3. QuarTypes'
  BY <1>1 DEF QuarInv, QuarTypes, NotRunning
<1>4. \A j : Restored(j)' <=> Restored(j)
  <2>1. /\ redo[w].at # "delete" /\ redo'[w].at # "delete"
        /\ \A v \in Reprocessors \ {w} : redo'[v] = redo[v]
    BY <1>1 DEF QuarInv, QuarTypes
  <2>2. \A j : [at |-> "delete", item |-> j].at = "delete"
    OBVIOUS
  <2> QED
    BY <2>1, <2>2 DEF Restored
<1>5. /\ InFlight(i)' = InFlight(i) \cup {w}
      /\ \A j \in Items \ {i} : InFlight(j)' = InFlight(j)
  BY <1>1, <1>2 DEF InFlight, NotRunning, QuarInv, QuarTypes, QuarConstants
<1>6. ASSUME NEW j \in stored' \ gone' PROVE Placed(j)'
  <2>1. Placed(j) /\ j \in Items /\ Where(j)' = Where(j)
    BY <1>1, <1>6, SameRecords DEF QuarInv, QuarTypes
  <2>2. CASE j = i
    BY <1>1, <1>4, <1>5, <2>1, <2>2 DEF Placed
  <2>3. CASE j # i
    BY <1>1, <1>4, <1>5, <2>1, <2>3 DEF Placed
  <2> QED
    BY <2>2, <2>3
<1> QED
  BY <1>1, <1>3, <1>6, SameRecords DEF QuarInv

LEMMA RestoreKeeps ==
    ASSUME QuarConstants, QuarInv, NEW w \in Reprocessors, NEW ok \in BOOLEAN, Restore(w, ok)
    PROVE  QuarInv'
<1> DEFINE i == redo[w].item
<1>1. redo[w].at = "create" /\ UNCHANGED <<entries, stored, gone, contested>>
  BY DEF Restore
<1>2. redo[w] = [at |-> "create", item |-> i] /\ i \in Items /\ i # Vacant /\ i \in stored
  BY <1>1 DEF QuarInv, QuarTypes, NotRunning, QuarConstants
<1>3. PICK c : c = i
  OBVIOUS
<1>4. CASE ok
  <2>1. PICK s \in Slots : live[s] = Vacant /\ live' = [live EXCEPT ![s] = i]
    BY <1>4 DEF Restore, Create
  <2>2. redo' = [redo EXCEPT ![w] = [at |-> "delete", item |-> i]]
    BY <1>2, <1>4 DEF Restore, QuarInv, QuarTypes
  <2>3. QuarTypes'
    BY <1>1, <1>2, <2>1, <2>2 DEF QuarInv, QuarTypes, NotRunning
  <2>4. /\ Where(c)' = Where(c) \cup {s} /\ \A j \in Items : IsFiniteSet(Where(j)')
        /\ \A j \in Items \ {c} : Where(j)' = Where(j) \ {s}
    BY <1>2, <1>3, <2>1, SlotWritten, ZenonT(60)
  <2>5. \A j \in Items \ {c} : Where(j)' = Where(j)
    BY <2>1, <2>4 DEF Where, QuarConstants
  <2>6. /\ \A j : InFlight(j)' = InFlight(j) /\ w \in InFlight(c) /\ Restored(c)'
        /\ \A j \in Items \ {c} : Restored(j)' <=> Restored(j)
    BY <1>2, <1>3, <2>2 DEF InFlight, Restored, QuarInv, QuarTypes
  <2>7. ASSUME NEW j \in stored' \ gone' PROVE Placed(j)'
    <3>1. Placed(j) /\ j \in Items
      BY <1>1, <2>7 DEF QuarInv, QuarTypes
    <3>2. CASE j = c
      <4>1. ASSUME c \notin contested PROVE Where(c) = {} /\ c \in entries
        <5>1. c \in entries /\ \A v \in InFlight(c) : v = w
          BY <2>6, <3>1, <3>2, <4>1 DEF Placed
        <5>2. ASSUME NEW v \in Reprocessors, redo[v] = [at |-> "delete", item |-> c]
              PROVE  FALSE
          <6>1. [at |-> "delete", item |-> c].at = "delete" /\ [at |-> "delete", item |-> c].item = c
            OBVIOUS
          <6>2. redo[v].at = "delete" /\ redo[v].item = c
            BY <5>2, <6>1, Zenon
          <6>3. v = w
            BY <5>1, <6>2 DEF InFlight
          <6> QED
            BY <1>1, <6>2, <6>3, Zenon
        <5>3. ~Restored(c)
          BY <5>2 DEF Restored
        <5> QED
          BY <3>1, <3>2, <4>1, <5>1, <5>3 DEF Placed
      <4> QED
        BY <1>1, <2>4, <2>6, <3>1, <3>2, <4>1, ZenonT(60) DEF Placed
    <3>3. CASE j # c
      BY <1>1, <2>5, <2>6, <3>1, <3>3, ZenonT(60) DEF Placed
    <3> QED
      BY <3>2, <3>3
  <2> QED
    BY <2>3, <2>4, <2>7 DEF QuarInv
<1>5. CASE ~ok
  <2>1. redo' = [redo EXCEPT ![w] = NotRunning] /\ UNCHANGED live
    BY <1>5 DEF Restore
  <2>2. QuarTypes'
    BY <1>1, <2>1 DEF QuarInv, QuarTypes
  <2>3. \A j \in Items : (Restored(j)' <=> Restored(j)) /\ InFlight(j)' \subseteq InFlight(j)
    BY <1>2, <2>1 DEF QuarInv, QuarTypes, Restored, InFlight, NotRunning, QuarConstants
  <2>4. \A j \in stored' \ gone' : Placed(j)'
    BY <1>1, <2>1, <2>3, SameRecords DEF Placed, QuarInv, QuarTypes
  <2> QED
    BY <2>1, <2>2, <2>4, SameRecords DEF QuarInv
<1> QED
  BY <1>4, <1>5

LEMMA DropKeeps ==
    ASSUME QuarConstants, QuarInv, NEW w \in Reprocessors, NEW ok \in BOOLEAN, DropEntry(w, ok)
    PROVE  QuarInv'
<1>1. PICK c : c = redo[w].item
  OBVIOUS
<1>2. /\ redo[w].at = "delete" /\ redo' = [redo EXCEPT ![w] = NotRunning]
      /\ entries' = IF ok THEN entries \ {c} ELSE entries
      /\ contested' = IF ok THEN contested ELSE contested \cup {c}
      /\ UNCHANGED <<live, stored, gone>>
  BY <1>1 DEF DropEntry
<1>3. redo[w] = [at |-> "delete", item |-> c] /\ c \in Items
  BY <1>1, <1>2 DEF QuarInv, QuarTypes, NotRunning
<1>4. QuarTypes'
  BY <1>2 DEF QuarInv, QuarTypes
<1>5. /\ Restored(c) /\ w \in InFlight(c) /\ InFlight(c)' = InFlight(c) \ {w}
      /\ \A j \in Items : Restored(j)' => Restored(j)
      /\ \A j \in Items \ {c} : (Restored(j)' <=> Restored(j)) /\ InFlight(j)' = InFlight(j)
  BY <1>2, <1>3 DEF QuarInv, QuarTypes, Restored, InFlight, NotRunning, QuarConstants
<1>6. ASSUME NEW j \in stored' \ gone' PROVE Placed(j)'
  <2>1. Placed(j) /\ j \in Items /\ Where(j)' = Where(j)
    BY <1>2, <1>6, SameRecords DEF QuarInv, QuarTypes
  <2>2. CASE j = c
    BY <1>2, <1>5, <2>1, <2>2 DEF Placed
  <2>3. CASE j # c
    BY <1>2, <1>5, <2>1, <2>3 DEF Placed
  <2> QED
    BY <2>2, <2>3
<1> QED
  BY <1>2, <1>4, <1>6, SameRecords DEF QuarInv

LEMMA RestartedKeeps ==
    ASSUME QuarConstants, QuarInv, Restarted
    PROVE  QuarInv'
<1>1. /\ contested' = contested \cup {redo[w].item : w \in {v \in Reprocessors : redo[v].at = "delete"}}
      /\ redo' = [w \in Reprocessors |-> NotRunning]
      /\ UNCHANGED <<live, entries, stored, gone>>
  BY DEF Restarted
<1>2. QuarTypes'
  BY <1>1 DEF QuarInv, QuarTypes
<1>3. \A j \in Items : ~Restored(j)' /\ InFlight(j)' = {}
  BY <1>1 DEF Restored, InFlight, NotRunning, QuarConstants
<1>4. \A j \in Items : j \notin contested' => j \notin contested /\ ~Restored(j)
  BY <1>1 DEF Restored
<1>5. \A j \in stored' \ gone' : Placed(j)'
  BY <1>1, <1>3, <1>4, SameRecords DEF Placed, QuarInv, QuarTypes
<1> QED
  BY <1>1, <1>2, <1>5, SameRecords DEF QuarInv

LEMMA QuarNextInv ==
    ASSUME QuarConstants
    PROVE  QuarInv /\ [QuarNext]_quarVars => QuarInv'
<1> SUFFICES ASSUME QuarInv, [QuarNext]_quarVars PROVE QuarInv'
  OBVIOUS
<1>1. ASSUME NEW i \in Items, DeleteQuarantine(i) PROVE QuarInv'
  <2>1. /\ i \in entries /\ entries' = entries \ {i} /\ gone' = gone \cup {i}
        /\ UNCHANGED <<live, redo, stored, contested>>
    BY <1>1 DEF DeleteQuarantine
  <2>2. QuarTypes'
    BY <2>1 DEF QuarInv, QuarTypes
  <2>3. \A j \in stored' \ gone' : Placed(j)'
    BY <2>1, SameCalls, SameRecords DEF Placed, QuarInv
  <2> QED
    BY <2>1, <2>2, <2>3, SameRecords DEF QuarInv
<1>2. CASE UNCHANGED quarVars
  <2>1. UNCHANGED <<live, entries, redo, stored, gone, contested>>
    BY <1>2 DEF quarVars
  <2>2. QuarTypes'
    BY <2>1 DEF QuarInv, QuarTypes
  <2>3. \A j \in stored' \ gone' : Placed(j)'
    BY <2>1, SameCalls, SameRecords DEF Placed, QuarInv
  <2> QED
    BY <2>1, <2>2, <2>3, SameRecords DEF QuarInv
<1> QED
  BY <1>1, <1>2, CreateKeeps, OverwriteKeeps, FetchKeeps, RestoreKeeps, DropKeeps, RestartedKeeps
     DEF QuarNext

LEMMA CountedOnce ==
    ASSUME QuarInv, NEW i \in stored \ gone
    PROVE  /\ Copies(i) >= 1
           /\ i \notin contested /\ InFlight(i) = {} => Copies(i) = 1
<1>1. Placed(i) /\ IsFiniteSet(Where(i)) /\ Copies(i) = Cardinality(Where(i)) + Cardinality(entries \cap {i})
  BY DEF QuarInv, QuarTypes, Copies, Where
<1>2. /\ Cardinality(entries \cap {i}) = IF i \in entries THEN 1 ELSE 0
  <2>1. entries \cap {i} = IF i \in entries THEN {i} ELSE {}
    OBVIOUS
  <2> QED
    BY <2>1, FS_EmptySet, FS_Singleton, ZenonT(60)
<1>3. Cardinality(Where(i)) \in Nat /\ (Where(i) # {} => Cardinality(Where(i)) >= 1)
  BY <1>1, FS_CardinalityType, FS_EmptySet
<1>4. Copies(i) >= 1
  BY <1>1, <1>2, <1>3 DEF Placed
<1>5. ASSUME i \notin contested, InFlight(i) = {} PROVE Copies(i) = 1
  <2>1. ~Restored(i)
    BY <1>5 DEF Restored, InFlight
  <2>2. CASE i \in entries
    BY <1>1, <1>2, <1>5, <2>1, <2>2, FS_EmptySet DEF Placed
  <2>3. CASE i \notin entries
    <3>1. PICK s \in Slots : Where(i) = {s}
      BY <1>1, <1>5, <2>3 DEF Placed
    <3>2. Cardinality(Where(i)) = 1
      BY <3>1, FS_Singleton, ZenonT(60)
    <3> QED
      BY <1>1, <1>2, <2>3, <3>2
  <2> QED
    BY <2>2, <2>3
<1> QED
  BY <1>4, <1>5

\* A submitted payload that nobody deleted or overwrote is in its collection or in the
\* quarantine, and once, whatever the schemas of the later starts accept and however
\* many calls reprocess the quarantine: a second copy needs two calls on one entry, or
\* a call that ends between its create and its delete.
THEOREM PayloadsAreConserved ==
    ASSUME QuarConstants
    PROVE  QuarSpec => []ItemsConserved
<1>1. QuarInit => QuarInv
  <2> SUFFICES ASSUME QuarInit PROVE QuarInv
    OBVIOUS
  <2>1. QuarTypes /\ stored = {}
    BY DEF QuarInit, QuarTypes
  <2>2. \A i \in Items : Where(i) = {}
    BY DEF QuarInit, Where, QuarConstants
  <2> QED
    BY <2>1, <2>2, FS_EmptySet DEF QuarInv
<1>2. QuarInv => ItemsConserved
  BY CountedOnce DEF ItemsConserved
<1> QED
  BY <1>1, <1>2, QuarNextInv, PTL DEF QuarSpec

-----------------------------------------------------------------------------
(***************************************************************************)
(* Every token that IdentityStore hands out is in the audit log, for any   *)
(* credentials, claims and disclosures in flight. A disclosure reads the   *)
(* credential and records it in two halves, so the invariant is about what *)
(* lies between them: it asserts no claim beyond those it was asked for.   *)
(***************************************************************************)

Disclosures ==
    [at : {"record", "end"}, cred : CredIds, names : SUBSET Claims, claims : ClaimMap]

\* A disclosure between its two halves asserts no claim beyond those it was asked for.
IdInv ==
    /\ wallet \in [CredIds -> ClaimMap \cup {NoCred}]
    /\ asking \in [Askers -> Disclosures \cup {NoAsk}]
    /\ \A r \in Askers : asking[r] # NoAsk => Named(asking[r].claims) \subseteq asking[r].names
    /\ EveryTokenAudited

\* The end of a disclosure changes nothing of what it asserts.
LEMMA EndAskKeeps ==
    ASSUME IdInv, NEW r \in Askers, asking[r] # NoAsk, EndAsk(r)
    PROVE  /\ asking' \in [Askers -> Disclosures \cup {NoAsk}]
           /\ \A s \in Askers : asking'[s] # NoAsk =>
                 Named(asking'[s].claims) \subseteq asking'[s].names
<1>1. asking[r] \in Disclosures
  BY DEF IdInv
<1>2. PICK ask \in Disclosures :
         /\ asking' = [asking EXCEPT ![r] = ask]
         /\ ask.names = asking[r].names /\ ask.claims = asking[r].claims
  <2> DEFINE ask == [asking[r] EXCEPT !.at = "end"]
  <2>1. asking' = [asking EXCEPT ![r] = ask]
    BY DEF EndAsk
  <2>2. ask \in Disclosures /\ ask.names = asking[r].names /\ ask.claims = asking[r].claims
    BY <1>1 DEF Disclosures
  <2> QED
    BY <2>1, <2>2, ZenonT(60)
<1> QED
  BY <1>2 DEF IdInv

LEMMA IdNextInv == IdInv /\ [IdNext]_idVars => IdInv'
<1> SUFFICES ASSUME IdInv, [IdNext]_idVars PROVE IdInv'
  OBVIOUS
<1>1. CASE UNCHANGED idVars
  BY <1>1 DEF idVars, IdInv, EveryTokenAudited
<1>2. ASSUME NEW c \in CredIds, NEW claims \in ClaimMap,
             CreateCredential(c, claims) \/ UpdateCredential(c, claims)
      PROVE  IdInv'
  BY <1>2 DEF CreateCredential, UpdateCredential, IdInv, EveryTokenAudited
<1>3. ASSUME NEW c \in CredIds, DeleteCredential(c) PROVE IdInv'
  BY <1>3 DEF DeleteCredential, IdInv, EveryTokenAudited
<1>4. ASSUME NEW r \in Askers, NEW c \in CredIds, NEW names \in SUBSET Claims,
             DiscloseRead(r, c, names)
      PROVE  IdInv'
  <2> DEFINE claims == [n \in Claims |-> IF n \in names THEN wallet[c][n] ELSE 0]
             ask == [at |-> "record", cred |-> c, names |-> names, claims |-> claims]
  <2>1. claims \in ClaimMap /\ Named(claims) \subseteq names
    BY <1>4 DEF DiscloseRead, IdInv, ClaimMap, Named
  <2>2. ask \in Disclosures /\ ask.names = names /\ ask.claims = claims
    BY <2>1 DEF Disclosures
  <2>3. asking' = [asking EXCEPT ![r] = ask] /\ UNCHANGED <<wallet, trail, handed>>
    BY <1>4, ZenonT(60) DEF DiscloseRead
  <2> HIDE DEF ask, claims
  <2> QED
    BY <2>1, <2>2, <2>3 DEF IdInv, EveryTokenAudited
<1>5. ASSUME NEW r \in Askers, DiscloseRecord(r) PROVE IdInv'
  <2>1. /\ asking[r] # NoAsk /\ EndAsk(r) /\ UNCHANGED wallet
        /\ trail' = trail \cup {RecordOf(r)} /\ handed' \subseteq handed \cup {TokenOf(r)}
    BY <1>5 DEF DiscloseRecord
  <2>2. /\ RecordOf(r).token = TokenOf(r).id /\ RecordOf(r).cred = TokenOf(r).cred
        /\ Named(TokenOf(r).claims) \subseteq RecordOf(r).names
    BY <2>1, ZenonT(60) DEF IdInv, RecordOf, TokenOf
  <2>3. EveryTokenAudited'
    BY <2>1, <2>2 DEF IdInv, EveryTokenAudited
  <2> QED
    BY <2>1, <2>3, EndAskKeeps DEF IdInv
<1>6. ASSUME NEW r \in Askers, DiscloseFail(r) PROVE IdInv'
  BY <1>6, EndAskKeeps DEF DiscloseFail, IdInv, EveryTokenAudited
<1> QED
  BY <1>1, <1>2, <1>3, <1>4, <1>5, <1>6 DEF IdNext

\* Every token that disclose has handed out has an entry of the audit log that names all
\* it asserts, whatever was updated, deleted, dropped or failed between its two halves.
THEOREM EveryDisclosureIsAudited == IdSpec => []EveryTokenAudited
<1>1. IdInit => IdInv
  BY DEF IdInit, IdInv, EveryTokenAudited
<1>2. IdInv => EveryTokenAudited
  BY DEF IdInv
<1> QED
  BY <1>1, <1>2, IdNextInv, PTL DEF IdSpec

-----------------------------------------------------------------------------
(***************************************************************************)
(* The three properties of document calls, for any documents, callers and  *)
(* requests and any number of calls in flight: the audit trail follows the *)
(* table, a misfiled credential was written blindly, and the documents     *)
(* form a versioned table.                                                 *)
(***************************************************************************)

\* What StorageContext and StorageRouter offer; create takes the id from the
\* document itself.
DocConstants ==
    \A q \in Wanted :
        /\ q.op \in Writes \cup Unaudited
        /\ q.op = "create" => q.ids = {q.body}

Bodies == {q.body : q \in Wanted} \cup {NoId}
AskedScopes == {q.scope : q \in Wanted}
Phases == {"reading", "validated", "queued", "abandoned", "ran", "failed",
           "timeout", "refused", "ok", "error"}

Made == [op : Writes \cup Unaudited, scope : AskedScopes, ids : {q.ids : q \in Wanted},
         body : Bodies, blind : BOOLEAN, at : Phases]

Doc == [version : Nat \ {0}, scope : AskedScopes, seal : Bodies, blind : BOOLEAN]

DocTypeOK ==
    /\ docs \in [DocIds -> Doc \cup {NoDoc}]
    /\ call \in [Calls -> Made \cup {NotMade}]

\* A call has written only once its job has run, and its job runs once; an
\* update that saw the stored document names that document's id.
CallsOK ==
    \A c \in Calls :
        /\ c \in applied => Is(c, "ran") \/ Is(c, "timeout") \/ Is(c, "ok")
        /\ Is(c, "ran") => c \in applied
        /\ call[c] # NotMade /\ call[c].op = "create" => call[c].ids = {call[c].body}
        /\ call[c] # NotMade /\ ~call[c].blind /\ ~Is(c, "refused")
              => call[c].body = NoId \/ call[c].ids = {call[c].body}

DocInv ==
    /\ DocTypeOK /\ CallsOK
    /\ applied \subseteq Calls
    /\ AuditFollowsWrite /\ MisfiledOnlyWhenBlind

-----------------------------------------------------------------------------
\* A call that has a phase has been made.
LEMMA CallIsMade ==
    ASSUME DocTypeOK, NEW c \in Calls, call[c].at \in Phases
    PROVE  call[c] \in Made
<1>1. NotMade.at \notin Phases  BY DEF NotMade, Phases
<1> QED  BY <1>1 DEF DocTypeOK

\* Moving a call to another phase changes nothing else of it.
LEMMA Moved ==
    ASSUME DocTypeOK, NEW c \in Calls, call[c] \in Made, NEW phase \in Phases,
           NEW sight \in BOOLEAN,
           call' = [call EXCEPT ![c].at = phase, ![c].blind = sight]
    PROVE  /\ call' \in [Calls -> Made \cup {NotMade}]
           /\ call'[c] \in Made
           /\ call'[c].at = phase /\ call'[c].blind = sight
           /\ call'[c].op = call[c].op /\ call'[c].ids = call[c].ids
           /\ call'[c].body = call[c].body /\ call'[c].scope = call[c].scope
           /\ \A d \in Calls \ {c} : call'[d] = call[d]
<1>1. ASSUME NEW m \in Made PROVE [m EXCEPT !.at = phase, !.blind = sight] \in Made
  BY ZenonT(60) DEF Made
<1>2. call'[c] = [call[c] EXCEPT !.at = phase, !.blind = sight]  BY DEF DocTypeOK
<1>3. call'[c] \in Made  BY <1>1, <1>2, ZenonT(60)
<1> QED  BY <1>2, <1>3 DEF DocTypeOK, Made

LEMMA MovedOn ==
    ASSUME DocTypeOK, NEW c \in Calls, call[c] \in Made, NEW phase \in Phases,
           Move(c, phase)
    PROVE  /\ call' \in [Calls -> Made \cup {NotMade}]
           /\ call'[c] \in Made
           /\ call'[c].at = phase /\ call'[c].blind = call[c].blind
           /\ call'[c].op = call[c].op /\ call'[c].ids = call[c].ids
           /\ call'[c].body = call[c].body /\ call'[c].scope = call[c].scope
           /\ \A d \in Calls \ {c} : call'[d] = call[d]
<1>1. ASSUME NEW m \in Made PROVE [m EXCEPT !.at = phase] \in Made
  BY DEF Made
<1>2. call'[c] = [call[c] EXCEPT !.at = phase]  BY DEF DocTypeOK, Move
<1>3. call'[c] \in Made  BY <1>1, <1>2
<1> QED  BY <1>2, <1>3 DEF DocTypeOK, Made, Move

\* A made call is not NotMade.
LEMMA MadeIsMade == NotMade \notin Made
BY DEF NotMade, Made, Phases

\* A call that moves on keeps what the invariant says of calls, if what it says of
\* the phase holds of the new one.
LEMMA CallsStayOK ==
    ASSUME DocInv, NEW c \in Calls, call[c] # NotMade, call[c].at # "refused",
           \A d \in Calls \ {c} : call'[d] = call[d] /\ (d \in applied' <=> d \in applied),
           call'[c].op = call[c].op, call'[c].ids = call[c].ids,
           call'[c].body = call[c].body, call'[c].blind = call[c].blind,
           c \in applied' => call'[c].at \in {"ran", "timeout", "ok"},
           call'[c].at = "ran" => c \in applied'
    PROVE  CallsOK'
<1>1. /\ call[c].op = "create" => call[c].ids = {call[c].body}
      /\ ~call[c].blind => call[c].body = NoId \/ call[c].ids = {call[c].body}
  BY ZenonT(60) DEF DocInv, CallsOK, Is
<1>2. /\ call'[c].op = "create" => call'[c].ids = {call'[c].body}
      /\ ~call'[c].blind => call'[c].body = NoId \/ call'[c].ids = {call'[c].body}
  BY <1>1, ZenonT(60)
<1> QED  BY <1>2, ZenonT(60) DEF DocInv, CallsOK, Is

LEMMA DocInvInit == DocInit => DocInv
BY DEF DocInit, DocInv, DocTypeOK, CallsOK, AuditFollowsWrite, MisfiledOnlyWhenBlind,
       NoDoc, NotMade, Is

-----------------------------------------------------------------------------
LEMMA SubmitKeeps ==
    ASSUME DocConstants, DocInv, NEW c \in Calls, NEW q \in Wanted, Submit(c, q)
    PROVE  DocInv'
<1> DEFINE at == IF ~Permitted(q.who, q.op, q.scope) THEN "refused"
                 ELSE IF ReadsFirst(q.who, q.op, q.scope) THEN "reading" ELSE "validated"
           new == [op |-> q.op, scope |-> q.scope, ids |-> q.ids, body |-> q.body,
                   blind |-> TRUE, at |-> at]
<1>1. at \in {"refused", "reading", "validated"}  OBVIOUS
<1>2. call' = [call EXCEPT ![c] = new]  BY DEF Submit
<1>3. new \in Made
  <2>1. q.op \in Writes \cup Unaudited  BY DEF DocConstants
  <2>2. q.scope \in AskedScopes /\ q.body \in Bodies  BY DEF AskedScopes, Bodies
  <2>3. at \in Phases  BY <1>1 DEF Phases
  <2> HIDE DEF at
  <2> QED  BY <2>1, <2>2, <2>3 DEF Made
<1> HIDE DEF at
<1>4. call'[c] = new /\ \A d \in Calls \ {c} : call'[d] = call[d]
  BY <1>2 DEF DocInv, DocTypeOK
<1>5. c \notin applied /\ c \notin audit
  BY DEF Submit, Is, DocInv, CallsOK, AuditFollowsWrite
<1>6. DocTypeOK'  BY <1>2, <1>3, ZenonT(60) DEF Submit, DocInv, DocTypeOK
<1>7. CallsOK'
  <2>1. q.op = "create" => q.ids = {q.body}  BY DEF DocConstants
  <2>2. /\ call'[c].op = q.op /\ call'[c].ids = q.ids /\ call'[c].body = q.body
        /\ call'[c].blind /\ call'[c].at = at
    BY <1>4
  <2>3. at # "ran" /\ applied' = applied  BY <1>1 DEF Submit
  <2> QED  BY <1>4, <1>5, <2>1, <2>2, <2>3, ZenonT(60) DEF DocInv, CallsOK, Is
<1>8. AuditFollowsWrite'
  BY <1>1, <1>4, <1>5 DEF Submit, DocInv, AuditFollowsWrite, Is
<1>9. MisfiledOnlyWhenBlind'  BY DEF Submit, DocInv, MisfiledOnlyWhenBlind
<1> QED  BY <1>6, <1>7, <1>8, <1>9 DEF DocInv, Submit

LEMMA ReadKeeps ==
    ASSUME DocInv, NEW c \in Calls, NEW inTime \in BOOLEAN, ReadExisting(c, inTime)
    PROVE  DocInv'
<1> DEFINE found == inTime /\ \E i \in call[c].ids : Held(i, call[c].scope)
           next == IF SameId(c, found) THEN "validated" ELSE "refused"
           sight == ~found
<1>1. sight \in BOOLEAN  OBVIOUS
<1>2. next \in {"validated", "refused"}  OBVIOUS
<1>3. call[c] \in Made  BY CallIsMade DEF ReadExisting, Is, Phases, DocInv
<1>4. call' = [call EXCEPT ![c].at = next, ![c].blind = sight]  BY DEF ReadExisting
<1>5. next = "validated" /\ ~sight => call[c].body = NoId \/ call[c].ids = {call[c].body}
  BY DEF SameId
<1> HIDE DEF found, next, sight
<1>6. next \in Phases  BY <1>2 DEF Phases
<1>7. /\ call' \in [Calls -> Made \cup {NotMade}]
      /\ call'[c] \in Made /\ call'[c].at = next /\ call'[c].blind = sight
      /\ call'[c].op = call[c].op /\ call'[c].ids = call[c].ids
      /\ call'[c].body = call[c].body
      /\ \A d \in Calls \ {c} : call'[d] = call[d]
  BY <1>1, <1>3, <1>4, <1>6, Moved, ZenonT(60) DEF DocInv
<1>8. c \notin applied /\ c \notin audit
  BY DEF ReadExisting, Is, DocInv, CallsOK, AuditFollowsWrite
<1>9. DocTypeOK'  BY <1>7 DEF ReadExisting, DocInv, DocTypeOK
<1>10. CallsOK'
  BY <1>2, <1>3, <1>5, <1>7, <1>8, MadeIsMade, SMTT(30), ZenonT(30)
     DEF ReadExisting, DocInv, CallsOK, Is
<1>11. AuditFollowsWrite'
  BY <1>2, <1>7, <1>8 DEF ReadExisting, DocInv, AuditFollowsWrite, Is
<1>12. MisfiledOnlyWhenBlind'  BY DEF ReadExisting, DocInv, MisfiledOnlyWhenBlind
<1> QED  BY <1>9, <1>10, <1>11, <1>12 DEF DocInv, ReadExisting

\* Enqueue and Deadline: a call that has not run moves on without running.
LEMMA WaitingKeeps ==
    ASSUME DocInv, NEW c \in Calls, Enqueue(c) \/ Deadline(c)
    PROVE  DocInv'
<1>1. PICK phase \in {"queued", "refused", "abandoned"} : Move(c, phase)
  BY DEF Enqueue, Deadline
<1>2. call[c].at \in {"validated", "queued"}  BY DEF Enqueue, Deadline, Is
<1>3. call[c] \in Made  BY <1>2, CallIsMade DEF Phases, DocInv
<1>4. phase \in Phases  BY DEF Phases
<1>5. /\ call' \in [Calls -> Made \cup {NotMade}]
      /\ call'[c] \in Made /\ call'[c].at = phase /\ call'[c].blind = call[c].blind
      /\ call'[c].op = call[c].op /\ call'[c].ids = call[c].ids
      /\ call'[c].body = call[c].body
      /\ \A d \in Calls \ {c} : call'[d] = call[d]
  BY <1>1, <1>3, <1>4, MovedOn DEF DocInv
<1>6. UNCHANGED <<docs, applied, audit>>  BY DEF Enqueue, Deadline
<1>7. c \notin applied /\ c \notin audit
  BY <1>2 DEF Is, DocInv, CallsOK, AuditFollowsWrite
<1>8. DocTypeOK'  BY <1>5, <1>6 DEF DocInv, DocTypeOK
<1>9. CallsOK'
  <2>1. call[c] # NotMade /\ call[c].at # "refused" /\ call'[c].at # "ran"
    BY <1>2, <1>3, <1>5, MadeIsMade
  <2> QED  BY <1>5, <1>6, <1>7, <2>1, CallsStayOK, ZenonT(60)
<1>10. AuditFollowsWrite'
  BY <1>5, <1>6, <1>7 DEF DocInv, AuditFollowsWrite, Is
<1>11. MisfiledOnlyWhenBlind'  BY <1>6 DEF DocInv, MisfiledOnlyWhenBlind
<1> QED  BY <1>6, <1>8, <1>9, <1>10, <1>11 DEF DocInv

LEMMA CompleteKeeps ==
    ASSUME DocInv, NEW c \in Calls, Complete(c)
    PROVE  DocInv'
<1>1. PICK phase \in {"ok", "error"} :
         /\ Move(c, phase)
         /\ phase = IF Is(c, "ran") THEN "ok" ELSE "error"
  BY DEF Complete
<1>2. call[c].at \in {"ran", "failed"}  BY DEF Complete, Is
<1>3. call[c] \in Made  BY <1>2, CallIsMade DEF Phases, DocInv
<1>4. phase \in Phases  BY DEF Phases
<1>5. /\ call' \in [Calls -> Made \cup {NotMade}]
      /\ call'[c] \in Made /\ call'[c].at = phase /\ call'[c].blind = call[c].blind
      /\ call'[c].op = call[c].op /\ call'[c].ids = call[c].ids
      /\ call'[c].body = call[c].body
      /\ \A d \in Calls \ {c} : call'[d] = call[d]
  BY <1>1, <1>3, <1>4, MovedOn DEF DocInv
<1>6. DocTypeOK'  BY <1>5 DEF Complete, DocInv, DocTypeOK
<1>7. CallsOK'
  <2>1. call[c] # NotMade /\ call[c].at # "refused" /\ call'[c].at # "ran"
    BY <1>2, <1>3, <1>5, MadeIsMade
  <2>2. c \in applied => call'[c].at = "ok"
    BY <1>1, <1>2, <1>5 DEF DocInv, CallsOK, Is
  <2>3. applied' = applied  BY DEF Complete
  <2> QED  BY <1>5, <2>1, <2>2, <2>3, CallsStayOK, ZenonT(60)
<1>8. call[c].op \in Writes \cup Unaudited  BY <1>3 DEF Made
<1>9. c \in applied <=> call[c].at = "ran"
  BY <1>2 DEF DocInv, CallsOK, Is
<1>10. AuditFollowsWrite'
  BY <1>1, <1>2, <1>5, <1>8, <1>9 DEF Complete, DocInv, AuditFollowsWrite, Is
<1>11. MisfiledOnlyWhenBlind'  BY DEF Complete, DocInv, MisfiledOnlyWhenBlind
<1> QED  BY <1>6, <1>7, <1>10, <1>11 DEF Complete, DocInv

-----------------------------------------------------------------------------
\* What a job that succeeds leaves in a row it names.
Filed(row, i) == row.version > 0 /\ row.seal \notin {i, NoId} => row.blind

LEMMA WrittenRow ==
    ASSUME DocInv, NEW c \in Calls, call[c].at \in {"queued", "abandoned"},
           Succeeds(c), NEW i \in DocIds, i \in call[c].ids
    PROVE  /\ Written(c, i) \in Doc \cup {NoDoc}
           /\ Written(c, i).version \in {docs[i].version + 1, 0}
           /\ Filed(Written(c, i), i)
<1>1. call[c] \in Made  BY CallIsMade DEF Phases, DocInv
<1>2. /\ call[c].op \in Writes \cup Unaudited /\ call[c].scope \in AskedScopes
      /\ call[c].body \in Bodies /\ call[c].blind \in BOOLEAN
  BY <1>1 DEF Made
<1>3. SealOf(c) \in Bodies /\ SealOf(c) \in {call[c].body, NoId}
  BY <1>2 DEF SealOf, Bodies
<1>4. docs[i] \in Doc \cup {NoDoc}  BY DEF DocInv, DocTypeOK
<1>5. CASE call[c].op \in {"create", "batch_create"}
  <2> DEFINE new == [version |-> 1, scope |-> call[c].scope, seal |-> SealOf(c), blind |-> FALSE]
  <2>1. Written(c, i) = new  BY <1>5 DEF Written
  <2>0. 1 \in Nat \ {0} /\ FALSE \in BOOLEAN  OBVIOUS
  <2>2. new \in Doc  BY <1>2, <1>3, <2>0, ZenonT(60) DEF Doc
  <2>3. docs[i].version = 0  BY <1>5 DEF Succeeds, CanCreate
  <2>4. SealOf(c) \in {i, NoId}
    <3>1. CASE call[c].op = "create"
      <4>1. call[c].ids = {call[c].body}
        BY <1>1, <3>1, MadeIsMade DEF DocInv, CallsOK
      <4> QED  BY <1>3, <4>1
    <3>2. CASE call[c].op = "batch_create"  BY <3>2 DEF SealOf, Writes
    <3> QED  BY <1>5, <3>1, <3>2
  <2>5. new.version = 1 /\ new.seal = SealOf(c)  OBVIOUS
  <2> HIDE DEF new
  <2>6. new.version = docs[i].version + 1  BY <2>3, <2>5
  <2>7. Filed(new, i)  BY <2>4, <2>5 DEF Filed
  <2> QED  BY <2>1, <2>2, <2>6, <2>7, ZenonT(60)
<1>6. ASSUME call[c].op \notin {"create", "batch_create"}
      PROVE  docs[i] \in Doc /\ docs[i].version + 1 \in Nat \ {0}
  <2>1. docs[i].version > 0  BY <1>6 DEF Succeeds, CanReplace, Held
  <2>2. docs[i] \in Doc
    <3>1. NoDoc.version = 0 /\ ~(0 > 0)  BY DEF NoDoc
    <3> QED  BY <1>4, <2>1, <3>1, ZenonT(60)
  <2> QED  BY <2>2 DEF Doc
<1>7. CASE call[c].op \in {"update", "batch_update"}
  <2> DEFINE new == [docs[i] EXCEPT !.version = @ + 1, !.seal = SealOf(c), !.blind = call[c].blind]
  <2>1. Written(c, i) = new  BY <1>7 DEF Written
  <2>2. docs[i] \in Doc /\ docs[i].version + 1 \in Nat \ {0}  BY <1>6, <1>7
  <2>3. new \in Doc  BY <1>2, <1>3, <2>2, ZenonT(60) DEF Doc
  <2>4. new.version = docs[i].version + 1 /\ new.seal = SealOf(c) /\ new.blind = call[c].blind
    BY <2>2 DEF Doc
  <2>5. SealOf(c) \in {i, NoId} \/ call[c].blind
    <3>1. CASE ~call[c].blind
      <4>1. call[c].body = NoId \/ call[c].ids = {call[c].body}
        BY <1>1, <3>1, MadeIsMade DEF DocInv, CallsOK, Is
      <4> QED  BY <1>3, <4>1
    <3> QED  BY <3>1
  <2> QED  BY <2>1, <2>3, <2>4, <2>5 DEF Filed
<1>8. CASE call[c].op = "patch"
  <2> DEFINE new == [docs[i] EXCEPT !.version = @ + 1]
  <2>1. Written(c, i) = new  BY <1>8 DEF Written
  <2>2. docs[i] \in Doc /\ docs[i].version + 1 \in Nat \ {0}  BY <1>6, <1>8
  <2>3. new \in Doc  BY <2>2 DEF Doc
  <2>4. /\ new.version = docs[i].version + 1
        /\ new.seal = docs[i].seal /\ new.blind = docs[i].blind
    BY <2>2 DEF Doc
  <2>5. docs[i].version > 0  BY <2>2 DEF Doc
  <2>6. Filed(docs[i], i)  BY DEF DocInv, MisfiledOnlyWhenBlind, Filed
  <2> QED  BY <2>1, <2>3, <2>4, <2>5, <2>6 DEF Filed
<1>9. CASE call[c].op \in {"delete", "batch_delete"}
  <2>1. Written(c, i) = NoDoc  BY <1>9 DEF Written
  <2>2. NoDoc.version = 0 /\ ~(0 > 0)  BY DEF NoDoc
  <2> QED  BY <2>1, <2>2, ZenonT(60) DEF Filed
<1> QED  BY <1>2, <1>5, <1>7, <1>8, <1>9 DEF Writes, Unaudited

LEMMA RunJobKeeps ==
    ASSUME DocInv, NEW c \in Calls, RunJob(c)
    PROVE  DocInv'
<1>1. call[c].at \in {"queued", "abandoned"}  BY DEF RunJob, Is
<1>2. PICK phase \in {"timeout", "ran", "failed"} :
         /\ Move(c, phase)
         /\ phase = "ran" => Succeeds(c)
         /\ Succeeds(c) => phase # "failed"
  BY DEF RunJob
<1>3. call[c] \in Made  BY <1>1, CallIsMade DEF Phases, DocInv
<1>4. phase \in Phases  BY DEF Phases
<1>5. /\ call' \in [Calls -> Made \cup {NotMade}]
      /\ call'[c] \in Made /\ call'[c].at = phase /\ call'[c].blind = call[c].blind
      /\ call'[c].op = call[c].op /\ call'[c].ids = call[c].ids
      /\ call'[c].body = call[c].body
      /\ \A d \in Calls \ {c} : call'[d] = call[d]
  BY <1>2, <1>3, <1>4, MovedOn DEF DocInv
<1>6. applied' = (IF Succeeds(c) THEN applied \cup {c} ELSE applied) /\ audit' = audit
  BY DEF RunJob
<1>7. c \notin applied /\ c \notin audit
  BY <1>1 DEF Is, DocInv, CallsOK, AuditFollowsWrite
<1>8. CallsOK'
  <2>1. ASSUME NEW d \in Calls, d # c
        PROVE  call'[d] = call[d] /\ (d \in applied' <=> d \in applied)
    BY <1>5, <1>6, <2>1
  <2>2. /\ call[c] # NotMade /\ call'[c] # NotMade
        /\ c \in applied' <=> Succeeds(c)
    BY <1>3, <1>5, <1>6, <1>7, MadeIsMade
  <2>3. /\ c \in applied' => call'[c].at \in {"ran", "timeout", "ok"}
        /\ call'[c].at = "ran" => c \in applied'
    BY <1>2, <1>5, <2>2
  <2>4. call[c].at # "refused"  BY <1>1
  <2> QED  BY <1>5, <2>1, <2>2, <2>3, <2>4, CallsStayOK, ZenonT(60)
<1>9. AuditFollowsWrite'
  BY <1>2, <1>5, <1>6, <1>7 DEF DocInv, AuditFollowsWrite, Is
<1>10. docs' \in [DocIds -> Doc \cup {NoDoc}] /\ \A i \in DocIds : Filed(docs'[i], i)
  <2>0. docs \in [DocIds -> Doc \cup {NoDoc}] /\ \A i \in DocIds : Filed(docs[i], i)
    BY DEF DocInv, DocTypeOK, MisfiledOnlyWhenBlind, Filed
  <2>1. CASE ~Succeeds(c)  BY <2>0, <2>1 DEF RunJob
  <2>2. CASE Succeeds(c)
    <3>1. docs' = [i \in DocIds |-> IF i \in call[c].ids THEN Written(c, i) ELSE docs[i]]
      BY <2>2 DEF RunJob
    <3>2. \A i \in DocIds : i \in call[c].ids =>
             Written(c, i) \in Doc \cup {NoDoc} /\ Filed(Written(c, i), i)
      BY <1>1, <2>2, WrittenRow
    <3> HIDE DEF Written
    <3> QED  BY <2>0, <3>1, <3>2
  <2> QED  BY <2>1, <2>2
<1>11. DocTypeOK' /\ MisfiledOnlyWhenBlind'
  BY <1>5, <1>10 DEF DocTypeOK, MisfiledOnlyWhenBlind, Filed
<1> QED  BY <1>6, <1>8, <1>9, <1>11 DEF DocInv

\* Each step preserves DocInv.
LEMMA DocInvNext ==
    ASSUME DocConstants, DocInv, [DocNext]_docVars
    PROVE  DocInv'
<1>1. CASE UNCHANGED docVars
  BY <1>1 DEF docVars, DocInv, DocTypeOK, CallsOK, AuditFollowsWrite,
              MisfiledOnlyWhenBlind, Is
<1> QED
  BY SubmitKeeps, ReadKeeps, WaitingKeeps, CompleteKeeps, RunJobKeeps, <1>1 DEF DocNext

\* For any requests and any number of calls: the events and the table agree,
\* up to the calls that were told Timeout or still wait for their answer.
THEOREM AuditTrailIsFaithful ==
    ASSUME DocConstants PROVE DocSpec => []AuditFollowsWrite
<1>1. DocInv => AuditFollowsWrite  BY DEF DocInv
<1>2. DocInv /\ [DocNext]_docVars => DocInv'  BY DocInvNext
<1> QED  BY DocInvInit, <1>1, <1>2, PTL DEF DocSpec

\* For any requests, a credential sealed for another id than its own was
\* written by an update that did not see the stored document.
THEOREM OnlyBlindWritesMisfile ==
    ASSUME DocConstants PROVE DocSpec => []MisfiledOnlyWhenBlind
<1>1. DocInv => MisfiledOnlyWhenBlind  BY DEF DocInv
<1>2. DocInv /\ [DocNext]_docVars => DocInv'  BY DocInvNext
<1> QED  BY DocInvInit, <1>1, <1>2, PTL DEF DocSpec

-----------------------------------------------------------------------------
\* One step of the calls is one transaction of the table, or none.
LEMMA DocStepSimulates ==
    ASSUME DocInv, DocInv', [DocNext]_docVars
    PROVE  [Table!Write]_[i \in DocIds |-> docs[i].version]
<1> SUFFICES ASSUME NEW r \in DocIds PROVE Table!RowStep(r)
  <2>1. ASSUME NEW i \in DocIds PROVE docs'[i].version \in Nat
    <3>1. docs'[i] \in Doc \/ docs'[i] = NoDoc  BY DEF DocInv, DocTypeOK
    <3>2. CASE docs'[i] \in Doc  BY <3>2 DEF Doc
    <3>3. CASE docs'[i] = NoDoc  BY <3>3 DEF NoDoc
    <3> QED  BY <3>1, <3>2, <3>3
  <2> QED  BY <2>1 DEF Table!Write
<1>1. ASSUME NEW c \in Calls, RunJob(c), Succeeds(c)
      PROVE  Table!RowStep(r)
  <2>1. docs'[r] = IF r \in call[c].ids THEN Written(c, r) ELSE docs[r]
    BY <1>1 DEF RunJob
  <2>2. call[c].at \in {"queued", "abandoned"}  BY <1>1 DEF RunJob, Is
  <2>3. r \in call[c].ids => Written(c, r).version \in {docs[r].version + 1, 0}
    BY <1>1, <2>2, WrittenRow
  <2> QED  BY <2>1, <2>3 DEF Table!RowStep
<1>2. CASE docs' = docs  BY <1>2 DEF Table!RowStep
<1>3. \/ docs' = docs
      \/ \E c \in Calls : RunJob(c) /\ Succeeds(c)
  BY DEF DocNext, docVars, Submit, ReadExisting, Enqueue, Deadline, Complete, RunJob
<1> QED  BY <1>1, <1>2, <1>3

\* For any requests, the documents implement the versioned table: batches,
\* failures and jobs that outlive their deadline included.
THEOREM DocumentsRefineTable ==
    ASSUME DocConstants PROVE DocSpec => DocsAreVersioned
<1>1. DocInit => Table!Init  BY DEF DocInit, Table!Init, NoDoc
<1>2. DocInv /\ [DocNext]_docVars => DocInv'  BY DocInvNext
<1>3. DocInv /\ DocInv' /\ [DocNext]_docVars
         => [Table!Write]_[i \in DocIds |-> docs[i].version]
  BY DocStepSimulates
<1> QED
  BY DocInvInit, <1>1, <1>2, <1>3, PTL DEF DocSpec, DocsAreVersioned, Table!Spec

-----------------------------------------------------------------------------
(***************************************************************************)
(* Two facts about the encrypted record store, for any records, plugins,   *)
(* keys and any number of rotations: credentials stay readable until a     *)
(* rotation is cut short, and the store implements VersionedTable.         *)
(***************************************************************************)

Record ==
    [version : Nat \ {0}, plugin : Plugins, coll : Scopes, shape : Scopes,
     under : DbKeys \cup {FirstKey, PlainText}]

\* CredentialsOpen is not inductive by itself: a write seals under the key the
\* process holds, which is the key of the database until a rekey is cut short.
RecInv ==
    /\ recs \in [RecIds -> Record \cup {NoRec}]
    /\ master \in DbKeys \cup {FirstKey, NoKey}
    /\ dbKey \in DbKeys \cup {FirstKey}
    /\ ~interrupted /\ Running => master = dbKey
    /\ CredentialsOpen

\* A row of the table has a version, and is live exactly when it is a record.
LEMMA RowVersion ==
    ASSUME RecInv, NEW i \in RecIds
    PROVE  /\ recs[i].version \in Nat
           /\ Live(i) => recs[i] \in Record
           /\ ~Live(i) => recs[i] = NoRec
<1>1. recs[i] \in Record \/ recs[i] = NoRec  BY DEF RecInv
<1>2. CASE recs[i] \in Record  BY <1>2 DEF Record, Live
<1>3. CASE recs[i] = NoRec  BY <1>3 DEF NoRec, Live
<1> QED  BY <1>1, <1>2, <1>3

\* A record that is written again is a record.
LEMMA RecordWritten ==
    ASSUME NEW r \in Record, NEW coll \in Scopes, NEW u \in DbKeys \cup {FirstKey, PlainText}
    PROVE  [r EXCEPT !.version = @ + 1, !.shape = coll, !.under = u] \in Record
<1> DEFINE Sealings == DbKeys \cup {FirstKey, PlainText}
<1> HIDE DEF Sealings
<1>1. Record = [version : Nat \ {0}, plugin : Plugins, coll : Scopes, shape : Scopes,
                under : Sealings]
  BY DEF Record, Sealings
<1>2. r.version + 1 \in Nat \ {0}  BY <1>1
<1>3. u \in Sealings  BY DEF Sealings
<1> QED  BY <1>1, <1>2, <1>3, ZenonT(60)

LEMMA RecInvInit == RecInit => RecInv
BY DEF RecInit, RecInv, NoRec, CredentialsOpen, CredentialRows, Live, Running

-----------------------------------------------------------------------------
LEMMA InsertKeeps ==
    ASSUME RecInv, NEW i \in RecIds, NEW p \in Plugins, NEW coll \in Scopes,
           Insert(i, p, coll)
    PROVE  RecInv'
<1> DEFINE new == [version |-> 1, plugin |-> p, coll |-> coll,
                   shape |-> coll, under |-> Form(coll)]
<1>1. Form(coll) \in DbKeys \cup {FirstKey, PlainText}
  BY DEF Insert, RecInv, Form, Running
<1>2. new \in Record  BY <1>1, SMTT(30), ZenonT(30) DEF Record
<1>3. recs' = [recs EXCEPT ![i] = new]  BY DEF Insert
<1>4. recs' \in [RecIds -> Record \cup {NoRec}]  BY <1>2, <1>3 DEF RecInv
<1>5. ~interrupted => Form(coll) \in {dbKey, PlainText}
  BY DEF Insert, RecInv, Form
<1>6. CredentialsOpen'
  BY <1>3, <1>5, SMTT(30), ZenonT(30) DEF Insert, RecInv, CredentialsOpen, CredentialRows, Live
<1> QED  BY <1>4, <1>6 DEF Insert, RecInv, Running

LEMMA UpdateKeeps ==
    ASSUME RecInv, NEW i \in RecIds, NEW p \in Plugins, NEW coll \in Scopes,
           NEW v \in 1..MaxRecVersion, Update(i, p, coll, v)
    PROVE  RecInv'
<1>1. recs[i] \in Record  BY RowVersion DEF Update, Matches
<1>2. Form(coll) \in DbKeys \cup {FirstKey, PlainText}
  BY DEF Update, RecInv, Form, Running
<1> DEFINE new == [recs[i] EXCEPT !.version = @ + 1, !.shape = coll, !.under = Form(coll)]
<1>3. new \in Record  BY <1>1, <1>2, RecordWritten, ZenonT(60)
<1>4. recs' = [recs EXCEPT ![i] = new]  BY <1>1, ZenonT(60) DEF Update, RecInv, Record
<1>5. recs' \in [RecIds -> Record \cup {NoRec}]  BY <1>3, <1>4 DEF RecInv
<1>6. ~interrupted => new.under \in {dbKey, PlainText}
  BY <1>1 DEF Update, RecInv, Form, Record
<1>7. CredentialsOpen'
  BY <1>4, <1>6 DEF Update, RecInv, CredentialsOpen, CredentialRows, Live
<1> QED  BY <1>5, <1>7 DEF Update, RecInv, Running

LEMMA RekeyKeeps ==
    ASSUME RecInv, NEW key \in DbKeys, Rekey(key)
    PROVE  RecInv'
<1>1. ASSUME NEW i \in CredentialRows
      PROVE  /\ recs[i] \in Record
             /\ [recs[i] EXCEPT !.under = key] \in Record
  <2>1. recs[i] \in Record  BY RowVersion DEF CredentialRows
  <2> QED  BY <2>1 DEF Record
<1>2. recs' \in [RecIds -> Record \cup {NoRec}]
  BY <1>1 DEF Rekey, Reencrypted, RecInv
<1>3. ASSUME NEW i \in CredentialRows
      PROVE  recs'[i].under = key
  BY <1>1, <1>3 DEF Rekey, Reencrypted, CredentialRows, Record
<1>4. ASSUME NEW i \in RecIds, i \notin CredentialRows
      PROVE  recs'[i] = recs[i]
  BY <1>4 DEF Rekey, Reencrypted
<1>5. CredentialRows' \subseteq CredentialRows
  BY <1>4 DEF CredentialRows, Live
<1>6. CredentialsOpen'  BY <1>3, <1>5 DEF Rekey, CredentialsOpen
<1> QED  BY <1>2, <1>6 DEF Rekey, RecInv

\* Each step preserves RecInv.
LEMMA RecInvNext == RecInv /\ [RecNext]_recVars => RecInv'
<1> SUFFICES ASSUME RecInv, [RecNext]_recVars PROVE RecInv'
  OBVIOUS
<1>1. ASSUME NEW i \in RecIds, NEW p \in Plugins, Delete(i, p)
      PROVE  RecInv'
  <2>1. recs' = [recs EXCEPT ![i] = NoRec]  BY <1>1 DEF Delete
  <2>2. recs' \in [RecIds -> Record \cup {NoRec}]  BY <2>1 DEF RecInv
  <2>3. CredentialRows' \subseteq CredentialRows \ {i}
    BY <2>1, SMTT(30), ZenonT(30) DEF CredentialRows, Live, RecInv, NoRec
  <2>4. CredentialsOpen'
    BY <1>1, <2>1, <2>3 DEF Delete, CredentialsOpen, RecInv, CredentialRows
  <2> QED  BY <1>1, <2>2, <2>4 DEF Delete, RecInv, Running
<1>2. ASSUME NEW key \in DbKeys, NEW dies \in BOOLEAN, RekeyStops(key, dies)
      PROVE  RecInv'
  BY <1>2 DEF RekeyStops, RecInv, CredentialsOpen
<1>3. ASSUME NEW key \in DbKeys, Open(key)
      PROVE  RecInv'
  BY <1>3 DEF Open, RecInv, CredentialsOpen, CredentialRows, Live
<1>4. CASE Stop
  BY <1>4 DEF Stop, RecInv, CredentialsOpen, CredentialRows, Live, Running
<1>5. CASE UNCHANGED recVars
  BY <1>5 DEF recVars, RecInv, CredentialsOpen, CredentialRows, Live, Running
<1> QED
  BY InsertKeeps, UpdateKeeps, RekeyKeeps, <1>1, <1>2, <1>3, <1>4, <1>5 DEF RecNext

\* For any records, plugins and keys, until a rekey has been cut short every
\* credential opens under the key that opens the database.
THEOREM RotationKeepsCredentials == RecSpec => []CredentialsOpen
<1>1. RecInv => CredentialsOpen  BY DEF RecInv
<1> QED  BY RecInvInit, RecInvNext, <1>1, PTL DEF RecSpec

-----------------------------------------------------------------------------
\* One step of the store is one step of the table, or none.
LEMMA RecStepSimulates ==
    ASSUME RecInv, RecInv', [RecNext]_recVars
    PROVE  [RecTable!Write]_[i \in RecIds |-> recs[i].version]
<1> DEFINE ver == [i \in RecIds |-> recs[i].version]
<1> SUFFICES ASSUME NEW r \in RecIds PROVE RecTable!RowStep(r)
  <2>1. ver' \in [RecIds -> Nat]
    <3>1. ASSUME NEW i \in RecIds PROVE recs'[i].version \in Nat
      <4>1. recs'[i] \in Record \/ recs'[i] = NoRec  BY DEF RecInv
      <4>2. CASE recs'[i] \in Record  BY <4>2 DEF Record
      <4>3. CASE recs'[i] = NoRec  BY <4>3 DEF NoRec
      <4> QED  BY <4>1, <4>2, <4>3
    <3> QED  BY <3>1
  <2> QED  BY <2>1 DEF RecTable!Write
<1> USE DEF RecTable!RowStep
<1>1. ASSUME NEW i \in RecIds, NEW p \in Plugins, NEW coll \in Scopes,
             Insert(i, p, coll)
      PROVE  RecTable!RowStep(r)
  <2>1. recs[i] = NoRec  BY <1>1, RowVersion DEF Insert
  <2>2. recs[i].version = 0  BY <2>1 DEF NoRec
  <2>3. DOMAIN recs = RecIds  BY DEF RecInv
  <2>4. CASE r = i
    <3>1. recs'[i].version = 1  BY <1>1, <2>3 DEF Insert
    <3>2. 1 = 0 + 1  OBVIOUS
    <3> QED  BY <2>2, <2>4, <3>1, <3>2, ZenonT(60)
  <2>5. CASE r # i
    <3>1. recs'[r] = recs[r]  BY <1>1, <2>3, <2>5 DEF Insert
    <3> QED  BY <3>1
  <2> QED  BY <2>4, <2>5
<1>2. ASSUME NEW i \in RecIds, NEW p \in Plugins, NEW coll \in Scopes,
             NEW v \in 1..MaxRecVersion, Update(i, p, coll, v)
      PROVE  RecTable!RowStep(r)
  <2>1. recs[i] \in Record  BY <1>2, RowVersion DEF Update, Matches
  <2> QED  BY <1>2, <2>1 DEF Update, RecInv, Record
<1>3. ASSUME NEW i \in RecIds, NEW p \in Plugins, Delete(i, p)
      PROVE  RecTable!RowStep(r)
  BY <1>3 DEF Delete, RecInv, NoRec
<1>4. ASSUME NEW key \in DbKeys, Rekey(key)
      PROVE  RecTable!RowStep(r)
  <2>1. CASE r \in CredentialRows
    <3>1. recs[r] \in Record  BY <2>1, RowVersion DEF CredentialRows
    <3> QED  BY <1>4, <2>1, <3>1 DEF Rekey, Reencrypted, Record
  <2>2. CASE r \notin CredentialRows
    BY <1>4, <2>2 DEF Rekey, Reencrypted
  <2> QED  BY <2>1, <2>2
<1>5. CASE recs' = recs  BY <1>5
<1> QED
  BY <1>1, <1>2, <1>3, <1>4, <1>5 DEF RecNext, RekeyStops, Open, Stop, recVars

\* plugin_data implements the versioned table, rotations and restarts included.
THEOREM RecordStoreRefinesTable == RecSpec => RecordsAreVersioned
<1>1. RecInit => RecTable!Init
  BY DEF RecInit, RecTable!Init, NoRec
<1>2. RecInv /\ RecInv' /\ [RecNext]_recVars
         => [RecTable!Write]_[i \in RecIds |-> recs[i].version]
  BY RecStepSimulates
<1> QED
  BY RecInvInit, RecInvNext, <1>1, <1>2, PTL DEF RecSpec, RecordsAreVersioned, RecTable!Spec

-----------------------------------------------------------------------------
(***************************************************************************)
(* StoredStaysValid for values of any sizes, any bound on the keywords of  *)
(* a field and any number of releases.                                     *)
(***************************************************************************)

\* The sizes are positive, and the markers are not values, fields or types.
SchemaConstants ==
    /\ Sizes \subseteq Nat \ {0}
    /\ NoField \notin Values /\ NoField \notin Field
    /\ Unwritten \notin Values /\ Unwritten # NoField

\* Types and the property are inductive together.
SchemaInv == SchemaTypeOK /\ StoredStaysValid

-----------------------------------------------------------------------------
\* The keywords of a field have their types.
LEMMA FieldKeywords ==
    ASSUME SchemaConstants, NEW f \in Field
    PROVE  /\ f.max \in Nat /\ f.min \in Nat /\ f.pattern \in Nat /\ f.format \in Nat
           /\ f.enum \subseteq Texts
  <1>1. f \in [type : {"text", "number", NoType}, max : {0} \cup Sizes, min : {0} \cup Sizes,
               pattern : {0} \cup Sizes, format : {0} \cup Sizes, enum : SUBSET Texts,
               default : {0, 1}]
    BY DEF Field
  <1>2. {0} \cup Sizes \subseteq Nat
    BY DEF SchemaConstants
  <1>3. /\ f.max \in {0} \cup Sizes /\ f.min \in {0} \cup Sizes
        /\ f.pattern \in {0} \cup Sizes /\ f.format \in {0} \cup Sizes
        /\ f.enum \in SUBSET Texts
    BY <1>1
  <1>. QED  BY <1>2, <1>3

\* What next schema is considered is a schema.
LEMMA RevisionsAreSchemas ==
    ASSUME NEW s \in Schema, NEW new \in Revisions(s)
    PROVE  new \in Schema
  <1>1. CASE new \in {[s EXCEPT !.required = r] : r \in BOOLEAN}
    BY <1>1 DEF Schema
  <1>2. CASE \E f \in Field \cup {NoField} : new = [s EXCEPT !.field = f]
    BY <1>2 DEF Schema
  <1>. QED  BY <1>1, <1>2 DEF Revisions

\* A bound that is not tightened lets through what the old one let through.
LEMMA LooserBounds ==
    ASSUME NEW x \in Nat, NEW old \in Nat, NEW new \in Nat
    PROVE  /\ (old = 0 \/ x <= old) /\ (new = 0 \/ (old # 0 /\ ~(new < old)))
              => new = 0 \/ x <= new
           /\ x >= old /\ (new = 0 \/ ~(new > old)) => x >= new
  OBVIOUS

\* A field that is compared and found compatible accepts every value that the
\* old one accepted, unless the change is one that is not compared.
LEMMA CompatibleFieldAccepts ==
    ASSUME SchemaConstants, NEW f \in Field, NEW g \in Field, NEW v \in Values,
           f.type = g.type, ~ConstraintsTightened(f, g), ~EnumNarrowed(f, g),
           ~(f.enum = {} /\ g.enum # {}),
           ~(f.format # 0 /\ g.format \notin {0, f.format}),
           FieldAccepts(f, v)
    PROVE  FieldAccepts(g, v)
  <1>1. v.size \in Nat \ {0}
    BY ZenonT(60) DEF Values, SchemaConstants
  <1>0. v.size \in Nat
    BY <1>1
  <1>2. g.max = 0 \/ v.size <= g.max
    <2>1. f.max = 0 \/ v.size <= f.max
      BY ZenonT(60) DEF FieldAccepts
    <2>2. g.max = 0 \/ (f.max # 0 /\ ~(g.max < f.max))
      BY ZenonT(60) DEF ConstraintsTightened, Tightened
    <2>3. f.max \in Nat /\ g.max \in Nat
      BY FieldKeywords, ZenonT(60)
    <2> QED  BY <1>0, <2>1, <2>2, <2>3, LooserBounds, ZenonT(60)
  <1>3. v.size >= g.min
    <2>1. v.size >= f.min
      BY ZenonT(60) DEF FieldAccepts
    <2>2. g.min = 0 \/ ~(g.min > f.min)
      BY ZenonT(60) DEF ConstraintsTightened, Tightened
    <2>3. f.min \in Nat /\ g.min \in Nat
      BY FieldKeywords, ZenonT(60)
    <2> QED  BY <1>0, <2>1, <2>2, <2>3, LooserBounds, ZenonT(60)
  <1>4. MeetsText(g.pattern, v)
    BY FieldKeywords DEF ConstraintsTightened, FieldAccepts, MeetsText
  <1>5. MeetsText(g.format, v)
    BY FieldKeywords DEF ConstraintsTightened, FieldAccepts, MeetsText
  <1>6. g.enum = {} \/ v \in g.enum
    BY DEF EnumNarrowed, FieldAccepts
  <1>. QED  BY <1>2, <1>3, <1>4, <1>5, <1>6 DEF FieldAccepts

\* The same for whole schemas: what the code calls compatible keeps a stored
\* document valid.
LEMMA CompatibleKeepsValid ==
    ASSUME SchemaConstants, NEW new \in Schema, schema \in Schema,
           doc \in Values \cup {NoField},
           check_compatibility(schema, new), ~NotCompared(schema, new), Valid(schema, doc)
    PROVE  Valid(new, doc)
  <1>1. CASE doc = NoField
    <2>1. ~schema.required
      BY <1>1 DEF Valid
    <2>2. ~RequiredAdded(schema, new)
      BY DEF check_compatibility, Breaking
    <2>. QED  BY <1>1, <2>1, <2>2 DEF Valid, RequiredAdded
  <1>2. CASE doc \in Values /\ schema.field = NoField
    <2>1. new.field = NoField
      BY <1>2 DEF NotCompared
    <2>. QED  BY <1>2, <2>1 DEF Valid, SchemaConstants
  <1>3. CASE doc \in Values /\ schema.field # NoField
    <2>1. /\ new.field # NoField /\ schema.field.type = new.field.type
          /\ ~ConstraintsTightened(schema.field, new.field)
          /\ ~EnumNarrowed(schema.field, new.field)
      BY <1>3 DEF check_compatibility, Breaking
    <2>2. schema.field \in Field /\ new.field \in Field
      BY <1>3, <2>1 DEF Schema
    <2>3. FieldAccepts(schema.field, doc)
      BY <1>3 DEF Valid, SchemaConstants
    <2>4. /\ ~(schema.field.enum = {} /\ new.field.enum # {})
          /\ ~(schema.field.format # 0 /\ new.field.format \notin {0, schema.field.format})
      BY <1>3, <2>1 DEF NotCompared
    <2>5. FieldAccepts(new.field, doc)
      BY <1>3, <2>1, <2>2, <2>3, <2>4, CompatibleFieldAccepts
    <2>. QED  BY <1>3, <2>5 DEF Valid, SchemaConstants
  <1>. QED  BY <1>1, <1>2, <1>3

LEMMA SchemaInvNext ==
    ASSUME SchemaConstants, SchemaInv, [SchemaNext]_schemaVars
    PROVE  SchemaInv'
  <1>. USE DEF SchemaInv
  <1>1. CASE UNCHANGED schemaVars
    BY <1>1 DEF schemaVars, SchemaTypeOK, StoredStaysValid, Valid, FieldAccepts, MeetsText
  <1>2. ASSUME NEW d \in Values \cup {NoField}, Write(d)
        PROVE  SchemaInv'
    <2>1. SchemaTypeOK'
      BY <1>2 DEF Write, SchemaTypeOK
    <2>2. Valid(schema', doc')
      BY <1>2 DEF Write
    <2>. QED  BY <2>1, <2>2 DEF StoredStaysValid
  <1>3. ASSUME NEW new \in Revisions(schema), Release(new)
        PROVE  SchemaInv'
    <2>1. schema \in Schema /\ new \in Schema
      BY RevisionsAreSchemas DEF SchemaTypeOK
    <2>2. SchemaTypeOK'
      <3>1. schema' \in Schema /\ doc' \in Values \cup {NoField, Unwritten}
        BY <1>3, <2>1 DEF Release, SchemaTypeOK
      <3>2. unseen' \in BOOLEAN
        BY <1>3 DEF Release
      <3>. QED  BY <3>1, <3>2 DEF SchemaTypeOK
    <2>3. ASSUME doc' # Unwritten, ~unseen'
          PROVE  Valid(schema', doc')
      <3>1. doc' = doc /\ schema' = new /\ ~unseen /\ ~NotCompared(schema, new)
        BY <1>3, <2>3, ZenonT(60) DEF Release
      <3>2. Valid(schema, doc) /\ doc \in Values \cup {NoField}
        BY <2>3, <3>1 DEF StoredStaysValid, SchemaTypeOK
      <3>3. Valid(new, doc)
        BY <1>3, <2>1, <3>1, <3>2, CompatibleKeepsValid DEF Release
      <3>. QED  BY <3>1, <3>3
    <2>. QED  BY <2>2, <2>3 DEF StoredStaysValid
  <1>. QED  BY <1>1, <1>2, <1>3 DEF SchemaNext

\* However many minor releases follow one another, each called compatible with
\* the one before, a stored document stays valid, up to the three changes that
\* check_compatibility does not compare.
THEOREM CompatibleReleasesKeepDocuments ==
    ASSUME SchemaConstants
    PROVE  SchemaSpec => []StoredStaysValid
  <1>1. SchemaInit => SchemaInv
    BY ZenonT(60) DEF SchemaInit, SchemaInv, SchemaTypeOK, StoredStaysValid
  <1>2. SchemaInv /\ [SchemaNext]_schemaVars => SchemaInv'
    BY SchemaInvNext
  <1>3. SchemaInv => StoredStaysValid
    BY DEF SchemaInv
  <1>. QED  BY <1>1, <1>2, <1>3, PTL DEF SchemaSpec
=============================================================================
