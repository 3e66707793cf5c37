---------------------------- MODULE IdentityStore ----------------------------
(***************************************************************************)
(* Identity credentials and their selective disclosure                     *)
(* (apps/core/src/identity.rs and routes/identity.rs).  The store is a     *)
(* table of credentials and an audit log behind one mutex; disclose takes  *)
(* the mutex twice, to read the credential and to record the disclosure,   *)
(* and returns a token that asserts the claims it read.                    *)
(*                                                                         *)
(* A claim has a value; 0 stands for a claim the credential lacks.  The    *)
(* encryption of the claims and the signature of a token are libraries;    *)
(* types, issuers, dates and the export as a verifiable credential do not  *)
(* change the state.                                                       *)
(***************************************************************************)
EXTENDS Naturals

CONSTANTS
    CredIds,    \* the ids given to credentials
    Claims,     \* names of claims
    Grades,     \* their values, positive numbers
    Askers,     \* disclosure requests; the id of the token each makes
    NoCred, NoAsk

VARIABLES
    wallet,     \* identity_credentials: the claims of each credential
    used,       \* the ids given so far: Uuid::new_v4 gives none twice
    asking,     \* each request's local variables
    trail,      \* disclosure_audit_log
    handed      \* the tokens returned to their callers

idVars == <<wallet, used, asking, trail, handed>>

ClaimMap == [Claims -> {0} \cup Grades]
Named(claims) == {n \in Claims : claims[n] # 0}

IdInit ==
    /\ wallet = [c \in CredIds |-> NoCred] /\ used = {}
    /\ asking = [r \in Askers |-> NoAsk]
    /\ trail = {} /\ handed = {}

-----------------------------------------------------------------------------
CreateCredential(c, claims) ==
    /\ c \notin used
    /\ wallet' = [wallet EXCEPT ![c] = claims] /\ used' = used \cup {c}
    /\ UNCHANGED <<asking, trail, handed>>

UpdateCredential(c, claims) ==
    /\ wallet[c] # NoCred
    /\ wallet' = [wallet EXCEPT ![c] = claims]
    /\ UNCHANGED <<used, asking, trail, handed>>

\* The audit entries of a deleted credential stay.
DeleteCredential(c) ==
    /\ wallet[c] # NoCred
    /\ wallet' = [wallet EXCEPT ![c] = NoCred]
    /\ UNCHANGED <<used, asking, trail, handed>>

\* The first half of disclose: the claims that were asked for and exist.
DiscloseRead(r, c, names) ==
    /\ asking[r] = NoAsk /\ wallet[c] # NoCred
    /\ asking' = [asking EXCEPT ![r] =
                     [at |-> "record", cred |-> c, names |-> names,
                      claims |-> [n \in Claims |-> IF n \in names THEN wallet[c][n] ELSE 0]]]
    /\ UNCHANGED <<wallet, used, trail, handed>>

EndAsk(r) == asking' = [asking EXCEPT ![r].at = "end"]
TokenOf(r) == [id |-> r, cred |-> asking[r].cred, claims |-> asking[r].claims]
\* record_disclosure: the entry lists the names that were asked for.
RecordOf(r) == [token |-> r, cred |-> asking[r].cred, names |-> asking[r].names]

\* The second half: the entry is written and the token returned, to a caller
\* that may be gone.
DiscloseRecord(r) ==
    /\ asking[r] # NoAsk /\ asking[r].at = "record"
    /\ trail' = trail \cup {RecordOf(r)}
    /\ handed' \in {handed, handed \cup {TokenOf(r)}}
    /\ EndAsk(r)
    /\ UNCHANGED <<wallet, used>>

\* Mutant: a failure to record is logged and the token returned.
DiscloseUnrecorded(r) ==
    /\ asking[r] # NoAsk /\ asking[r].at = "record"
    /\ handed' = handed \cup {TokenOf(r)}
    /\ EndAsk(r)
    /\ UNCHANGED <<wallet, used, trail>>

\* The insert fails, or the request is dropped while it waits for the mutex.
DiscloseFail(r) ==
    /\ asking[r] # NoAsk /\ asking[r].at = "record"
    /\ EndAsk(r)
    /\ UNCHANGED <<wallet, used, trail, handed>>

IdNext ==
    \/ \E c \in CredIds, claims \in ClaimMap :
          CreateCredential(c, claims) \/ UpdateCredential(c, claims)
    \/ \E c \in CredIds : DeleteCredential(c)
    \/ \E r \in Askers, c \in CredIds, names \in SUBSET Claims : DiscloseRead(r, c, names)
    \/ \E r \in Askers : DiscloseRecord(r) \/ DiscloseFail(r)

IdSpec == IdInit /\ [][IdNext]_idVars

-----------------------------------------------------------------------------
(* What must hold *)

\* "All disclosure operations are recorded in the audit log": for every token
\* that left the store the log has an entry under its id and its credential
\* that names all it asserts, whatever was updated, deleted, dropped or failed
\* between the two halves of disclose and afterwards.
EveryTokenAudited ==
    \A t \in handed : \E e \in trail :
        e.token = t.id /\ e.cred = t.cred /\ Named(t.claims) \subseteq e.names
=============================================================================
