---------------------------- MODULE AccountProofs ---------------------------
(***************************************************************************)
(* Proofs about who may call the system: its tokens, the members and       *)
(* admins of its households, and the limit on failed attempts.             *)
(***************************************************************************)
EXTENDS Authentication, Households, AuthGate, FiniteSetTheorems, TLAPS

(***************************************************************************)
(* A restart finds the tokens that were valid before it, for any secrets,  *)
(* tokens, expiry times and faults of the file of Authentication.          *)
(***************************************************************************)

AuthInv ==
    /\ file = [hash |-> file.hash, rows |-> file.rows]
    /\ RestartRestoresTokens

LEMMA GrantKeeps ==
    ASSUME AuthInv, NEW s, NEW t, NEW days, NEW fault, Grant(s, t, days, fault),
           UNCHANGED <<backed, unsure>>
    PROVE  AuthInv'
<1> DEFINE with(f) == IF Granted(s, days, fault) THEN With(f, t, clock + days) ELSE f
<1>1. /\ hash' = Established(s, fault) /\ tokens' = with(tokens)
      /\ file' = IF backed THEN [hash |-> hash', rows |-> with(file.rows)] ELSE file
  BY DEF Grant
<1>2. CASE ~backed
  BY <1>1, <1>2 DEF AuthInv, RestartRestoresTokens
<1>3. CASE backed
  <2>1. file'.hash = hash' /\ file'.rows = with(file.rows) /\ file' = [hash |-> file'.hash, rows |-> file'.rows]
    BY <1>1, <1>3
  <2>2. /\ \A k \in DOMAIN tokens : k \in DOMAIN file.rows /\ file.rows[k] = tokens[k]
        /\ DOMAIN file.rows \ DOMAIN tokens \subseteq unsure
    BY <1>3 DEF AuthInv, RestartRestoresTokens
  <2>3. CASE ~Granted(s, days, fault)
    BY <1>1, <2>1, <2>2, <2>3 DEF AuthInv, RestartRestoresTokens
  <2>4. CASE Granted(s, days, fault)
    <3>1. tokens' = With(tokens, t, clock + days) /\ file'.rows = With(file.rows, t, clock + days)
      BY <1>1, <2>1, <2>4
    <3>2. /\ DOMAIN tokens' = {t} \cup DOMAIN tokens
          /\ \A k \in {t} \cup DOMAIN tokens : tokens'[k] = IF k = t THEN clock + days ELSE tokens[k]
      BY <3>1 DEF With
    <3>3. /\ DOMAIN file'.rows = {t} \cup DOMAIN file.rows
          /\ \A k \in {t} \cup DOMAIN file.rows :
                file'.rows[k] = IF k = t THEN clock + days ELSE file.rows[k]
      BY <3>1 DEF With
    <3> QED
      BY <2>1, <2>2, <3>2, <3>3 DEF AuthInv, RestartRestoresTokens
  <2> QED
    BY <2>3, <2>4
<1> QED
  BY <1>2, <1>3

LEMMA RevokeKeeps ==
    ASSUME AuthInv, NEW t, NEW ok \in BOOLEAN, RevokeToken(t, ok)
    PROVE  AuthInv'
<1>1. /\ tokens' = Without(tokens, t) /\ UNCHANGED <<hash, backed>>
      /\ file' = IF backed /\ ok THEN [file EXCEPT !.rows = Without(@, t)] ELSE file
      /\ unsure' = IF ok THEN unsure ELSE unsure \cup {t}
  BY DEF RevokeToken
<1>2. DOMAIN tokens' = DOMAIN tokens \ {t} /\ \A k \in DOMAIN tokens \ {t} : tokens'[k] = tokens[k]
  BY <1>1 DEF Without
<1>3. CASE ~backed \/ ~ok
  BY <1>1, <1>2, <1>3 DEF AuthInv, RestartRestoresTokens
<1>4. CASE backed /\ ok
  <2>1. file' = [hash |-> file.hash, rows |-> Without(file.rows, t)]
    BY <1>1, <1>4 DEF AuthInv
  <2>2. /\ DOMAIN file'.rows = DOMAIN file.rows \ {t}
        /\ \A k \in DOMAIN file.rows \ {t} : file'.rows[k] = file.rows[k]
    BY <2>1 DEF Without
  <2> QED
    BY <1>1, <1>2, <1>4, <2>1, <2>2 DEF AuthInv, RestartRestoresTokens
<1> QED
  BY <1>3, <1>4

LEMMA AuthNextInv == AuthInv /\ [AuthNext]_authVars => AuthInv'
<1> SUFFICES ASSUME AuthInv, [AuthNext]_authVars PROVE AuthInv'
  OBVIOUS
<1>1. CASE UNCHANGED <<hash, tokens, file, backed, unsure>>
  BY <1>1 DEF AuthInv, RestartRestoresTokens
<1>2. ASSUME NEW opened \in BOOLEAN, Restart(opened) PROVE AuthInv'
  BY <1>2 DEF Restart, AuthInv, RestartRestoresTokens
<1>3. ASSUME NEW s, NEW t, NEW d, NEW f, GenerateToken(s, t, d, f) PROVE AuthInv'
  BY <1>3, GrantKeeps DEF GenerateToken
<1>4. ASSUME NEW h, NEW t, NEW v \in BOOLEAN, NEW f, AuthenticateFinish(h, t, v, f) PROVE AuthInv'
  BY <1>1, <1>4, GrantKeeps DEF AuthenticateFinish
<1>5. CASE AuthTick \/ \E t \in Tokens, h \in Challenges : RegisterStart(t, h) \/ AuthenticateStart(t, h)
  BY <1>1, <1>5, ZenonT(60) DEF AuthTick, RegisterStart, AuthenticateStart, StartCeremony
<1>6. ASSUME NEW t, NEW h, NEW c, NEW v, RegisterFinish(t, h, c, v) PROVE AuthInv'
  BY <1>1, <1>6 DEF RegisterFinish
<1>7. ASSUME NEW t, NEW p, DeletePasskey(t, p) PROVE AuthInv'
  BY <1>1, <1>7 DEF DeletePasskey
<1>8. CASE UNCHANGED authVars
  BY <1>1, <1>8 DEF authVars
<1> QED
  BY <1>2, <1>3, <1>4, <1>5, <1>6, <1>7, <1>8, RevokeKeeps DEF AuthNext

\* A restart that opens the file brings back the passphrase and exactly the tokens the
\* process had in memory, beside tokens whose revocation was answered with an error;
\* whichever statements failed and however often the process was restarted before.
THEOREM FileMirrorsMemory == AuthSpec => []RestartRestoresTokens
<1>1. AuthInit => AuthInv
  BY DEF AuthInit, AuthInv, RestartRestoresTokens, EmptyFile
<1>2. AuthInv => RestartRestoresTokens
  BY DEF AuthInv
<1> QED
  BY <1>1, <1>2, AuthNextInv, PTL DEF AuthSpec

-----------------------------------------------------------------------------
(***************************************************************************)
(* A household with members has an admin, for any people, homes and        *)
(* invitations. Changes of role are approved before they are applied; the  *)
(* invariant says why one that was approved still does no harm when it is  *)
(* applied (Harmless).                                                     *)
(***************************************************************************)

Members == [user : People, role : Roles]

HomeTypes ==
    /\ members \in [Homes -> Seq(Members)]
    /\ homeOf \in [People -> Homes \cup {Nobody}]
    /\ invite \in [Invites -> [home : Homes, role : Roles, accepted : BOOLEAN] \cup {Nobody}]
    /\ claimed \subseteq People \X Homes \X Roles
    /\ joining \subseteq People \X Homes
    /\ change \in [People -> [home : Homes, target : People, role : Roles, late : BOOLEAN] \cup {Nobody}]

\* Why c, approved for u, cannot take the last admin away: it appoints one, u stays
\* one, or there are two.
Harmless(u, c) ==
    \/ c.role = "admin"
    \/ c.target # u /\ \E k \in Admins(c.home) : members[c.home][k].user = u
    \/ \E k, l \in Admins(c.home) : k # l

HomeInv ==
    /\ HomeTypes
    /\ \A i \in Invites : invite[i] # Nobody => members[invite[i].home] # <<>>
    /\ \A t \in claimed : members[t[2]] # <<>>
    /\ \A u \in People : change[u] # Nobody /\ ~change[u].late => Harmless(u, change[u])
    /\ AdminRemains

-----------------------------------------------------------------------------
LEMMA LeastOfNats ==
    ASSUME NEW S \in SUBSET Nat, S # {}
    PROVE  Min(S) \in S
<1> DEFINE R == OpToRel(<, Nat)
<1>1. IsWellFoundedOn(R, Nat)
  BY NatLessThanWellFounded, ZenonT(60)
<1> HIDE DEF R
<1>2. PICK x \in S : \A y \in S : ~ (<<y, x>> \in R)
  BY <1>1, WFMin, ZenonT(60)
<1>3. R = {p \in Nat \X Nat : p[1] < p[2]}
  BY DEF R, OpToRel
<1>4. ASSUME NEW y \in S PROVE x <= y
  <2>1. <<y, x>> \in Nat \X Nat /\ <<y, x>>[1] = y /\ <<y, x>>[2] = x
    OBVIOUS
  <2>2. ~(y < x)
    BY <1>2, <1>3, <2>1
  <2> QED
    BY <2>2
<1> QED
  BY <1>4, ZenonT(60) DEF Min

\* members.iter().find(..) finds an entry of the user it looks for.
LEMMA EntryFinds ==
    ASSUME NEW u, NEW h, members[h] \in Seq(Members), Entry(u, h) # 0
    PROVE  Entry(u, h) \in DOMAIN members[h] /\ members[h][Entry(u, h)].user = u
<1> DEFINE I == {k \in 1 .. Len(members[h]) : members[h][k].user = u}
<1>1. Entry(u, h) = IF I # {} THEN Min(I) ELSE 0
  BY DEF Entry, SelectInSeq
<1>2. I \in SUBSET Nat
  OBVIOUS
<1> HIDE DEF I
<1>3. Entry(u, h) \in I
  BY <1>1, <1>2, LeastOfNats
<1> QED
  BY <1>3 DEF I

LEMMA AdminEntry ==
    ASSUME HomeTypes, NEW u \in People, RoleOf(u) = "admin"
    PROVE  /\ homeOf[u] \in Homes /\ members[homeOf[u]] # <<>>
           /\ \E k \in Admins(homeOf[u]) : members[homeOf[u]][k].user = u
<1>1. /\ homeOf[u] # Nobody /\ Entry(u, homeOf[u]) # 0
      /\ members[homeOf[u]][Entry(u, homeOf[u])].role = "admin"
  BY DEF RoleOf
<1>2. homeOf[u] \in Homes /\ members[homeOf[u]] \in Seq(Members)
  BY <1>1 DEF HomeTypes
<1>3. /\ Entry(u, homeOf[u]) \in DOMAIN members[homeOf[u]]
      /\ members[homeOf[u]][Entry(u, homeOf[u])].user = u
  BY <1>1, <1>2, EntryFinds
<1> QED
  BY <1>1, <1>2, <1>3 DEF Admins

LEMMA TwoAdmins ==
    ASSUME NEW h, Cardinality(Admins(h)) > 1
    PROVE  \E k, l \in Admins(h) : k # l
<1> SUFFICES ASSUME \A k, l \in Admins(h) : k = l PROVE FALSE
  OBVIOUS
<1>1. CASE Admins(h) = {}
  BY <1>1, FS_EmptySet
<1>2. ASSUME NEW k \in Admins(h) PROVE FALSE
  <2>1. Admins(h) = {k}
    OBVIOUS
  <2> QED
    BY <2>1, FS_Singleton
<1> QED
  BY <1>1, <1>2

\* A step that only adds members keeps every approval harmless and every admin.
LEMMA MembersGrow ==
    ASSUME HomeInv, HomeTypes', UNCHANGED <<change, raced>>,
           \A h \in Homes : \A k \in DOMAIN members[h] :
              k \in DOMAIN members'[h] /\ members'[h][k] = members[h][k]
    PROVE  /\ \A u \in People : change'[u] # Nobody /\ ~change'[u].late => Harmless(u, change[u])'
           /\ \A h \in Homes : Admins(h) \subseteq Admins(h)'
<1>1. \A h \in Homes : Admins(h) \subseteq Admins(h)'
  BY DEF Admins
<1>2. ASSUME NEW u \in People, change[u] # Nobody, ~change[u].late PROVE Harmless(u, change[u])'
  <2>1. Harmless(u, change[u])
    BY <1>2 DEF HomeInv
  <2>2. change[u].home \in Homes
    BY <1>2 DEF HomeInv, HomeTypes
  <2>3. \A k \in Admins(change[u].home) :
          members'[change[u].home][k] = members[change[u].home][k]
    BY <2>2 DEF Admins
  <2> QED
    BY <1>1, <2>1, <2>2, <2>3 DEF Harmless
<1> QED
  BY <1>1, <1>2

LEMMA AddedKeeps ==
    ASSUME HomeInv, NEW h \in Homes, NEW m \in Members, members[h] # <<>> \/ m.role = "admin",
           members' = [members EXCEPT ![h] = Append(@, m)],
           HomeTypes', UNCHANGED <<invite, change, raced>>,
           \A t \in claimed' : members[t[2]] # <<>>
    PROVE  HomeInv'
<1>1. members \in [Homes -> Seq(Members)] /\ HomeTypes
  BY DEF HomeInv, HomeTypes
<1>2. /\ \A j \in Homes \ {h} : members'[j] = members[j]
      /\ members'[h] = Append(members[h], m)
  BY <1>1
<1>3. /\ \A k \in DOMAIN members[h] : k \in DOMAIN members'[h] /\ members'[h][k] = members[h][k]
      /\ Len(members[h]) + 1 \in DOMAIN members'[h] /\ members'[h][Len(members[h]) + 1] = m
      /\ members'[h] # <<>>
  BY <1>1, <1>2, SMTT(60)
<1>4. \A j \in Homes : \A k \in DOMAIN members[j] :
              k \in DOMAIN members'[j] /\ members'[j][k] = members[j][k]
  BY <1>2, <1>3
<1>5. /\ \A u \in People : change'[u] # Nobody /\ ~change'[u].late => Harmless(u, change[u])'
      /\ \A j \in Homes : Admins(j) \subseteq Admins(j)'
  BY <1>4, MembersGrow
<1>6. AdminRemains'
  <2>1. Admins(h)' # {} \/ h \in raced
    <3>1. CASE m.role = "admin"
      BY <1>3, <3>1 DEF Admins
    <3>2. CASE members[h] # <<>>
      BY <1>5, <3>2 DEF HomeInv, AdminRemains
    <3> QED
      BY <3>1, <3>2
  <2>2. \A j \in Homes \ {h} : j \notin raced /\ members'[j] # <<>> => Admins(j)' # {}
    BY <1>2, <1>5 DEF HomeInv, AdminRemains
  <2> QED
    BY <2>1, <2>2 DEF AdminRemains
<1>7. \A i \in Invites : invite'[i] # Nobody => members'[invite'[i].home] # <<>>
  BY <1>1, <1>2, <1>3 DEF HomeInv, HomeTypes
<1>8. \A t \in claimed' : members'[t[2]] # <<>>
  BY <1>2, <1>3 DEF HomeTypes
<1>9. \A u \in People : change'[u] # Nobody /\ ~change'[u].late => Harmless(u, change[u])'
  BY <1>5
<1> QED
  BY <1>6, <1>7, <1>8, <1>9 DEF HomeInv

LEMMA CreateHouseholdKeeps ==
    ASSUME HomeInv, NEW u \in People, NEW h \in Homes, CreateHousehold(u, h)
    PROVE  HomeInv'
<1>1. PICK m \in Members : m = [user |-> u, role |-> "admin"]
  BY ZenonT(60) DEF Members, Roles
<1>2. /\ members[h] = <<>> /\ members' = [members EXCEPT ![h] = <<m>>]
      /\ joining' = joining \cup {<<u, h>>} /\ UNCHANGED <<homeOf, invite, claimed, change, raced>>
  BY <1>1 DEF CreateHousehold
<1>3. Append(members[h], m) = <<m>> /\ <<m>> \in Seq(Members)
  BY <1>2
<1>4. members' = [members EXCEPT ![h] = Append(@, m)]
  BY <1>2, <1>3
<1>5. HomeTypes'
  BY <1>2, <1>3 DEF HomeInv, HomeTypes
<1> QED
  BY <1>1, <1>2, <1>4, <1>5, AddedKeeps, ZenonT(60) DEF HomeInv

LEMMA AddMemberKeeps ==
    ASSUME HomeInv, NEW u \in People, NEW h \in Homes, NEW role \in Roles, AddMember(u, h, role)
    PROVE  HomeInv'
<1>1. PICK m \in Members : m = [user |-> u, role |-> role]
  BY ZenonT(60) DEF Members
<1>2. /\ <<u, h, role>> \in claimed /\ claimed' = claimed \ {<<u, h, role>>}
      /\ members' = [members EXCEPT ![h] = Append(@, m)]
      /\ joining' = joining \cup {<<u, h>>} /\ UNCHANGED <<homeOf, invite, change, raced>>
  BY <1>1 DEF AddMember
<1>3. members[h] # <<>> /\ \A t \in claimed' : members[t[2]] # <<>>
  BY <1>2 DEF HomeInv
<1>4. HomeTypes'
  BY <1>2 DEF HomeInv, HomeTypes
<1> QED
  BY <1>1, <1>2, <1>3, <1>4, AddedKeeps, ZenonT(60)

\* Nothing but roles and members decides whether a household has an admin.
LEMMA SameMembers ==
    ASSUME HomeInv, UNCHANGED <<members, raced>>
    PROVE  AdminRemains' /\ \A h : Admins(h)' = Admins(h)
BY DEF HomeInv, AdminRemains, Admins

LEMMA ApproveKeeps ==
    ASSUME HomeInv, NEW u \in People, NEW target \in People, NEW role \in Roles,
           ApproveChange(u, target, role)
    PROVE  HomeInv'
<1>1. PICK c : c = [home |-> homeOf[u], target |-> target, role |-> role, late |-> FALSE]
  BY ZenonT(60)
<1>2. /\ RoleOf(u) = "admin" /\ Allowed(u, target, role)
      /\ change' = [change EXCEPT ![u] = c]
      /\ UNCHANGED <<members, homeOf, invite, joining, claimed, raced>>
  BY <1>1 DEF ApproveChange, MayChangeRole
<1>3. /\ homeOf[u] \in Homes
      /\ \E k \in Admins(homeOf[u]) : members[homeOf[u]][k].user = u
  BY <1>2, AdminEntry DEF HomeInv
<1>4. HomeTypes'
  BY <1>1, <1>2, <1>3 DEF HomeInv, HomeTypes
<1>5. c.home = homeOf[u] /\ c.target = target /\ c.role = role
  BY <1>1
<1>6. Harmless(u, c)
  <2>1. CASE target # u \/ role = "admin"
    BY <1>3, <1>5, <2>1 DEF Harmless
  <2>2. CASE Cardinality(Admins(homeOf[u])) > 1
    BY <1>5, <2>2, TwoAdmins DEF Harmless
  <2> QED
    BY <1>2, <2>1, <2>2 DEF Allowed
<1>7. \A h : Admins(h)' = Admins(h)
  BY <1>2, SameMembers
<1>8. ASSUME NEW v \in People, change'[v] # Nobody, ~change'[v].late PROVE Harmless(v, change[v])'
  <2>1. change'[v] = IF v = u THEN c ELSE change[v]
    BY <1>2 DEF HomeInv, HomeTypes
  <2>2. Harmless(v, change'[v])
    BY <1>6, <1>8, <2>1 DEF HomeInv
  <2> QED
    BY <1>2, <1>7, <2>2 DEF Harmless
<1> QED
  BY <1>2, <1>4, <1>8, SameMembers DEF HomeInv

LEMMA ApplyKeeps ==
    ASSUME HomeInv, NEW u \in People, ApplyChange(u)
    PROVE  HomeInv'
<1>1. PICK c, h, e : c = change[u] /\ h = homeOf[c.target] /\ e = Entry(c.target, h)
  OBVIOUS
<1>2. /\ c # Nobody
      /\ change' = [v \in People |->
             IF v = u \/ change[v] = Nobody THEN Nobody ELSE [change[v] EXCEPT !.late = TRUE]]
      /\ members' = IF h # Nobody /\ e # 0 THEN [members EXCEPT ![h][e].role = c.role] ELSE members
      /\ raced' = IF h # Nobody /\ e # 0 /\ (c.late \/ h # c.home) THEN raced \cup {h} ELSE raced
      /\ UNCHANGED <<homeOf, invite, joining, claimed>>
  BY <1>1, ZenonT(60) DEF ApplyChange
<1>3. HomeTypes /\ members \in [Homes -> Seq(Members)]
  BY DEF HomeInv, HomeTypes
<1>4. c \in [home : Homes, target : People, role : Roles, late : BOOLEAN]
  BY <1>1, <1>2, <1>3 DEF HomeTypes
<1>5. /\ change' \in [People -> [home : Homes, target : People, role : Roles, late : BOOLEAN] \cup {Nobody}]
      /\ \A v \in People : change'[v] = Nobody \/ change'[v].late
  <2>1. ASSUME NEW v \in People
        PROVE  /\ change'[v] \in [home : Homes, target : People, role : Roles, late : BOOLEAN] \cup {Nobody}
               /\ change'[v] = Nobody \/ change'[v].late
    <3>1. CASE v = u \/ change[v] = Nobody
      BY <1>2, <3>1
    <3>2. CASE ~(v = u \/ change[v] = Nobody)
      <4>1. change'[v] = [change[v] EXCEPT !.late = TRUE]
        BY <1>2, <3>2
      <4>2. change[v] \in [home : Homes, target : People, role : Roles, late : BOOLEAN]
        BY <1>3, <3>2 DEF HomeTypes
      <4> QED
        BY <4>1, <4>2, ZenonT(60)
    <3> QED
      BY <3>1, <3>2
  <2> QED
    BY <1>2, <2>1
<1>6. CASE ~(h # Nobody /\ e # 0)
  <2>1. UNCHANGED <<members, raced>>
    BY <1>2, <1>6
  <2> QED
    BY <1>2, <1>3, <1>5, <2>1, SameMembers, ZenonT(60) DEF HomeInv, HomeTypes
<1>7. CASE h # Nobody /\ e # 0
  <2>1. h \in Homes /\ members[h] \in Seq(Members)
    BY <1>1, <1>3, <1>4, <1>7 DEF HomeTypes
  <2>2. e \in DOMAIN members[h] /\ members[h][e].user = c.target
    BY <1>1, <1>7, <2>1, EntryFinds
  <2>3. PICK m \in Members : m = [user |-> c.target, role |-> c.role]
    BY <1>4, ZenonT(60) DEF Members
  <2>4. /\ members'[h] = [members[h] EXCEPT ![e] = m] /\ \A j \in Homes \ {h} : members'[j] = members[j]
        /\ members' \in [Homes -> Seq(Members)]
    <3>1. [members[h][e] EXCEPT !.role = c.role] = m
      <4>1. members[h][e] \in Members
        BY <2>1, <2>2
      <4> QED
        BY <2>2, <2>3, <4>1 DEF Members
    <3>2. members' = [members EXCEPT ![h] = [members[h] EXCEPT ![e] = [members[h][e] EXCEPT !.role = c.role]]]
      BY <1>2, <1>3, <1>7, <2>1, <2>2
    <3>3. [members[h] EXCEPT ![e] = m] \in Seq(Members)
      BY <2>1, <2>2
    <3> QED
      BY <1>3, <2>1, <3>1, <3>2, <3>3, ZenonT(60)
  <2>5. /\ DOMAIN members'[h] = DOMAIN members[h] /\ members'[h][e] = m
        /\ \A k \in DOMAIN members[h] \ {e} : members'[h][k] = members[h][k]
        /\ members'[h] # <<>>
    BY <2>1, <2>2, <2>4
  <2>6. Admins(h)' # {} \/ h \in raced'
    <3>1. CASE ~c.late /\ h = c.home
      <4>1. Harmless(u, c)
        BY <1>1, <1>2, <3>1 DEF HomeInv
      <4>2. CASE c.role = "admin"
        BY <2>2, <2>3, <2>5, <4>2 DEF Admins
      <4>3. ASSUME c.target # u, NEW k \in Admins(h), members[h][k].user = u PROVE Admins(h)' # {}
        BY <2>2, <2>5, <4>3 DEF Admins
      <4>4. ASSUME NEW k \in Admins(h), NEW l \in Admins(h), k # l PROVE Admins(h)' # {}
        BY <2>5, <4>4 DEF Admins
      <4> QED
        BY <3>1, <4>1, <4>2, <4>3, <4>4 DEF Harmless
    <3>2. CASE c.late \/ h # c.home
      BY <1>2, <1>7, <3>2
    <3> QED
      BY <3>1, <3>2
  <2>7. AdminRemains'
    <3>1. ASSUME NEW j \in Homes \ raced', members'[j] # <<>>, j # h PROVE Admins(j)' # {}
      <4>1. j \notin raced /\ members'[j] = members[j]
        BY <1>2, <2>4, <3>1
      <4>2. Admins(j) # {} /\ Admins(j)' = Admins(j)
        BY <3>1, <4>1 DEF HomeInv, AdminRemains, Admins
      <4> QED
        BY <4>2
    <3> QED
      BY <2>6, <3>1 DEF AdminRemains
  <2>8. HomeTypes'
    BY <1>2, <1>3, <1>5, <2>4 DEF HomeTypes
  <2>9. /\ \A i \in Invites : invite'[i] # Nobody => members'[invite'[i].home] # <<>>
        /\ \A t \in claimed' : members'[t[2]] # <<>>
    BY <1>2, <1>3, <2>4, <2>5 DEF HomeInv, HomeTypes
  <2> QED
    BY <1>5, <2>7, <2>8, <2>9 DEF HomeInv
<1> QED
  BY <1>6, <1>7

LEMMA HomeNextInv == HomeInv /\ [HomeNext]_homeVars => HomeInv'
<1> SUFFICES ASSUME HomeInv, [HomeNext]_homeVars PROVE HomeInv'
  OBVIOUS
<1>1. ASSUME UNCHANGED <<members, change, raced>>
      PROVE  /\ AdminRemains'
             /\ \A u \in People : change'[u] # Nobody /\ ~change'[u].late => Harmless(u, change[u])'
  <2>1. AdminRemains' /\ \A h : Admins(h)' = Admins(h)
    BY <1>1, SameMembers
  <2>2. ASSUME NEW u \in People, change'[u] # Nobody, ~change'[u].late
        PROVE  Harmless(u, change[u])'
    <3>1. Harmless(u, change[u])
      BY <1>1, <2>2, ZenonT(60) DEF HomeInv
    <3> QED
      BY <1>1, <2>1, <3>1, ZenonT(60) DEF Harmless
  <2> QED
    BY <2>1, <2>2
<1>2. ASSUME NEW u \in People, NEW h \in Homes, MapInsert(u, h) PROVE HomeInv'
  BY <1>1, <1>2 DEF MapInsert, HomeInv, HomeTypes
<1>3. ASSUME NEW u \in People, NEW i \in Invites, NEW role \in Roles, InviteMember(u, i, role)
      PROVE  HomeInv'
  <2>1. PICK x : x = [home |-> homeOf[u], role |-> role, accepted |-> FALSE]
    BY ZenonT(60)
  <2>2. homeOf[u] \in Homes /\ members[homeOf[u]] # <<>>
    BY <1>3, AdminEntry DEF InviteMember, HomeInv
  <2>3. x \in [home : Homes, role : Roles, accepted : BOOLEAN] /\ members[x.home] # <<>>
    BY <2>1, <2>2
  <2>4. invite' = [invite EXCEPT ![i] = x] /\ UNCHANGED <<members, homeOf, joining, claimed, change, raced>>
    BY <1>3, <2>1 DEF InviteMember
  <2>5. HomeTypes' /\ \A j \in Invites : invite'[j] # Nobody => members'[invite'[j].home] # <<>>
    BY <2>3, <2>4 DEF HomeInv, HomeTypes
  <2> QED
    BY <1>1, <2>4, <2>5 DEF HomeInv
<1>4. ASSUME NEW u \in People, NEW i \in Invites, ClaimInvite(u, i) PROVE HomeInv'
  <2>1. PICK x : x = invite[i]
    OBVIOUS
  <2>2. x \in [home : Homes, role : Roles, accepted : BOOLEAN] /\ members[x.home] # <<>>
    BY <1>4, <2>1 DEF ClaimInvite, HomeInv, HomeTypes
  <2>3. /\ invite' = [invite EXCEPT ![i].accepted = TRUE]
        /\ claimed' = claimed \cup {<<u, x.home, x.role>>}
        /\ UNCHANGED <<members, homeOf, joining, change, raced>>
    BY <1>4, <2>1 DEF ClaimInvite
  <2>4. PICK y : y = [x EXCEPT !.accepted = TRUE]
    BY ZenonT(60)
  <2>5. invite' = [invite EXCEPT ![i] = y]
    BY <2>1, <2>3, <2>4 DEF HomeInv, HomeTypes
  <2>6. y \in [home : Homes, role : Roles, accepted : BOOLEAN] /\ y.home = x.home
    BY <2>2, <2>4, ZenonT(60)
  <2>7. HomeTypes'
    <3>1. <<u, x.home, x.role>> \in People \X Homes \X Roles
      BY <2>2
    <3>2. claimed' \subseteq People \X Homes \X Roles
      BY <2>3, <3>1 DEF HomeInv, HomeTypes
    <3>3. invite' \in [Invites -> [home : Homes, role : Roles, accepted : BOOLEAN] \cup {Nobody}]
      BY <2>5, <2>6 DEF HomeInv, HomeTypes
    <3> QED
      BY <2>3, <3>2, <3>3 DEF HomeInv, HomeTypes
  <2>8. \A j \in Invites : invite'[j] # Nobody => members'[invite'[j].home] # <<>>
    BY <2>2, <2>3, <2>5, <2>6 DEF HomeInv, HomeTypes
  <2>9. \A t \in claimed' : members'[t[2]] # <<>>
    BY <2>2, <2>3 DEF HomeInv
  <2> QED
    BY <1>1, <2>3, <2>7, <2>8, <2>9 DEF HomeInv
<1>5. CASE UNCHANGED homeVars
  BY <1>1, <1>5 DEF homeVars, HomeInv, HomeTypes
<1> QED
  BY <1>2, <1>3, <1>4, <1>5, CreateHouseholdKeeps, AddMemberKeeps, ApproveKeeps, ApplyKeeps DEF HomeNext

\* A household keeps an admin for any number of people, households and invites, as long
\* as no role change of it is applied late or to another household than it was approved
\* for: members only join between an approval and its application.
THEOREM HouseholdsKeepAnAdmin == HomeSpec => []AdminRemains
<1>1. HomeInit => HomeInv
  BY DEF HomeInit, HomeInv, HomeTypes, AdminRemains
<1>2. HomeInv => AdminRemains
  BY DEF HomeInv
<1> QED
  BY <1>1, <1>2, HomeNextInv, PTL DEF HomeSpec

(***************************************************************************)
(* The limit on failed attempts, for any clients, number of concurrent     *)
(* requests, limit and window of AuthGate. What has been recorded cannot   *)
(* be bounded without what is about to be: a request past the check is a   *)
(* failure its client may still have recorded.                             *)
(***************************************************************************)

InFlight(c) == {r \in Requests : request[r] # NoRequest /\ request[r].client = c}

\* The failures of one moment are numbered from 1 without a gap.
Numbered(F) == \A f \in F : f[2] \in 1..Cardinality({g \in F : g[1] = f[1]})

GateTypes ==
    /\ now \in Nat
    /\ failures \in [Clients -> SUBSET (Nat \X Nat)]
    /\ request \in [Requests -> {NoRequest} \cup
                                [at : {"admitted", "failed"}, client : Clients, token : Classes]]

GateInv ==
    /\ GateTypes
    /\ \A c \in Clients :
          /\ IsFiniteSet(failures[c]) /\ Numbered(failures[c])
          /\ Cardinality(Recent(c)) + Cardinality(InFlight(c)) < Limit + Cardinality(Requests)

\* Failures are dropped by their time, so what is left stays numbered.
LEMMA DropOldNumbered ==
    ASSUME NEW F \in SUBSET (Nat \X Nat), Numbered(F), NEW k \in Int
    PROVE  Numbered({f \in F : f[1] > k})
<1> DEFINE G == {f \in F : f[1] > k}
<1>1. SUFFICES ASSUME NEW f \in G PROVE f[2] \in 1..Cardinality({g \in G : g[1] = f[1]})
  BY DEF Numbered
<1>2. {g \in G : g[1] = f[1]} = {g \in F : g[1] = f[1]}
  OBVIOUS
<1> QED
  BY <1>2 DEF Numbered

\* The failure pushed at this moment is a new one, and the next in order.
LEMMA PushNumbered ==
    ASSUME NEW F \in SUBSET (Nat \X Nat), IsFiniteSet(F), Numbered(F), NEW t \in Nat,
           NEW n, n = <<t, 1 + Cardinality({f \in F : f[1] = t})>>
    PROVE  n \in Nat \X Nat /\ n \notin F /\ Numbered(F \cup {n})
<1> DEFINE Same(S, x) == {g \in S : g[1] = x}
<1> DEFINE k == Cardinality(Same(F, t))
<1>1. IsFiniteSet(Same(F, t)) /\ k \in Nat
  BY FS_Subset, FS_CardinalityType
<1>2. n = <<t, 1 + k>> /\ n \in Nat \X Nat /\ n[1] = t /\ n[2] = 1 + k
  BY <1>1
<1>3. n \notin F
  <2>1. SUFFICES ASSUME n \in F PROVE FALSE
    OBVIOUS
  <2>2. n[2] \in 1..Cardinality(Same(F, n[1]))
    BY <2>1 DEF Numbered
  <2>3. 1 + k \in 1..k
    BY <1>2, <2>2
  <2> HIDE DEF k
  <2> QED
    BY <1>1, <2>3
<1>4. Same(F \cup {n}, t) = Same(F, t) \cup {n}
  BY <1>2
<1>5. Cardinality(Same(F \cup {n}, t)) = k + 1
  <2>1. n \notin Same(F, t)
    BY <1>3
  <2> HIDE DEF Same
  <2>2. Cardinality(Same(F, t) \cup {n}) = k + 1
    BY <1>1, <2>1, FS_AddElement, ZenonT(60)
  <2> QED
    BY <1>4, <2>2, ZenonT(60)
<1>6. \A x : x # t => Same(F \cup {n}, x) = Same(F, x)
  BY <1>2
<1>7. ASSUME NEW f \in F \cup {n} PROVE f[2] \in 1..Cardinality(Same(F \cup {n}, f[1]))
  <2>1. CASE f = n
    BY <1>1, <1>2, <1>5, <2>1
  <2>2. CASE f \in F
    <3>1. f[2] \in 1..Cardinality(Same(F, f[1]))
      BY <2>2 DEF Numbered
    <3>2. CASE f[1] = t
      BY <1>1, <1>5, <3>1, <3>2
    <3>3. CASE f[1] # t
      BY <1>6, <3>1, <3>3, ZenonT(60)
    <3> QED
      BY <3>2, <3>3
  <2> QED
    BY <2>1, <2>2
<1> QED
  BY <1>2, <1>3, <1>7 DEF Numbered

\* What pushing and dropping leave of one client's failures stays well formed.
LEMMA FlightIsBounded ==
    ASSUME NEW c \in Clients, NEW q
    PROVE  LET F == {r \in Requests : q[r] # NoRequest /\ q[r].client = c}
           IN  IsFiniteSet(F) /\ Cardinality(F) \in Nat /\ Cardinality(F) <= Cardinality(Requests)
               /\ Cardinality(Requests) \in Nat
BY GateAssumption, FS_Subset, FS_CardinalityType

\* The arithmetic of the limit: n recent failures and m requests under way.
LEMMA RoomIsKept ==
    ASSUME NEW n \in Nat, NEW n2 \in Nat, NEW m \in Nat, NEW bound \in Nat, n2 <= n, n + m < bound
    PROVE  n2 + m < bound
BY SMTT(60)

LEMMA RoomForAll ==
    ASSUME NEW n \in Nat, NEW n2 \in Nat, NEW m \in Nat, NEW limit \in Nat, NEW all \in Nat,
           n2 <= n, n < limit, m <= all
    PROVE  n2 + m < limit + all
BY SMTT(60)

LEMMA RoomIsMoved ==
    ASSUME NEW n \in Nat, NEW m \in Nat, NEW bound \in Nat, n + m < bound
    PROVE  (n + 1) + (m - 1) < bound
BY SMTT(60)

LEMMA BoundIsNatural == Limit \in Nat /\ Cardinality(Requests) \in Nat /\ Limit + Cardinality(Requests) \in Nat
<1>1. Cardinality(Requests) \in Nat
  BY GateAssumption, FS_CardinalityType, ZenonT(60)
<1> QED
  BY <1>1, GateAssumption, SMTT(60)

LEMMA RecentIsFinite ==
    ASSUME GateInv, NEW c \in Clients
    PROVE  IsFiniteSet(Recent(c)) /\ Cardinality(Recent(c)) \in Nat
<1>1. Recent(c) \subseteq failures[c]
  BY DEF Recent
<1> QED
  BY <1>1, FS_Subset, FS_CardinalityType DEF GateInv

LEMMA ArriveKeeps ==
    ASSUME GateInv, NEW r \in Requests, NEW c \in Clients, NEW token \in Classes, NEW cleanup \in BOOLEAN,
           Arrive(r, c, token, cleanup)
    PROVE  GateInv'
<1> USE GateAssumption
<1>1. /\ now \in Nat /\ now' = now /\ now - Window \in Int
      /\ failures \in [Clients -> SUBSET (Nat \X Nat)]
      /\ failures' = [d \in Clients |-> IF cleanup \/ d = c THEN Recent(d) ELSE failures[d]]
      /\ request[r] = NoRequest
  BY SMTT(90) DEF Arrive, GateInv, GateTypes
<1>2. ASSUME NEW d \in Clients
      PROVE /\ failures'[d] \subseteq failures[d]
            /\ failures'[d] \in SUBSET (Nat \X Nat)
            /\ IsFiniteSet(failures'[d])
            /\ Numbered(failures'[d])
            /\ Recent(d)' \subseteq Recent(d)
            /\ Cardinality(Recent(d)') \in Nat /\ Cardinality(Recent(d)') <= Cardinality(Recent(d))
  <2>1. failures'[d] \in {failures[d], Recent(d)} /\ Recent(d) = {f \in failures[d] : f[1] > now - Window}
    BY <1>1 DEF Recent, InWindow
  <2>2. IsFiniteSet(failures[d]) /\ Numbered(failures[d]) /\ failures[d] \in SUBSET (Nat \X Nat)
    BY <1>1 DEF GateInv
  <2>3. failures'[d] \subseteq failures[d]
    BY <2>1
  <2>4. IsFiniteSet(failures'[d])
    BY <2>2, <2>3, FS_Subset
  <2>5. Numbered(failures'[d])
    BY <1>1, <2>1, <2>2, DropOldNumbered
  <2>6. Recent(d)' \subseteq Recent(d)
    BY <1>1, <2>3 DEF Recent, InWindow
  <2>7. Cardinality(Recent(d)') \in Nat /\ Cardinality(Recent(d)') <= Cardinality(Recent(d))
    BY <2>6, RecentIsFinite, FS_Subset, FS_CardinalityType
  <2> QED
    BY <2>2, <2>3, <2>4, <2>5, <2>6, <2>7
<1>3. failures' \in [Clients -> SUBSET (Nat \X Nat)]
  BY <1>1, <1>2
<1>4. CASE request' = request
  <2>1. GateTypes'
    BY <1>1, <1>3, <1>4 DEF GateInv, GateTypes
  <2>2. ASSUME NEW d \in Clients
        PROVE  Cardinality(Recent(d)') + Cardinality(InFlight(d)') < Limit + Cardinality(Requests)
    <3>1. InFlight(d)' = InFlight(d)
      BY <1>4 DEF InFlight
    <3>2. Cardinality(InFlight(d)) \in Nat /\ Cardinality(Requests) \in Nat
      BY FlightIsBounded, ZenonT(60) DEF InFlight
    <3>3. Cardinality(Recent(d)) \in Nat
          /\ Cardinality(Recent(d)) + Cardinality(InFlight(d)) < Limit + Cardinality(Requests)
      BY RecentIsFinite DEF GateInv
    <3> QED
      BY <1>2, <3>1, <3>2, <3>3, RoomIsKept, BoundIsNatural, ZenonT(60)
  <2> QED
    BY <1>2, <2>1, <2>2 DEF GateInv
<1>5. CASE ~IsRateLimited(c)
           /\ request' = [request EXCEPT ![r] = [at |-> "admitted", client |-> c, token |-> token]]
  <2>1. PICK q : q = [at |-> "admitted", client |-> c, token |-> token]
    BY ZenonT(60)
  <2>2. /\ q \in [at : {"admitted", "failed"}, client : Clients, token : Classes] /\ q.client = c
        /\ request' = [request EXCEPT ![r] = q]
    BY <1>5, <2>1
  <2>3. GateTypes'
    BY <1>1, <1>3, <2>2 DEF GateInv, GateTypes
  <2>4. ASSUME NEW d \in Clients
        PROVE  Cardinality(Recent(d)') + Cardinality(InFlight(d)') < Limit + Cardinality(Requests)
    <3>1. /\ Cardinality(InFlight(d)') \in Nat /\ Cardinality(InFlight(d)') <= Cardinality(Requests)
          /\ Cardinality(InFlight(d)) \in Nat /\ Cardinality(Requests) \in Nat
      BY FlightIsBounded, ZenonT(60) DEF InFlight
    <3>2. Cardinality(Recent(d)) \in Nat
          /\ Cardinality(Recent(d)) + Cardinality(InFlight(d)) < Limit + Cardinality(Requests)
      BY RecentIsFinite DEF GateInv
    <3>3. CASE d = c
      <4>1. Cardinality(Recent(d)) < Limit
        BY <1>5, <3>2, <3>3, SMTT(30) DEF IsRateLimited
      <4> QED
        BY <1>2, <3>1, <3>2, <4>1, RoomForAll, BoundIsNatural, ZenonT(60)
    <3>4. CASE d # c
      <4>1. InFlight(d)' = InFlight(d)
        BY <1>1, <2>2, <3>4 DEF InFlight, GateInv, GateTypes
      <4> QED
        BY <1>2, <3>1, <3>2, <4>1, RoomIsKept, BoundIsNatural, ZenonT(60)
    <3> QED
      BY <3>3, <3>4
  <2> QED
    BY <1>2, <2>3, <2>4 DEF GateInv
<1> QED
  BY <1>4, <1>5 DEF Arrive

LEMMA AnswerKeeps ==
    ASSUME GateInv, NEW r \in Requests, NEW up \in BOOLEAN, Answer(r, up)
    PROVE  GateInv'
<1>1. PICK q : q = request[r]
  OBVIOUS
<1>2. request[r].at = "admitted" /\ UNCHANGED <<failures, now>>
  BY DEF Answer
<1>3. q \in [at : {"admitted", "failed"}, client : Clients, token : Classes] /\ q # NoRequest
  <2>1. request[r] \in {NoRequest} \cup [at : {"admitted", "failed"}, client : Clients, token : Classes]
    BY DEF GateInv, GateTypes
  <2>2. NoRequest.at # "admitted"
    BY DEF NoRequest
  <2> QED
    BY <1>1, <1>2, <2>1, <2>2
<1>4. PICK s : s = [q EXCEPT !.at = "failed"]
  BY ZenonT(60)
<1>5. s \in [at : {"admitted", "failed"}, client : Clients, token : Classes] /\ s.client = q.client
  BY <1>3, <1>4
<1>6. request' = [request EXCEPT ![r] = s] \/ request' = [request EXCEPT ![r] = NoRequest]
  BY <1>1, <1>4, ZenonT(60) DEF Answer
<1>7. GateTypes'
  BY <1>2, <1>5, <1>6 DEF GateInv, GateTypes
<1>8. ASSUME NEW d \in Clients
      PROVE  Cardinality(Recent(d)') + Cardinality(InFlight(d)') < Limit + Cardinality(Requests)
  <2>1. Recent(d)' = Recent(d)
    BY <1>2 DEF Recent, InWindow
  <2>2. InFlight(d)' \subseteq InFlight(d)
    BY <1>1, <1>3, <1>5, <1>6 DEF InFlight, GateInv, GateTypes
  <2>3. IsFiniteSet(InFlight(d)) /\ Cardinality(InFlight(d)) \in Nat /\ Cardinality(Requests) \in Nat
    BY FlightIsBounded DEF InFlight
  <2>4. Cardinality(InFlight(d)') \in Nat /\ Cardinality(InFlight(d)') <= Cardinality(InFlight(d))
    BY <2>2, <2>3, FS_Subset, FS_CardinalityType
  <2>5. Cardinality(Recent(d)) \in Nat
        /\ Cardinality(Recent(d)) + Cardinality(InFlight(d)) < Limit + Cardinality(Requests)
    BY RecentIsFinite DEF GateInv
  <2> QED
    BY GateAssumption, <2>1, <2>3, <2>4, <2>5
<1> QED
  BY <1>2, <1>7, <1>8 DEF GateInv

\* What a record does: the client gets one failure more, and has one request
\* less in flight.
Recorded(r, c, n, cleanup) ==
    /\ request[r].client = c /\ r \in InFlight(c)
    /\ n \notin failures[c] /\ n[1] = now /\ Numbered(failures[c] \cup {n})
    /\ failures' = [d \in Clients |-> failures'[d]]
    /\ \A d \in Clients :
          failures'[d] = {f \in (IF d = c THEN failures[c] \cup {n} ELSE failures[d]) :
                             cleanup => f[1] > now - Window}
    /\ \A d \in Clients : InFlight(d)' = IF d = c THEN InFlight(c) \ {r} ELSE InFlight(d)

LEMMA RecordEffect ==
    ASSUME GateInv, NEW r \in Requests, NEW cleanup \in BOOLEAN, Record(r, cleanup)
    PROVE  \E c \in Clients, n \in Nat \X Nat : Recorded(r, c, n, cleanup)
<1>1. PICK c : c = request[r].client
  OBVIOUS
<1>2. /\ request[r].at = "failed" /\ request' = [request EXCEPT ![r] = NoRequest]
      /\ now' = now
  BY DEF Record
<1>3. c \in Clients /\ request[r] # NoRequest
  <2>1. request[r] \in {NoRequest} \cup [at : {"admitted", "failed"}, client : Clients, token : Classes]
    BY DEF GateInv, GateTypes
  <2>2. NoRequest.at # "failed"
    BY DEF NoRequest
  <2> QED
    BY <1>1, <1>2, <2>1, <2>2
<1>4. PICK n : n = NextFailure(c)
  OBVIOUS
<1>5. PICK P : P = [failures EXCEPT ![c] = @ \cup {n}]
  BY ZenonT(60)
<1>6. failures' = IF cleanup THEN [d \in Clients |-> {f \in P[d] : f[1] > now - Window}] ELSE P
  BY <1>1, <1>4, <1>5 DEF Record, InWindow
<1>7. n \in Nat \X Nat /\ n \notin failures[c] /\ Numbered(failures[c] \cup {n})
  <2>1. failures[c] \in SUBSET (Nat \X Nat) /\ IsFiniteSet(failures[c]) /\ Numbered(failures[c]) /\ now \in Nat
    BY <1>3 DEF GateInv, GateTypes
  <2>2. n = <<now, 1 + Cardinality({f \in failures[c] : f[1] = now})>>
    BY <1>4 DEF NextFailure
  <2> QED
    BY <2>1, <2>2, PushNumbered
<1>8. n[1] = now
  BY <1>4 DEF NextFailure
<1>9. failures \in [Clients -> SUBSET (Nat \X Nat)]
  BY DEF GateInv, GateTypes
<1>10. /\ P = [d \in Clients |-> P[d]]
       /\ \A d \in Clients : P[d] = IF d = c THEN failures[c] \cup {n} ELSE failures[d]
  BY <1>3, <1>5, <1>9, ZenonT(60)
<1>11. /\ \A d \in Clients : failures'[d] = {f \in P[d] : cleanup => f[1] > now - Window}
       /\ failures' = [d \in Clients |-> failures'[d]]
  BY <1>6, <1>10, ZenonT(60)
<1>12. /\ \A d \in Clients : InFlight(d)' = IF d = c THEN InFlight(c) \ {r} ELSE InFlight(d)
       /\ r \in InFlight(c)
  BY <1>1, <1>2, <1>3 DEF InFlight, GateInv, GateTypes
<1>13. \A d \in Clients :
          failures'[d] = {f \in (IF d = c THEN failures[c] \cup {n} ELSE failures[d]) :
                             cleanup => f[1] > now - Window}
  BY <1>10, <1>11
<1>14. Recorded(r, c, n, cleanup)
  BY <1>1, <1>7, <1>8, <1>11, <1>12, <1>13 DEF Recorded
<1> QED
  BY <1>3, <1>7, <1>14

\* The failure just recorded is inside the window, so it counts at once, also
\* when the same call has cleaned up.
LEMMA RecordCounts ==
    ASSUME GateInv, NEW r \in Requests, NEW cleanup \in BOOLEAN, Record(r, cleanup)
    PROVE  \E c \in Clients :
              /\ request[r].client = c
              /\ Cardinality(Recent(c)') = Cardinality(Recent(c)) + 1
              /\ Cardinality(InFlight(c)') = Cardinality(InFlight(c)) - 1
              /\ \A d \in Clients \ {c} : Recent(d)' = Recent(d) /\ InFlight(d)' = InFlight(d)
<1>1. PICK c \in Clients, n \in Nat \X Nat : Recorded(r, c, n, cleanup)
  BY RecordEffect
<1>2. now' = now /\ now \in Nat /\ now > now - Window
  BY GateAssumption, SMTT(90) DEF Record, GateInv, GateTypes
<1>3. Recent(c)' = Recent(c) \cup {n} /\ n \notin Recent(c)
  BY <1>1, <1>2 DEF Recorded, Recent, InWindow
<1>4. Cardinality(Recent(c)') = Cardinality(Recent(c)) + 1
  BY <1>3, RecentIsFinite, FS_AddElement, ZenonT(60)
<1>5. IsFiniteSet(InFlight(c))
  BY FlightIsBounded DEF InFlight
<1>6. Cardinality(InFlight(c)') = Cardinality(InFlight(c)) - 1
  BY <1>1, <1>5, FS_RemoveElement DEF Recorded
<1>7. \A d \in Clients \ {c} : Recent(d)' = Recent(d) /\ InFlight(d)' = InFlight(d)
  BY <1>1, <1>2 DEF Recorded, Recent, InWindow
<1> QED
  BY <1>1, <1>4, <1>6, <1>7 DEF Recorded

LEMMA RecordKeeps ==
    ASSUME GateInv, NEW r \in Requests, NEW cleanup \in BOOLEAN, Record(r, cleanup)
    PROVE  GateInv'
<1>1. PICK c \in Clients, n \in Nat \X Nat : Recorded(r, c, n, cleanup)
  BY RecordEffect
<1>2. now' = now /\ request' = [request EXCEPT ![r] = NoRequest] /\ now - Window \in Int
  BY GateAssumption, SMTT(90) DEF Record, GateInv, GateTypes
<1>3. ASSUME NEW d \in Clients
      PROVE  failures'[d] \in SUBSET (Nat \X Nat) /\ IsFiniteSet(failures'[d]) /\ Numbered(failures'[d])
  <2>1. PICK F : F = IF d = c THEN failures[c] \cup {n} ELSE failures[d]
    BY ZenonT(60)
  <2>2. /\ failures[d] \in SUBSET (Nat \X Nat) /\ IsFiniteSet(failures[d]) /\ Numbered(failures[d])
        /\ failures[c] \in SUBSET (Nat \X Nat) /\ IsFiniteSet(failures[c])
    BY DEF GateInv, GateTypes
  <2>3. IsFiniteSet(failures[c] \cup {n})
    BY <2>2, FS_AddElement
  <2>4. F \in SUBSET (Nat \X Nat) /\ IsFiniteSet(F) /\ Numbered(F)
    BY <1>1, <2>1, <2>2, <2>3 DEF Recorded
  <2>5. failures'[d] = F \/ failures'[d] = {f \in F : f[1] > now - Window}
    <3>1. failures'[d] = {f \in F : cleanup => f[1] > now - Window}
      BY <1>1, <2>1, ZenonT(60) DEF Recorded
    <3> QED
      BY <3>1
  <2>6. Numbered({f \in F : f[1] > now - Window})
    BY <1>2, <2>4, DropOldNumbered
  <2>7. {f \in F : f[1] > now - Window} \subseteq F /\ IsFiniteSet({f \in F : f[1] > now - Window})
    BY <2>4, FS_Subset
  <2> QED
    BY <2>4, <2>5, <2>6, <2>7, ZenonT(60)
<1>4. GateTypes'
  BY <1>1, <1>2, <1>3 DEF Recorded, GateInv, GateTypes
<1>5. ASSUME NEW d \in Clients
      PROVE  Cardinality(Recent(d)') + Cardinality(InFlight(d)') < Limit + Cardinality(Requests)
  <2>1. PICK e \in Clients :
              /\ Cardinality(Recent(e)') = Cardinality(Recent(e)) + 1
              /\ Cardinality(InFlight(e)') = Cardinality(InFlight(e)) - 1
              /\ \A x \in Clients \ {e} : Recent(x)' = Recent(x) /\ InFlight(x)' = InFlight(x)
    BY RecordCounts
  <2>2. Cardinality(Recent(d)) \in Nat
        /\ Cardinality(Recent(d)) + Cardinality(InFlight(d)) < Limit + Cardinality(Requests)
    BY RecentIsFinite DEF GateInv
  <2>3. Cardinality(InFlight(d)) \in Nat /\ Cardinality(Requests) \in Nat
    BY FlightIsBounded, ZenonT(60) DEF InFlight
  <2>4. CASE d = e
    <3>1. (Cardinality(Recent(d)) + 1) + (Cardinality(InFlight(d)) - 1) < Limit + Cardinality(Requests)
      BY <2>2, <2>3, RoomIsMoved, BoundIsNatural, ZenonT(60)
    <3> QED
      BY <2>1, <2>4, <3>1, ZenonT(60)
  <2>5. CASE d # e
    BY <2>1, <2>2, <2>5
  <2> QED
    BY <2>4, <2>5
<1> QED
  BY <1>3, <1>4, <1>5 DEF GateInv

LEMMA GateTickKeeps ==
    ASSUME GateInv, GateTick
    PROVE  GateInv'
<1>1. now \in Nat /\ now' = now + 1 /\ UNCHANGED <<failures, request>>
  BY DEF GateInv, GateTypes, GateTick
<1>2. GateTypes'
  BY <1>1 DEF GateInv, GateTypes
<1>3. ASSUME NEW d \in Clients
      PROVE  Cardinality(Recent(d)') + Cardinality(InFlight(d)') < Limit + Cardinality(Requests)
  <2>1. Recent(d)' \subseteq Recent(d)
    <3>2. failures[d] \subseteq Nat \X Nat
      BY DEF GateInv, GateTypes
    <3>3. ASSUME NEW f \in failures[d], InWindow(f)' PROVE InWindow(f)
      <4>1. f[1] \in Nat
        BY <3>2
      <4>2. f[1] > now' - Window
        BY <3>3 DEF InWindow
      <4>3. PICK x \in Nat : x = f[1]
        BY <4>1
      <4>4. x > now' - Window
        BY <4>2, <4>3
      <4>5. x > now - Window
        BY <1>1, <4>4, GateAssumption
      <4> QED
        BY <4>3, <4>5 DEF InWindow
    <3>4. Recent(d)' = {f \in failures[d] : InWindow(f)'}
      BY <1>1 DEF Recent
    <3> QED
      BY <3>3, <3>4 DEF Recent
  <2>2. Cardinality(Recent(d)') \in Nat /\ Cardinality(Recent(d)') <= Cardinality(Recent(d))
        /\ Cardinality(Recent(d)) \in Nat
    BY <2>1, RecentIsFinite, FS_Subset, FS_CardinalityType
  <2>3. InFlight(d)' = InFlight(d)
    BY <1>1 DEF InFlight
  <2>4. Cardinality(InFlight(d)) \in Nat /\ Cardinality(Requests) \in Nat
    BY FlightIsBounded, ZenonT(60) DEF InFlight
  <2>5. Cardinality(Recent(d)) + Cardinality(InFlight(d)) < Limit + Cardinality(Requests)
    BY DEF GateInv
  <2> QED
    BY <2>2, <2>3, <2>4, <2>5, GateAssumption
<1> QED
  BY <1>1, <1>2, <1>3 DEF GateInv

LEMMA GateInductive ==
    /\ GateInit => GateInv
    /\ GateInv /\ [GateNext]_gateVars => GateInv'
<1>1. ASSUME GateInit PROVE GateInv
  <2>1. GateTypes
    BY <1>1 DEF GateInit, GateTypes
  <2>2. ASSUME NEW c \in Clients
        PROVE  /\ failures[c] = {} /\ Recent(c) = {} /\ InFlight(c) = {}
    BY <1>1 DEF GateInit, Recent, InFlight
  <2>3. Cardinality(Requests) \in Nat
    BY GateAssumption, FS_CardinalityType
  <2>4. Numbered({})
    BY DEF Numbered
  <2>5. 0 + 0 < Limit + Cardinality(Requests)
    BY <2>3, GateAssumption
  <2>6. IsFiniteSet({}) /\ Cardinality({}) = 0
    BY FS_EmptySet
  <2> QED
    BY <2>1, <2>2, <2>4, <2>5, <2>6 DEF GateInv
<1>2. ASSUME GateInv, UNCHANGED gateVars PROVE GateInv'
  BY <1>2 DEF GateInv, GateTypes, Recent, InWindow, InFlight, gateVars
<1> QED
  BY <1>1, <1>2, ArriveKeeps, AnswerKeeps, RecordKeeps, GateTickKeeps DEF GateNext

\* Within one window a client has never more failures recorded than the limit
\* and the requests that were past the check allow, for any limit, window and
\* number of concurrent requests (is_rate_limited, record_failure).
THEOREM LimitHoldsUnderConcurrency == GateSpec => []FailuresAreBounded
<1>1. GateInv => FailuresAreBounded
  <2>1. SUFFICES ASSUME GateInv, NEW c \in Clients
                 PROVE  Cardinality(Recent(c)) < Limit + Cardinality(Requests)
    BY DEF FailuresAreBounded
  <2>2. Cardinality(InFlight(c)) \in Nat /\ Cardinality(Requests) \in Nat
    BY FlightIsBounded, ZenonT(60) DEF InFlight
  <2>3. Cardinality(Recent(c)) \in Nat
    BY <2>1, RecentIsFinite
  <2>4. Cardinality(Recent(c)) + Cardinality(InFlight(c)) < Limit + Cardinality(Requests)
    BY <2>1 DEF GateInv
  <2> QED
    BY <2>2, <2>3, <2>4, GateAssumption
<1> QED
  BY <1>1, GateInductive, PTL DEF GateSpec

\* No failed attempt is lost: recording one adds exactly one to what the limiter
\* counts for that client and nothing for any other, also when another failure
\* has the same time or when the same call drops what has expired
\* (record_failure, maybe_cleanup).
THEOREM EveryFailureCounts ==
    GateSpec => [][\A r \in Requests, cleanup \in BOOLEAN, c \in Clients :
                      Record(r, cleanup) =>
                        Cardinality(Recent(c)') =
                            IF c = request[r].client THEN Cardinality(Recent(c)) + 1
                            ELSE Cardinality(Recent(c))]_gateVars
<1> DEFINE Counts == \A r \in Requests, cleanup \in BOOLEAN, c \in Clients :
                        Record(r, cleanup) =>
                          Cardinality(Recent(c)') =
                              IF c = request[r].client THEN Cardinality(Recent(c)) + 1
                              ELSE Cardinality(Recent(c))
<1>1. ASSUME GateInv PROVE Counts
  BY <1>1, RecordCounts
<1>2. GateInv /\ [GateNext]_gateVars => [Counts]_gateVars
  BY <1>1
<1> HIDE DEF Counts
<1>3. GateSpec => [][Counts]_gateVars
  BY <1>2, GateInductive, PTL DEF GateSpec
<1> QED
  BY <1>3 DEF Counts
=============================================================================
