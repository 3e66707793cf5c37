----------------------------- MODULE Households -----------------------------
(***************************************************************************)
(* The in-memory household store and its routes: apps/core/src/household.rs*)
(* and apps/core/src/routes/household.rs.                                  *)
(*                                                                         *)
(* The store keeps three maps behind three RwLocks and no operation holds  *)
(* two of them: a new household or member enters `members` first and the   *)
(* user's household afterwards (`joining` is what is in between), and an   *)
(* invite is marked accepted before its member is added (`claimed`).  A    *)
(* role change is checked by the route on snapshots and applied later      *)
(* (`change`).  A user who joins another household stays listed in the     *)
(* first one: nothing removes a member.                                    *)
(***************************************************************************)
EXTENDS Naturals, Sequences, FiniteSets, SequencesExt

CONSTANTS People, Homes, Invites, Nobody

Roles == {"admin", "member", "guest"}

VARIABLES members,        \* Household.members, by household; <<>> before it is created
          homeOf,         \* user_household_map
          invite,         \* invites: Nobody, or [home, role, accepted]
          joining,        \* <<user, home>> whose map insert is still to come
          claimed,        \* <<user, home, role>> whose member is still to be added
          change,         \* the role change a person has had approved, or Nobody
          raced           \* households changed by a late role change, or by one that
                          \*   was approved for another household

homeVars == <<members, homeOf, invite, joining, claimed, change, raced>>

HomeInit ==
    /\ members = [h \in Homes |-> <<>>]
    /\ homeOf = [u \in People |-> Nobody]
    /\ invite = [i \in Invites |-> Nobody]
    /\ joining = {} /\ claimed = {}
    /\ change = [u \in People |-> Nobody]
    /\ raced = {}

\* members.iter().find(..): the first entry of the user.
Entry(u, h) == SelectInSeq(members[h], LAMBDA m : m.user = u)

\* get_user_role, through get_user_household.
RoleOf(u) ==
    IF homeOf[u] # Nobody /\ Entry(u, homeOf[u]) # 0
    THEN members[homeOf[u]][Entry(u, homeOf[u])].role
    ELSE "none"

CreateHousehold(u, h) ==
    /\ members[h] = <<>>
    /\ members' = [members EXCEPT ![h] = <<[user |-> u, role |-> "admin"]>>]
    /\ joining' = joining \cup {<<u, h>>}
    /\ UNCHANGED <<homeOf, invite, claimed, change, raced>>

\* The last step of create_household and of accept_invite.
MapInsert(u, h) ==
    /\ <<u, h>> \in joining
    /\ joining' = joining \ {<<u, h>>}
    /\ homeOf' = [homeOf EXCEPT ![u] = h]
    /\ UNCHANGED <<members, invite, claimed, change, raced>>

\* invite_member: admins only.
InviteMember(u, i, role) ==
    /\ RoleOf(u) = "admin" /\ invite[i] = Nobody
    /\ invite' = [invite EXCEPT ![i] = [home |-> homeOf[u], role |-> role, accepted |-> FALSE]]
    /\ UNCHANGED <<members, homeOf, joining, claimed, change, raced>>

\* accept_invite under the invites lock; an expired invite is refused and
\* changes nothing.
ClaimInvite(u, i) ==
    /\ invite[i] # Nobody /\ ~invite[i].accepted
    /\ invite' = [invite EXCEPT ![i].accepted = TRUE]
    /\ claimed' = claimed \cup {<<u, invite[i].home, invite[i].role>>}
    /\ UNCHANGED <<members, homeOf, joining, change, raced>>

AddMember(u, h, role) ==
    /\ <<u, h, role>> \in claimed
    /\ claimed' = claimed \ {<<u, h, role>>}
    /\ members' = [members EXCEPT ![h] = Append(@, [user |-> u, role |-> role])]
    /\ joining' = joining \cup {<<u, h>>}
    /\ UNCHANGED <<homeOf, invite, change, raced>>

Admins(h) == {k \in DOMAIN members[h] : members[h][k].role = "admin"}

\* "Prevent admin from demoting themselves if they're the only admin."
Allowed(u, target, role) ==
    \/ target # u \/ role = "admin"
    \/ Cardinality(Admins(homeOf[u])) > 1

\* Mutant: the last admin is not looked for.
NoLastAdminCheck(u, target, role) == RoleOf(u) = "admin"

\* update_member_role of the route, up to its call of the store.
MayChangeRole(u, target, role) == RoleOf(u) = "admin" /\ Allowed(u, target, role)

ApproveChange(u, target, role) ==
    /\ change[u] = Nobody
    /\ MayChangeRole(u, target, role)
    /\ change' = [change EXCEPT ![u] = [home |-> homeOf[u], target |-> target,
                                        role |-> role, late |-> FALSE]]
    /\ UNCHANGED <<members, homeOf, invite, joining, claimed, raced>>

\* update_member_role of the store: the household is looked up again.  A change
\* is late when another one was applied since it was approved.
ApplyChange(u) ==
    LET c == change[u]
        h == homeOf[c.target]
        found == h # Nobody /\ Entry(c.target, h) # 0
    IN /\ change[u] # Nobody
       /\ change' = [v \in People |->
             IF v = u \/ change[v] = Nobody THEN Nobody ELSE [change[v] EXCEPT !.late = TRUE]]
       /\ members' = IF found THEN [members EXCEPT ![h][Entry(c.target, h)].role = c.role]
                               ELSE members
       /\ raced' = IF found /\ (c.late \/ h # c.home) THEN raced \cup {h} ELSE raced
       /\ UNCHANGED <<homeOf, invite, joining, claimed>>

HomeNext ==
    \/ \E u \in People, h \in Homes : CreateHousehold(u, h) \/ MapInsert(u, h)
    \/ \E u \in People, i \in Invites, r \in Roles : InviteMember(u, i, r)
    \/ \E u \in People, i \in Invites : ClaimInvite(u, i)
    \/ \E u \in People, h \in Homes, r \in Roles : AddMember(u, h, r)
    \/ \E u, v \in People, r \in Roles : ApproveChange(u, v, r)
    \/ \E u \in People : ApplyChange(u)

HomeSpec == HomeInit /\ [][HomeNext]_homeVars

-----------------------------------------------------------------------------
(* A household keeps an admin: the route refuses an admin who would demote *)
(* the last one, itself (routes/household.rs:237).  The refusal is decided *)
(* on a snapshot, so it holds as long as no role change is applied between *)
(* the approval and the application of another one, and none is applied to *)
(* a household other than the one it was approved for.                     *)
AdminRemains == \A h \in Homes \ raced : members[h] # <<>> => Admins(h) # {}

=============================================================================
