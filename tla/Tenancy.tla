------------------------------- MODULE Tenancy -------------------------------
(***************************************************************************)
(* An organization and the teams that stand alone or under it (apps/api/   *)
(* src/organizations/postgres-organization-store.ts, teams/postgres-team-  *)
(* store.ts).  Each mutation is one transaction that locks the aggregate   *)
(* and repeats every check of the service, so it is one step here; what    *)
(* interleaves is the life of accounts, memberships, policy and teams.     *)
(* Not modelled: names, slugs, addresses (an invitation is addressed to an *)
(* account), audit rows.                                                   *)
(***************************************************************************)
EXTENDS Naturals, FiniteSets

CONSTANTS
  Users,
  Teams,
  Policies     \* OrganizationPolicyV1, its limits and its switches

VARIABLES
  active,      \* accounts whose status is active
  org,         \* [status, policy]
  member,      \* role of the membership that is not removed
  invited,     \* role of the pending invitation of the organization
  team,        \* "none", "standalone" or "owned" by the organization
  teamRole,    \* team_memberships
  teamInvited  \* accounts with a pending invitation of the team

vars == <<active, org, member, invited, team, teamRole, teamInvited>>

Roles == {"member", "admin", "owner"}

TypeOK ==
  /\ active \subseteq Users
  /\ org \in [status : {"none", "active", "archived"}, policy : Policies]
  /\ member \in [Users -> Roles \cup {"none"}]
  /\ invited \in [Users -> Roles \cup {"none"}]
  /\ team \in [Teams -> {"none", "standalone", "owned"}]
  /\ teamRole \in [Teams -> [Users -> {"none", "member", "owner"}]]
  /\ teamInvited \in [Teams -> SUBSET Users]

Init ==
  /\ active = Users
  /\ org \in [status : {"none"}, policy : Policies]
  /\ member = [u \in Users |-> "none"]
  /\ invited = [u \in Users |-> "none"]
  /\ team = [t \in Teams |-> "none"]
  /\ teamRole = [t \in Teams |-> [u \in Users |-> "none"]]
  /\ teamInvited = [t \in Teams |-> {}]

Members == {u \in Users : member[u] # "none"}
OwnedTeams == {t \in Teams : team[t] = "owned"}
TeamMembers(t) == {u \in Users : teamRole[t][u] # "none"}

ActiveOwnerCount == Cardinality({u \in Users : member[u] = "owner"})
OwnerCount(t) == Cardinality({u \in Users : teamRole[t][u] = "owner"})

HasRole(u, roles) == org.status = "active" /\ u \in active /\ member[u] \in roles

---------------------------------------------------------------------------
\* The organization.
CreateOrganization(u) ==
  /\ org.status = "none" /\ u \in active
  /\ \E p \in Policies : org' = [status |-> "active", policy |-> p]
  /\ member' = [member EXCEPT ![u] = "owner"]
  /\ UNCHANGED <<active, invited, team, teamRole, teamInvited>>

CreateInvitation(u, x, role) ==
  /\ HasRole(u, IF role = "owner" THEN {"owner"} ELSE {"admin", "owner"})
  /\ member[x] = "none" /\ invited[x] = "none"
  /\ invited' = [invited EXCEPT ![x] = role]
  /\ UNCHANGED <<active, org, member, team, teamRole, teamInvited>>

\* Faulty: the member limit is that of the day of the invitation.
CapacityAtInvitation == TRUE

HasMemberCapacity == Cardinality(Members) < org.policy.members

AcceptInvitation(x) ==
  /\ org.status = "active" /\ x \in active
  /\ invited[x] # "none"
  /\ member[x] = "none" => HasMemberCapacity
  /\ member' = [member EXCEPT ![x] = IF @ = "none" THEN invited[x] ELSE @]
  /\ invited' = [invited EXCEPT ![x] = "none"]
  /\ UNCHANGED <<active, org, team, teamRole, teamInvited>>

\* Faulty: owners are counted before the organization is locked, so two
\* owners may each leave the other.
MayLoseOwnerAsRead(x) == TRUE

MayLoseOwner(x) == member[x] = "owner" => ActiveOwnerCount > 1

UpdateMembershipRole(u, x, role) ==
  /\ HasRole(u, IF "owner" \in {member[x], role} THEN {"owner"} ELSE {"admin", "owner"})
  /\ member[x] # "none"
  /\ role # "owner" => MayLoseOwner(x)
  /\ member' = [member EXCEPT ![x] = role]
  /\ UNCHANGED <<active, org, invited, team, teamRole, teamInvited>>

RemoveMembership(u, x) ==
  /\ HasRole(u, IF member[x] = "owner" THEN {"owner"} ELSE {"admin", "owner"})
  /\ member[x] # "none"
  /\ MayLoseOwner(x)
  /\ member' = [member EXCEPT ![x] = "none"]
  /\ UNCHANGED <<active, org, invited, team, teamRole, teamInvited>>

\* Append a policy, or activate an earlier revision.
ActivatePolicy(u, p) ==
  /\ HasRole(u, {"owner"})
  /\ org' = [org EXCEPT !.policy = p]
  /\ UNCHANGED <<active, member, invited, team, teamRole, teamInvited>>

ArchiveOrganization(u) ==
  /\ HasRole(u, {"owner"})
  /\ org' = [org EXCEPT !.status = "archived"]
  /\ UNCHANGED <<active, member, invited, team, teamRole, teamInvited>>

---------------------------------------------------------------------------
\* Teams.
HasTeamCapacity == Cardinality(OwnedTeams) < org.policy.teams

FoundTeam(t, u, kind) ==
  /\ team[t] = "none"
  /\ team' = [team EXCEPT ![t] = kind]
  /\ teamRole' = [teamRole EXCEPT ![t][u] = "owner"]
  /\ UNCHANGED <<active, org, member, invited, teamInvited>>

CreateTeam(t, u) ==
  /\ u \in active
  /\ FoundTeam(t, u, "standalone")

CreateChildTeam(t, u) ==
  /\ HasRole(u, IF org.policy.create THEN Roles ELSE {"admin", "owner"})
  /\ HasTeamCapacity
  /\ FoundTeam(t, u, "owned")

\* Faulty: only the owner who moves the team is known to belong.
MovesWithItsOwner(t) == TRUE

MembersBelong(t) == org.policy.closed => TeamMembers(t) \subseteq Members

AdoptStandaloneTeam(t, u) ==
  /\ team[t] = "standalone" /\ teamRole[t][u] = "owner"
  /\ HasRole(u, {"admin", "owner"})
  /\ org.policy.adopt
  /\ HasTeamCapacity
  /\ MembersBelong(t)
  /\ team' = [team EXCEPT ![t] = "owned"]
  /\ UNCHANGED <<active, org, member, invited, teamRole, teamInvited>>

\* Faulty: an open policy makes the parent irrelevant.
MayTakePartIfOpen(t, u) ==
  team[t] = "owned" => \/ ~org.policy.closed
                       \/ org.status = "active" /\ member[u] # "none"

\* What the parent asks of an account that acts in, or joins, a team.
MayTakePart(t, u) ==
  team[t] = "owned" => org.status = "active" /\ (org.policy.closed => member[u] # "none")

LockTeamOwnerAuthority(t, u) ==
  MayTakePart(t, u) /\ u \in active /\ teamRole[t][u] = "owner"

CreateTeamInvitation(t, u, x) ==
  /\ LockTeamOwnerAuthority(t, u)
  /\ teamRole[t][x] = "none"
  /\ teamInvited' = [teamInvited EXCEPT ![t] = @ \cup {x}]
  /\ UNCHANGED <<active, org, member, invited, team, teamRole>>

RevokeTeamInvitation(t, u, x) ==
  /\ LockTeamOwnerAuthority(t, u)
  /\ x \in teamInvited[t]
  /\ teamInvited' = [teamInvited EXCEPT ![t] = @ \ {x}]
  /\ UNCHANGED <<active, org, member, invited, team, teamRole>>

AcceptTeamInvitation(t, x) ==
  /\ x \in teamInvited[t]
  /\ MayTakePart(t, x)
  /\ x \in active
  /\ teamRole' = [teamRole EXCEPT ![t][x] = IF @ = "none" THEN "member" ELSE @]
  /\ teamInvited' = [teamInvited EXCEPT ![t] = @ \ {x}]
  /\ UNCHANGED <<active, org, member, invited, team>>

UpdateMemberRole(t, u, x, role) ==
  /\ LockTeamOwnerAuthority(t, u)
  /\ teamRole[t][x] # "none"
  /\ teamRole[t][x] = "owner" /\ role = "member" => OwnerCount(t) > 1
  /\ teamRole' = [teamRole EXCEPT ![t][x] = role]
  /\ UNCHANGED <<active, org, member, invited, team, teamInvited>>

RemoveMember(t, u, x) ==
  /\ LockTeamOwnerAuthority(t, u)
  /\ teamRole[t][x] # "none"
  /\ teamRole[t][x] = "owner" => OwnerCount(t) > 1
  /\ teamRole' = [teamRole EXCEPT ![t][x] = "none"]
  /\ UNCHANGED <<active, org, member, invited, team, teamInvited>>

---------------------------------------------------------------------------
\* An administrator of the service disables or enables an account.
SetActive(u) ==
  /\ active' = IF u \in active THEN active \ {u} ELSE active \cup {u}
  /\ UNCHANGED <<org, member, invited, team, teamRole, teamInvited>>

Next ==
  \E u \in Users :
    \/ SetActive(u)
    \/ CreateOrganization(u) \/ AcceptInvitation(u) \/ ArchiveOrganization(u)
    \/ \E p \in Policies : ActivatePolicy(u, p)
    \/ \E x \in Users :
         \/ RemoveMembership(u, x)
         \/ \E role \in Roles : CreateInvitation(u, x, role) \/ UpdateMembershipRole(u, x, role)
    \/ \E t \in Teams :
         \/ CreateTeam(t, u) \/ CreateChildTeam(t, u) \/ AdoptStandaloneTeam(t, u)
         \/ AcceptTeamInvitation(t, u)
         \/ \E x \in Users :
              \/ CreateTeamInvitation(t, u, x) \/ RevokeTeamInvitation(t, u, x)
              \/ RemoveMember(t, u, x)
              \/ \E role \in {"member", "owner"} : UpdateMemberRole(t, u, x, role)

Spec == Init /\ [][Next]_vars

---------------------------------------------------------------------------
(***************************************************************************)
(* Properties                                                              *)
(***************************************************************************)
\* Somebody has the role owner, with an active account or without.
OwnerRoleHeld == org.status # "none" => \E u \in Users : member[u] = "owner"
TeamOwnerRoleHeld(t) == team[t] # "none" => \E u \in Users : teamRole[t][u] = "owner"

\* The checks of the last owner, made under the lock of the organization or the
\* team, leave each of them a member with the role owner, whatever its owners do
\* to each other.  Like those checks (activeOwnerCount, ownerCount) this asks for
\* the role and not for an active account: when the other owner is disabled, an
\* owner may leave, and nobody is left who can act as owner.
OwnerRoleIsHeld == OwnerRoleHeld /\ \A t \in Teams : TeamOwnerRoleHeld(t)

\* Nobody belongs, or is invited, to a team that has not been founded.
FoundersComeFirst ==
  \A t \in Teams : team[t] = "none" => TeamMembers(t) = {} /\ teamInvited[t] = {}

\* What is true of an organization and its teams whatever comes next.
IInv == TypeOK /\ OwnerRoleIsHeld /\ FoundersComeFirst

ArchivedIsFrozenStep ==
  org.status = "archived" =>
     /\ UNCHANGED <<org, member, invited>>
     /\ \A t \in Teams :
          /\ (team[t] = "owned") = (team'[t] = "owned")
          /\ team[t] = "owned" => UNCHANGED <<teamRole[t], teamInvited[t]>>

\* An archived organization is frozen with everything under it: no membership,
\* invitation or policy of it changes, and nothing in the teams it owns, by
\* whichever store the request comes.
ArchivedIsFrozen == [][ArchivedIsFrozenStep]_vars

GrowthRespectsThePolicyStep ==
   /\ Members' \subseteq Members \/ org.status = "none" \/ Cardinality(Members') <= org.policy.members
   /\ OwnedTeams' \subseteq OwnedTeams \/ Cardinality(OwnedTeams') <= org.policy.teams
   /\ org.status = "active" /\ org.policy.closed =>
        \A t \in OwnedTeams' :
          (IF t \in OwnedTeams THEN TeamMembers(t)' \ TeamMembers(t) ELSE TeamMembers(t)')
            \subseteq Members

\* The organization grows within the policy of the day, though the policy may
\* have been tightened since an invitation was sent: members and teams come
\* only below the limit, and under a closed policy nobody gets into a team of
\* the organization, with the team or alone, who does not belong to it.
GrowthRespectsThePolicy == [][GrowthRespectsThePolicyStep]_vars

=============================================================================
