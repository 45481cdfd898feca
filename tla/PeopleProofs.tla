------------------------------ MODULE PeopleProofs -----------------------------
(***************************************************************************)
(* What holds of organizations, their teams and the locks of their         *)
(* transactions, of accounts, of the links that change them, of their      *)
(* administration and of the messages sent to them, of connections, of     *)
(* sign-in with second factors and of device logins, for every number of   *)
(* accounts, teams, requests, links, messages, workers, tokens, codes,     *)
(* factors, challenges, processes and polls and every set of policies:     *)
(* properties that MCPeople checks on small instances, as theorems of its  *)
(* specification.                                                          *)
(***************************************************************************)
EXTENDS MCPeople, Sequences, FiniteSetTheorems, TLAPS

---------------------------------------------------------------------------
(* One protocol moves, and it is the same one for ever.                    *)

\* A step of the whole leaves the choice of the protocol alone.
LEMMA PartStays ==
  ASSUME [Next]_vars
  PROVE  part' = part
BY DEF Next, vars, AccountAction, Administration, SigningIn, DeviceLoggingIn,
       Authorization, Governance, Locking, Mailing

\* While organizations move, a step is one of theirs or changes nothing of theirs.
LEMMA TenancySteps ==
  ASSUME part = "tenancy", [Next]_vars
  PROVE  Org!Next \/ UNCHANGED Org!vars
BY DEF Next, vars, Org!vars, AccountAction, Administration, SigningIn, DeviceLoggingIn,
       Authorization, Governance, Locking, Mailing

---------------------------------------------------------------------------
(* Organizations and teams: types.                                         *)

\* The organization and the teams start in their types.
LEMMA OrgInitTypes == Org!Init => Org!TypeOK
BY DEF Org!Init, Org!TypeOK, Org!Roles

\* Every step of the organization and its teams keeps the types.
LEMMA OrgTypes ==
  ASSUME Org!TypeOK, Org!Next \/ UNCHANGED Org!vars
  PROVE  Org!TypeOK'
<1>1. ASSUME NEW u \in Twins, Org!SetActive(u) PROVE Org!TypeOK'
  BY <1>1 DEF Org!TypeOK, Org!SetActive
<1>2. ASSUME NEW u \in Twins, Org!CreateOrganization(u) PROVE Org!TypeOK'
  BY <1>2 DEF Org!TypeOK, Org!CreateOrganization, Org!Roles
<1>3. ASSUME NEW u \in Twins, Org!AcceptInvitation(u) PROVE Org!TypeOK'
  BY <1>3 DEF Org!TypeOK, Org!AcceptInvitation
<1>4. ASSUME NEW u \in Twins, Org!ArchiveOrganization(u) PROVE Org!TypeOK'
  BY <1>4 DEF Org!TypeOK, Org!ArchiveOrganization
<1>5. ASSUME NEW u \in Twins, NEW p \in Policies, Org!ActivatePolicy(u, p) PROVE Org!TypeOK'
  BY <1>5 DEF Org!TypeOK, Org!ActivatePolicy
<1>6. ASSUME NEW u \in Twins, NEW x \in Twins, Org!RemoveMembership(u, x) PROVE Org!TypeOK'
  BY <1>6 DEF Org!TypeOK, Org!RemoveMembership
<1>7. ASSUME NEW u \in Twins, NEW x \in Twins, NEW role \in Org!Roles,
             Org!CreateInvitation(u, x, role)
      PROVE  Org!TypeOK'
  BY <1>7 DEF Org!TypeOK, Org!CreateInvitation
<1>8. ASSUME NEW u \in Twins, NEW x \in Twins, NEW role \in Org!Roles,
             Org!UpdateMembershipRole(u, x, role)
      PROVE  Org!TypeOK'
  BY <1>8 DEF Org!TypeOK, Org!UpdateMembershipRole
<1>9. ASSUME NEW u \in Twins, NEW t \in Teams,
             Org!CreateTeam(t, u) \/ Org!CreateChildTeam(t, u)
      PROVE  Org!TypeOK'
  <2>1. PICK kind \in {"standalone", "owned"} : Org!FoundTeam(t, u, kind)
    BY <1>9 DEF Org!CreateTeam, Org!CreateChildTeam
  <2> QED
    BY <2>1 DEF Org!TypeOK, Org!FoundTeam
<1>10. ASSUME NEW u \in Twins, NEW t \in Teams, Org!AdoptStandaloneTeam(t, u)
       PROVE  Org!TypeOK'
  BY <1>10 DEF Org!TypeOK, Org!AdoptStandaloneTeam
<1>11. ASSUME NEW u \in Twins, NEW t \in Teams, Org!AcceptTeamInvitation(t, u)
       PROVE  Org!TypeOK'
  BY <1>11 DEF Org!TypeOK, Org!AcceptTeamInvitation
<1>12. ASSUME NEW u \in Twins, NEW t \in Teams, NEW x \in Twins,
              Org!CreateTeamInvitation(t, u, x) \/ Org!RevokeTeamInvitation(t, u, x)
       PROVE  Org!TypeOK'
  BY <1>12 DEF Org!TypeOK, Org!CreateTeamInvitation, Org!RevokeTeamInvitation
<1>13. ASSUME NEW u \in Twins, NEW t \in Teams, NEW x \in Twins, Org!RemoveMember(t, u, x)
       PROVE  Org!TypeOK'
  BY <1>13 DEF Org!TypeOK, Org!RemoveMember
<1>14. ASSUME NEW u \in Twins, NEW t \in Teams, NEW x \in Twins, NEW role \in {"member", "owner"},
              Org!UpdateMemberRole(t, u, x, role)
       PROVE  Org!TypeOK'
  BY <1>14 DEF Org!TypeOK, Org!UpdateMemberRole
<1>15. CASE UNCHANGED Org!vars
  BY <1>15 DEF Org!TypeOK, Org!vars
<1> QED
  BY <1>1, <1>2, <1>3, <1>4, <1>5, <1>6, <1>7, <1>8, <1>9, <1>10, <1>11, <1>12, <1>13, <1>14, <1>15
  DEF Org!Next

---------------------------------------------------------------------------
(* Organizations and teams: owners.                                        *)

\* Of more than one owner another one is left.
LEMMA AnotherOwner ==
  ASSUME NEW S, IsFiniteSet(S), Cardinality(S) > 1, NEW x
  PROVE  \E y \in S : y # x
<1> SUFFICES ASSUME S \subseteq {x} PROVE FALSE
  OBVIOUS
<1>1. IsFiniteSet({x}) /\ Cardinality({x}) = 1
  BY FS_Singleton
<1>2. Cardinality(S) <= 1 /\ Cardinality(S) \in Nat
  BY <1>1, FS_Subset, FS_CardinalityType
<1> QED
  BY <1>2

\* Tenancy counts with the operator of FiniteSets.
LEMMA OrgCounts == \A S : Org!Cardinality(S) = Cardinality(S)
BY DEF Org!Cardinality, Cardinality

\* Any accounts are finitely many.
LEMMA FinitelyManyUsers == \A S \in SUBSET Twins : IsFiniteSet(S)
<1>1. IsFiniteSet(Twins)
  BY TenancyAssumption
<1> QED
  BY <1>1, FS_Subset

\* An owner of the organization who may be lost leaves another one.
LEMMA LosingLeavesAnOwner ==
  ASSUME NEW x \in Twins, Org!MayLoseOwner(x), \E u \in Twins : s3[u] = "owner"
  PROVE  \E y \in Twins : y # x /\ s3[y] = "owner"
<1> DEFINE owners == {y \in Twins : s3[y] = "owner"}
<1>1. CASE s3[x] = "owner"
  <2>1. IsFiniteSet(owners)
    <3>1. owners \in SUBSET Twins
      OBVIOUS
    <3> HIDE DEF owners
    <3> QED
      BY <3>1, FinitelyManyUsers
  <2>2. Cardinality(owners) > 1
    BY <1>1, OrgCounts DEF Org!MayLoseOwner, Org!ActiveOwnerCount
  <2>3. \E y \in owners : y # x
    BY <2>1, <2>2, AnotherOwner
  <2> QED
    BY <2>3
<1> QED
  BY <1>1

\* So does an owner of a team.
LEMMA LosingLeavesATeamOwner ==
  ASSUME NEW t \in Teams, NEW x \in Twins, s6[t][x] = "owner" => Org!OwnerCount(t) > 1,
         \E u \in Twins : s6[t][u] = "owner"
  PROVE  \E y \in Twins : y # x /\ s6[t][y] = "owner"
<1> DEFINE owners == {y \in Twins : s6[t][y] = "owner"}
<1>1. CASE s6[t][x] = "owner"
  <2>1. IsFiniteSet(owners)
    <3>1. owners \in SUBSET Twins
      OBVIOUS
    <3> HIDE DEF owners
    <3> QED
      BY <3>1, FinitelyManyUsers
  <2>2. Cardinality(owners) > 1
    BY <1>1, OrgCounts DEF Org!OwnerCount
  <2>3. \E y \in owners : y # x
    BY <2>1, <2>2, AnotherOwner
  <2> QED
    BY <2>3
<1> QED
  BY <1>1

\* The checks of the last owner are enough: no step of the organization, of its
\* teams or of an administrator leaves one of them without a member in the role owner.
LEMMA OrgOwners ==
  ASSUME Org!TypeOK, Org!OwnerRoleIsHeld, Org!Next \/ UNCHANGED Org!vars
  PROVE  Org!OwnerRoleIsHeld'
<1>1. Org!OwnerRoleHeld /\ \A t \in Teams : Org!TeamOwnerRoleHeld(t)
  BY DEF Org!OwnerRoleIsHeld, Org!OwnerRoleHeld, Org!TeamOwnerRoleHeld
<1>2. Org!OwnerRoleHeld' /\ (\A t \in Teams : Org!TeamOwnerRoleHeld(t)') => Org!OwnerRoleIsHeld'
  BY DEF Org!OwnerRoleIsHeld, Org!OwnerRoleHeld, Org!TeamOwnerRoleHeld
<1>3. UNCHANGED <<s5, s6>> => \A t \in Teams : Org!TeamOwnerRoleHeld(t)'
  BY <1>1 DEF Org!TeamOwnerRoleHeld
<1>4. UNCHANGED <<s2, s3>> => Org!OwnerRoleHeld'
  BY <1>1 DEF Org!OwnerRoleHeld
<1>5. ASSUME NEW u \in Twins, Org!CreateOrganization(u) PROVE Org!OwnerRoleIsHeld'
  <2>1. s3'[u] = "owner" /\ UNCHANGED <<s5, s6>>
    BY <1>5 DEF Org!CreateOrganization, Org!TypeOK
  <2> QED
    BY <2>1, <1>2, <1>3 DEF Org!OwnerRoleHeld
<1>6. ASSUME NEW u \in Twins, Org!AcceptInvitation(u) PROVE Org!OwnerRoleIsHeld'
  <2>1. Org!OwnerRoleHeld'
    BY <1>1, <1>6 DEF Org!AcceptInvitation, Org!TypeOK, Org!OwnerRoleHeld
  <2> QED
    BY <2>1, <1>2, <1>3, <1>6 DEF Org!AcceptInvitation
<1>7. ASSUME NEW u \in Twins, Org!ArchiveOrganization(u) \/ \E p \in Policies : Org!ActivatePolicy(u, p)
      PROVE  Org!OwnerRoleIsHeld'
  <2>1. s2.status = "active" /\ UNCHANGED <<s3, s5, s6>>
    BY <1>7 DEF Org!ActivatePolicy, Org!ArchiveOrganization, Org!HasRole
  <2> QED
    BY <2>1, <1>1, <1>2, <1>3 DEF Org!OwnerRoleHeld
<1>8. ASSUME NEW u \in Twins, NEW x \in Twins, Org!RemoveMembership(u, x)
      PROVE  Org!OwnerRoleIsHeld'
  <2>1. Org!MayLoseOwner(x) /\ s2.status = "active" /\ UNCHANGED <<s2, s5, s6>>
    BY <1>8 DEF Org!RemoveMembership, Org!HasRole
  <2>2. PICK y \in Twins : y # x /\ s3[y] = "owner"
    BY <2>1, <1>1, LosingLeavesAnOwner DEF Org!OwnerRoleHeld
  <2>3. s3'[y] = "owner"
    BY <2>2, <1>8 DEF Org!RemoveMembership, Org!TypeOK
  <2> QED
    BY <2>1, <2>3, <1>2, <1>3 DEF Org!OwnerRoleHeld
<1>9. ASSUME NEW u \in Twins, NEW x \in Twins, NEW role \in Org!Roles,
             Org!UpdateMembershipRole(u, x, role)
      PROVE  Org!OwnerRoleIsHeld'
  <2>1. /\ s2.status = "active" /\ UNCHANGED <<s2, s5, s6>>
        /\ s3' = [s3 EXCEPT ![x] = role]
        /\ role # "owner" => Org!MayLoseOwner(x)
    BY <1>9 DEF Org!UpdateMembershipRole, Org!HasRole
  <2>2. \E y \in Twins : s3'[y] = "owner"
    <3>1. CASE role = "owner"
      BY <2>1, <3>1 DEF Org!TypeOK
    <3>2. CASE role # "owner"
      <4>1. PICK y \in Twins : y # x /\ s3[y] = "owner"
        BY <2>1, <3>2, <1>1, LosingLeavesAnOwner DEF Org!OwnerRoleHeld
      <4> QED
        BY <4>1, <2>1 DEF Org!TypeOK
    <3> QED
      BY <3>1, <3>2
  <2> QED
    BY <2>1, <2>2, <1>2, <1>3 DEF Org!OwnerRoleHeld
<1>10. ASSUME NEW u \in Twins, NEW t \in Teams, Org!CreateTeam(t, u) \/ Org!CreateChildTeam(t, u)
       PROVE  Org!OwnerRoleIsHeld'
  <2>1. PICK kind \in {"standalone", "owned"} : Org!FoundTeam(t, u, kind)
    BY <1>10 DEF Org!CreateTeam, Org!CreateChildTeam
  <2>2. UNCHANGED <<s2, s3>> /\ \A r \in Teams : Org!TeamOwnerRoleHeld(r)'
    BY <2>1, <1>1 DEF Org!FoundTeam, Org!TypeOK, Org!TeamOwnerRoleHeld
  <2> QED
    BY <2>2, <1>2, <1>4
<1>11. ASSUME NEW u \in Twins, NEW t \in Teams, Org!AdoptStandaloneTeam(t, u)
       PROVE  Org!OwnerRoleIsHeld'
  <2>1. UNCHANGED <<s2, s3>> /\ \A r \in Teams : Org!TeamOwnerRoleHeld(r)'
    BY <1>11, <1>1 DEF Org!AdoptStandaloneTeam, Org!TypeOK, Org!TeamOwnerRoleHeld
  <2> QED
    BY <2>1, <1>2, <1>4
<1>12. ASSUME NEW u \in Twins, NEW t \in Teams, Org!AcceptTeamInvitation(t, u)
       PROVE  Org!OwnerRoleIsHeld'
  <2>1. UNCHANGED <<s2, s3>> /\ \A r \in Teams : Org!TeamOwnerRoleHeld(r)'
    BY <1>12, <1>1 DEF Org!AcceptTeamInvitation, Org!TypeOK, Org!TeamOwnerRoleHeld
  <2> QED
    BY <2>1, <1>2, <1>4
<1>13. ASSUME NEW t \in Teams, NEW x \in Twins, NEW role \in {"none", "member", "owner"},
              UNCHANGED <<s2, s3, s5>>, s6' = [s6 EXCEPT ![t][x] = role],
              \E u \in Twins : s6[t][u] = "owner",
              role # "owner" => (s6[t][x] = "owner" => Org!OwnerCount(t) > 1)
       PROVE  Org!OwnerRoleIsHeld'
  <2>2. \E y \in Twins : s6'[t][y] = "owner"
    <3>1. CASE role = "owner"
      BY <1>13, <3>1 DEF Org!TypeOK
    <3>2. CASE role # "owner"
      <4>1. PICK y \in Twins : y # x /\ s6[t][y] = "owner"
        BY <1>13, <3>2, LosingLeavesATeamOwner
      <4> QED
        BY <4>1, <1>13 DEF Org!TypeOK
    <3> QED
      BY <3>1, <3>2
  <2>3. \A r \in Teams : r # t => s6'[r] = s6[r]
    BY <1>13 DEF Org!TypeOK
  <2>4. \A r \in Teams : Org!TeamOwnerRoleHeld(r)'
    BY <1>13, <2>2, <2>3, <1>1 DEF Org!TeamOwnerRoleHeld
  <2> QED
    BY <1>13, <2>4, <1>2, <1>4
<1>19. ASSUME NEW t \in Teams, NEW u \in Twins, NEW x \in Twins, Org!RemoveMember(t, u, x)
       PROVE  Org!OwnerRoleIsHeld'
  BY <1>13, <1>19 DEF Org!RemoveMember, Org!LockTeamOwnerAuthority
<1>20. ASSUME NEW t \in Teams, NEW u \in Twins, NEW x \in Twins, NEW role \in {"member", "owner"},
              Org!UpdateMemberRole(t, u, x, role)
       PROVE  Org!OwnerRoleIsHeld'
  BY <1>13, <1>20 DEF Org!UpdateMemberRole, Org!LockTeamOwnerAuthority
<1>14. ASSUME UNCHANGED <<s2, s3, s5, s6>> PROVE Org!OwnerRoleIsHeld'
  BY <1>14, <1>2, <1>3, <1>4
<1>15. ASSUME NEW u \in Twins, Org!SetActive(u) PROVE Org!OwnerRoleIsHeld'
  BY <1>14, <1>15 DEF Org!SetActive
<1>16. ASSUME NEW u \in Twins, NEW x \in Twins, NEW role \in Org!Roles,
              Org!CreateInvitation(u, x, role)
       PROVE  Org!OwnerRoleIsHeld'
  BY <1>14, <1>16 DEF Org!CreateInvitation
<1>17. ASSUME NEW t \in Teams, NEW u \in Twins, NEW x \in Twins,
              Org!CreateTeamInvitation(t, u, x) \/ Org!RevokeTeamInvitation(t, u, x)
       PROVE  Org!OwnerRoleIsHeld'
  BY <1>14, <1>17 DEF Org!CreateTeamInvitation, Org!RevokeTeamInvitation
<1>18. CASE UNCHANGED Org!vars
  BY <1>14, <1>18 DEF Org!vars
<1> QED
  BY <1>5, <1>6, <1>7, <1>8, <1>9, <1>10, <1>11, <1>12, <1>15,
     <1>16, <1>17, <1>18, <1>19, <1>20
  DEF Org!Next

\* Whoever joins a team does so after it was founded.
LEMMA OrgFounders ==
  ASSUME Org!TypeOK, Org!FoundersComeFirst, Org!Next \/ UNCHANGED Org!vars
  PROVE  Org!FoundersComeFirst'
<1> USE DEF Org!FoundersComeFirst, Org!TeamMembers
<1>1. ASSUME UNCHANGED <<s5, s6, s7>> PROVE Org!FoundersComeFirst'
  BY <1>1
<1>2. ASSUME NEW u \in Twins, NEW t \in Teams, Org!CreateTeam(t, u) \/ Org!CreateChildTeam(t, u)
      PROVE  Org!FoundersComeFirst'
  <2>1. PICK kind \in {"standalone", "owned"} : Org!FoundTeam(t, u, kind)
    BY <1>2 DEF Org!CreateTeam, Org!CreateChildTeam
  <2> QED
    BY <2>1 DEF Org!FoundTeam, Org!TypeOK
<1>3. ASSUME NEW t \in Teams, s5[t] # "none", UNCHANGED s5,
             \A r \in Teams : r # t => UNCHANGED <<s6[r], s7[r]>>
      PROVE  Org!FoundersComeFirst'
  BY <1>3
<1>4. ASSUME NEW u \in Twins, NEW t \in Teams, Org!AdoptStandaloneTeam(t, u)
      PROVE  Org!FoundersComeFirst'
  BY <1>4 DEF Org!AdoptStandaloneTeam, Org!TypeOK
<1>5. ASSUME NEW u \in Twins, NEW t \in Teams, Org!AcceptTeamInvitation(t, u)
      PROVE  Org!FoundersComeFirst'
  BY <1>3, <1>5 DEF Org!AcceptTeamInvitation, Org!TypeOK
<1>6. ASSUME NEW u \in Twins, NEW t \in Teams, Org!LockTeamOwnerAuthority(t, u)
      PROVE  s5[t] # "none"
  BY <1>6 DEF Org!LockTeamOwnerAuthority
<1>7. ASSUME NEW u \in Twins, NEW t \in Teams, NEW x \in Twins,
             Org!CreateTeamInvitation(t, u, x) \/ Org!RevokeTeamInvitation(t, u, x)
      PROVE  Org!FoundersComeFirst'
  BY <1>3, <1>6, <1>7 DEF Org!CreateTeamInvitation, Org!RevokeTeamInvitation, Org!TypeOK
<1>8. ASSUME NEW u \in Twins, NEW t \in Teams, NEW x \in Twins, Org!RemoveMember(t, u, x)
      PROVE  Org!FoundersComeFirst'
  BY <1>3, <1>6, <1>8 DEF Org!RemoveMember, Org!TypeOK
<1>9. ASSUME NEW u \in Twins, NEW t \in Teams, NEW x \in Twins, NEW role \in {"member", "owner"},
             Org!UpdateMemberRole(t, u, x, role)
      PROVE  Org!FoundersComeFirst'
  BY <1>3, <1>6, <1>9 DEF Org!UpdateMemberRole, Org!TypeOK
<1>10. ASSUME NEW u \in Twins,
              \/ Org!SetActive(u) \/ Org!CreateOrganization(u) \/ Org!AcceptInvitation(u)
              \/ Org!ArchiveOrganization(u)
       PROVE  Org!FoundersComeFirst'
  BY <1>1, <1>10
  DEF Org!SetActive, Org!CreateOrganization, Org!AcceptInvitation, Org!ArchiveOrganization
<1>11. ASSUME NEW u \in Twins, NEW p \in Policies, Org!ActivatePolicy(u, p)
       PROVE  Org!FoundersComeFirst'
  BY <1>1, <1>11 DEF Org!ActivatePolicy
<1>12. ASSUME NEW u \in Twins, NEW x \in Twins, Org!RemoveMembership(u, x)
       PROVE  Org!FoundersComeFirst'
  BY <1>1, <1>12 DEF Org!RemoveMembership
<1>13. ASSUME NEW u \in Twins, NEW x \in Twins, NEW role \in Org!Roles,
              Org!CreateInvitation(u, x, role) \/ Org!UpdateMembershipRole(u, x, role)
       PROVE  Org!FoundersComeFirst'
  BY <1>1, <1>13 DEF Org!CreateInvitation, Org!UpdateMembershipRole
<1>14. CASE UNCHANGED Org!vars
  BY <1>1, <1>14 DEF Org!vars
<1> HIDE DEF Org!FoundersComeFirst, Org!TeamMembers
<1> QED
  BY <1>2, <1>4, <1>5, <1>7, <1>8, <1>9, <1>10, <1>11, <1>12, <1>13, <1>14 DEF Org!Next

\* While the organization is archived, a step of it or of a team is refused.
LEMMA OrgFrozen ==
  ASSUME Org!TypeOK, Org!Next \/ UNCHANGED Org!vars
  PROVE  Org!ArchivedIsFrozenStep
<1> SUFFICES ASSUME s2.status = "archived" PROVE Org!ArchivedIsFrozenStep
  BY DEF Org!ArchivedIsFrozenStep
<1> DEFINE Frozen(t) ==
      /\ (s5[t] = "owned") = (s5'[t] = "owned")
      /\ s5[t] = "owned" => UNCHANGED <<s6[t], s7[t]>>
<1>1. ASSUME UNCHANGED <<s2, s3, s4>>, \A t \in Teams : Frozen(t) PROVE Org!ArchivedIsFrozenStep
  BY <1>1 DEF Org!ArchivedIsFrozenStep
<1>2. ASSUME UNCHANGED <<s2, s3, s4, s5, s6, s7>> PROVE Org!ArchivedIsFrozenStep
  BY <1>1, <1>2
<1>3. ASSUME NEW u \in Twins PROVE \A roles : ~Org!HasRole(u, roles)
  BY DEF Org!HasRole
<1>4. ASSUME NEW u \in Twins, NEW t \in Teams, Org!MayTakePart(t, u) PROVE s5[t] # "owned"
  BY <1>4 DEF Org!MayTakePart
<1>5. ASSUME NEW t \in Teams, s5[t] # "owned", UNCHANGED <<s2, s3, s4, s5>>,
             \A r \in Teams : r # t => UNCHANGED <<s6[r], s7[r]>>
      PROVE  Org!ArchivedIsFrozenStep
  BY <1>1, <1>5
<1>6. ASSUME NEW u \in Twins, NEW t \in Teams, Org!CreateTeam(t, u)
      PROVE  Org!ArchivedIsFrozenStep
  BY <1>1, <1>6 DEF Org!CreateTeam, Org!FoundTeam, Org!TypeOK
<1>7. ASSUME NEW u \in Twins, NEW t \in Teams, Org!AcceptTeamInvitation(t, u)
      PROVE  Org!ArchivedIsFrozenStep
  BY <1>4, <1>5, <1>7 DEF Org!AcceptTeamInvitation, Org!TypeOK
<1>8. ASSUME NEW u \in Twins, NEW t \in Teams, NEW x \in Twins,
             Org!CreateTeamInvitation(t, u, x) \/ Org!RevokeTeamInvitation(t, u, x)
      PROVE  Org!ArchivedIsFrozenStep
  BY <1>4, <1>5, <1>8
  DEF Org!CreateTeamInvitation, Org!RevokeTeamInvitation, Org!LockTeamOwnerAuthority, Org!TypeOK
<1>9. ASSUME NEW u \in Twins, NEW t \in Teams, NEW x \in Twins, Org!RemoveMember(t, u, x)
      PROVE  Org!ArchivedIsFrozenStep
  BY <1>4, <1>5, <1>9 DEF Org!RemoveMember, Org!LockTeamOwnerAuthority, Org!TypeOK
<1>10. ASSUME NEW u \in Twins, NEW t \in Teams, NEW x \in Twins, NEW role \in {"member", "owner"},
              Org!UpdateMemberRole(t, u, x, role)
       PROVE  Org!ArchivedIsFrozenStep
  BY <1>4, <1>5, <1>10 DEF Org!UpdateMemberRole, Org!LockTeamOwnerAuthority, Org!TypeOK
<1>11. ASSUME NEW u \in Twins, Org!SetActive(u) PROVE Org!ArchivedIsFrozenStep
  BY <1>2, <1>11 DEF Org!SetActive
<1>12. CASE UNCHANGED Org!vars
  BY <1>2, <1>12 DEF Org!vars
<1>13. ASSUME NEW u \in Twins PROVE ~Org!CreateOrganization(u) /\ ~Org!AcceptInvitation(u) /\ ~Org!ArchiveOrganization(u)
  BY <1>3 DEF Org!CreateOrganization, Org!AcceptInvitation, Org!ArchiveOrganization
<1>14. ASSUME NEW u \in Twins, NEW p \in Policies PROVE ~Org!ActivatePolicy(u, p)
  BY <1>3 DEF Org!ActivatePolicy
<1>15. ASSUME NEW u \in Twins, NEW x \in Twins
       PROVE  /\ ~Org!RemoveMembership(u, x)
              /\ \A role \in Org!Roles :
                   ~Org!CreateInvitation(u, x, role) /\ ~Org!UpdateMembershipRole(u, x, role)
  BY <1>3 DEF Org!RemoveMembership, Org!CreateInvitation, Org!UpdateMembershipRole
<1>16. ASSUME NEW u \in Twins, NEW t \in Teams
       PROVE  ~Org!CreateChildTeam(t, u) /\ ~Org!AdoptStandaloneTeam(t, u)
  BY <1>3 DEF Org!CreateChildTeam, Org!AdoptStandaloneTeam
<1> QED
  BY <1>6, <1>7, <1>8, <1>9, <1>10, <1>11, <1>12, <1>13, <1>14, <1>15, <1>16 DEF Org!Next

---------------------------------------------------------------------------
(* Organizations and teams: limits.                                        *)

\* One more than fewer than n are at most n.
LEMMA OneMore ==
  ASSUME NEW S, IsFiniteSet(S), NEW n \in Nat, Cardinality(S) < n, NEW x, NEW T,
         T \subseteq S \cup {x}
  PROVE  Cardinality(T) <= n
<1>0. Cardinality(S) \in Nat
  BY FS_CardinalityType
<1>1. IsFiniteSet(S \cup {x}) /\ Cardinality(S \cup {x}) <= Cardinality(S) + 1
  <2>1. /\ IsFiniteSet(S \cup {x})
        /\ Cardinality(S \cup {x}) = IF x \in S THEN Cardinality(S) ELSE Cardinality(S) + 1
    BY FS_AddElement
  <2> QED
    BY <1>0, <2>1
<1>2. Cardinality(T) <= Cardinality(S \cup {x})
  BY <1>1, FS_Subset
<1>3. Cardinality(S) \in Nat /\ Cardinality(S \cup {x}) \in Nat /\ Cardinality(T) \in Nat
  BY <1>1, FS_CardinalityType, FS_Subset
<1> QED
  BY <1>1, <1>2, <1>3

\* The three parts of the property.
MembersGrow ==
  Org!Members' \subseteq Org!Members \/ s2.status = "none"
    \/ Org!Cardinality(Org!Members') <= s2.policy.members
TeamsGrow ==
  Org!OwnedTeams' \subseteq Org!OwnedTeams \/ Org!Cardinality(Org!OwnedTeams') <= s2.policy.teams
OnlyMembersJoin ==
  s2.status = "active" /\ s2.policy.closed =>
    \A t \in Org!OwnedTeams' :
      (IF t \in Org!OwnedTeams THEN Org!TeamMembers(t)' \ Org!TeamMembers(t) ELSE Org!TeamMembers(t)')
        \subseteq Org!Members

\* The limits of a policy are numbers.
LEMMA Limits ==
  ASSUME Org!TypeOK
  PROVE  s2.policy.members \in Nat /\ s2.policy.teams \in Nat
<1>1. s2.policy \in Policies
  BY DEF Org!TypeOK
<1>2. s2.policy \in
        [members : Nat, teams : Nat, create : BOOLEAN, adopt : BOOLEAN, closed : BOOLEAN]
  BY <1>1, TenancyAssumption
<1> QED
  BY <1>2

\* Members come only below the limit of the day.
LEMMA OrgMembersGrow ==
  ASSUME Org!TypeOK, Org!Next \/ UNCHANGED Org!vars
  PROVE  MembersGrow
<1>1. ASSUME UNCHANGED s3 PROVE MembersGrow
  BY <1>1 DEF MembersGrow, Org!Members
<1>2. ASSUME NEW u \in Twins, Org!CreateOrganization(u) PROVE MembersGrow
  BY <1>2 DEF Org!CreateOrganization, MembersGrow
<1>3. ASSUME NEW u \in Twins, Org!AcceptInvitation(u) PROVE MembersGrow
  <2>1. CASE s3[u] = "none"
    <3>1. Cardinality(Org!Members) < s2.policy.members
      BY <1>3, <2>1, OrgCounts DEF Org!AcceptInvitation, Org!HasMemberCapacity
    <3>2. Org!Members' \subseteq Org!Members \cup {u} /\ Org!Members \in SUBSET Twins
      BY <1>3 DEF Org!AcceptInvitation, Org!TypeOK, Org!Members
    <3>3. IsFiniteSet(Org!Members)
      BY <3>2, FinitelyManyUsers
    <3>4. Cardinality(Org!Members') <= s2.policy.members
      BY <3>1, <3>2, <3>3, OneMore, Limits
    <3> QED
      BY <3>4, OrgCounts DEF MembersGrow
  <2>2. CASE s3[u] # "none"
    BY <1>3, <2>2 DEF Org!AcceptInvitation, Org!TypeOK, Org!Members, MembersGrow
  <2> QED
    BY <2>1, <2>2
<1>4. ASSUME NEW u \in Twins, NEW x \in Twins, Org!RemoveMembership(u, x) PROVE MembersGrow
  BY <1>4 DEF Org!RemoveMembership, Org!TypeOK, Org!Members, MembersGrow
<1>5. ASSUME NEW u \in Twins, NEW x \in Twins, NEW role \in Org!Roles,
             Org!UpdateMembershipRole(u, x, role)
      PROVE  MembersGrow
  BY <1>5 DEF Org!UpdateMembershipRole, Org!TypeOK, Org!Members, MembersGrow
<1>6. ASSUME NEW u \in Twins, Org!SetActive(u) \/ Org!ArchiveOrganization(u) PROVE MembersGrow
  BY <1>1, <1>6 DEF Org!SetActive, Org!ArchiveOrganization
<1>7. ASSUME NEW u \in Twins, NEW p \in Policies, Org!ActivatePolicy(u, p) PROVE MembersGrow
  BY <1>1, <1>7 DEF Org!ActivatePolicy
<1>8. ASSUME NEW u \in Twins, NEW x \in Twins, NEW role \in Org!Roles, Org!CreateInvitation(u, x, role)
      PROVE  MembersGrow
  BY <1>1, <1>8 DEF Org!CreateInvitation
<1>9. ASSUME NEW u \in Twins, NEW t \in Teams,
             \/ Org!CreateTeam(t, u) \/ Org!CreateChildTeam(t, u) \/ Org!AdoptStandaloneTeam(t, u)
             \/ Org!AcceptTeamInvitation(t, u)
      PROVE  MembersGrow
  BY <1>1, <1>9 DEF Org!CreateTeam, Org!CreateChildTeam, Org!FoundTeam, Org!AdoptStandaloneTeam,
                    Org!AcceptTeamInvitation
<1>10. ASSUME NEW u \in Twins, NEW t \in Teams, NEW x \in Twins,
              \/ Org!CreateTeamInvitation(t, u, x) \/ Org!RevokeTeamInvitation(t, u, x)
              \/ Org!RemoveMember(t, u, x)
              \/ \E role \in {"member", "owner"} : Org!UpdateMemberRole(t, u, x, role)
       PROVE  MembersGrow
  BY <1>1, <1>10 DEF Org!CreateTeamInvitation, Org!RevokeTeamInvitation, Org!RemoveMember,
                     Org!UpdateMemberRole
<1>11. CASE UNCHANGED Org!vars
  BY <1>1, <1>11 DEF Org!vars
<1> QED
  BY <1>2, <1>3, <1>4, <1>5, <1>6, <1>7, <1>8, <1>9, <1>10, <1>11 DEF Org!Next

\* The organization gets a team, of its own or an adopted one, below the limit of the
\* day.
LEMMA OrgTeamsGrow ==
  ASSUME Org!TypeOK, Org!Next \/ UNCHANGED Org!vars
  PROVE  TeamsGrow
<1>1. ASSUME UNCHANGED s5 PROVE TeamsGrow
  BY <1>1 DEF TeamsGrow, Org!OwnedTeams
<1>2. ASSUME NEW t \in Teams, Org!HasTeamCapacity, s5' = [s5 EXCEPT ![t] = "owned"] PROVE TeamsGrow
  <2>1. Cardinality(Org!OwnedTeams) < s2.policy.teams
    BY <1>2, OrgCounts DEF Org!HasTeamCapacity
  <2>2. Org!OwnedTeams' \subseteq Org!OwnedTeams \cup {t} /\ Org!OwnedTeams \in SUBSET Teams
    BY <1>2 DEF Org!TypeOK, Org!OwnedTeams
  <2>3. IsFiniteSet(Teams)
    BY TenancyAssumption
  <2>4. IsFiniteSet(Org!OwnedTeams)
    BY <2>2, <2>3, FS_Subset
  <2>5. Cardinality(Org!OwnedTeams') <= s2.policy.teams
    BY <2>1, <2>2, <2>4, OneMore, Limits
  <2> QED
    BY <2>5, OrgCounts DEF TeamsGrow
<1>3. ASSUME NEW u \in Twins, NEW t \in Teams, Org!CreateTeam(t, u) PROVE TeamsGrow
  BY <1>3 DEF Org!CreateTeam, Org!FoundTeam, Org!TypeOK, Org!OwnedTeams, TeamsGrow
<1>4. ASSUME NEW u \in Twins, NEW t \in Teams,
             Org!CreateChildTeam(t, u) \/ Org!AdoptStandaloneTeam(t, u)
      PROVE  TeamsGrow
  BY <1>2, <1>4 DEF Org!CreateChildTeam, Org!FoundTeam, Org!AdoptStandaloneTeam
<1>5. ASSUME NEW u \in Twins,
             \/ Org!SetActive(u) \/ Org!CreateOrganization(u) \/ Org!AcceptInvitation(u)
             \/ Org!ArchiveOrganization(u)
      PROVE  TeamsGrow
  BY <1>1, <1>5
  DEF Org!SetActive, Org!CreateOrganization, Org!AcceptInvitation, Org!ArchiveOrganization
<1>6. ASSUME NEW u \in Twins, NEW p \in Policies, Org!ActivatePolicy(u, p) PROVE TeamsGrow
  BY <1>1, <1>6 DEF Org!ActivatePolicy
<1>7. ASSUME NEW u \in Twins, NEW x \in Twins, Org!RemoveMembership(u, x) PROVE TeamsGrow
  BY <1>1, <1>7 DEF Org!RemoveMembership
<1>8. ASSUME NEW u \in Twins, NEW x \in Twins, NEW role \in Org!Roles,
             Org!CreateInvitation(u, x, role) \/ Org!UpdateMembershipRole(u, x, role)
      PROVE  TeamsGrow
  BY <1>1, <1>8 DEF Org!CreateInvitation, Org!UpdateMembershipRole
<1>9. ASSUME NEW u \in Twins, NEW t \in Teams, Org!AcceptTeamInvitation(t, u) PROVE TeamsGrow
  BY <1>1, <1>9 DEF Org!AcceptTeamInvitation
<1>10. ASSUME NEW u \in Twins, NEW t \in Teams, NEW x \in Twins,
              \/ Org!CreateTeamInvitation(t, u, x) \/ Org!RevokeTeamInvitation(t, u, x)
              \/ Org!RemoveMember(t, u, x)
              \/ \E role \in {"member", "owner"} : Org!UpdateMemberRole(t, u, x, role)
       PROVE  TeamsGrow
  BY <1>1, <1>10 DEF Org!CreateTeamInvitation, Org!RevokeTeamInvitation, Org!RemoveMember,
                     Org!UpdateMemberRole
<1>11. CASE UNCHANGED Org!vars
  BY <1>1, <1>11 DEF Org!vars
<1> QED
  BY <1>3, <1>4, <1>5, <1>6, <1>7, <1>8, <1>9, <1>10, <1>11 DEF Org!Next

\* Under a closed policy only members of the organization get into a team of it.
LEMMA OrgOnlyMembersJoin ==
  ASSUME Org!TypeOK, Org!FoundersComeFirst, Org!Next \/ UNCHANGED Org!vars
  PROVE  OnlyMembersJoin
<1> SUFFICES ASSUME s2.status = "active", s2.policy.closed PROVE OnlyMembersJoin
  BY DEF OnlyMembersJoin
<1> DEFINE joined(t) == Org!TeamMembers(t)' \ Org!TeamMembers(t)
<1>1. ASSUME UNCHANGED <<s5, s6>> PROVE OnlyMembersJoin
  BY <1>1 DEF OnlyMembersJoin, Org!OwnedTeams, Org!TeamMembers
<1>2. ASSUME UNCHANGED s5, \A t \in Teams : s5[t] = "owned" => joined(t) \subseteq Org!Members
      PROVE  OnlyMembersJoin
  BY <1>2 DEF OnlyMembersJoin, Org!OwnedTeams
<1>3. ASSUME NEW u \in Twins, NEW t \in Teams, Org!CreateTeam(t, u) PROVE OnlyMembersJoin
  BY <1>3 DEF Org!CreateTeam, Org!FoundTeam, Org!TypeOK, OnlyMembersJoin, Org!OwnedTeams,
              Org!TeamMembers
<1>4. ASSUME NEW u \in Twins, NEW t \in Teams, Org!CreateChildTeam(t, u) PROVE OnlyMembersJoin
  <2>1. u \in Org!Members
    BY <1>4 DEF Org!CreateChildTeam, Org!HasRole, Org!Roles, Org!Members
  <2>2. /\ s5[t] = "none" /\ s5' = [s5 EXCEPT ![t] = "owned"]
        /\ s6' = [s6 EXCEPT ![t][u] = "owner"]
    BY <1>4 DEF Org!CreateChildTeam, Org!FoundTeam
  <2>3. Org!TeamMembers(t)' \subseteq {u}
    BY <2>2 DEF Org!TypeOK, Org!TeamMembers, Org!FoundersComeFirst
  <2>4. \A r \in Teams : r # t => s5'[r] = s5[r] /\ s6'[r] = s6[r]
    BY <2>2 DEF Org!TypeOK
  <2>5. t \notin Org!OwnedTeams
    BY <2>2 DEF Org!OwnedTeams
  <2> QED
    BY <2>1, <2>3, <2>4, <2>5 DEF OnlyMembersJoin, Org!OwnedTeams, Org!TeamMembers
<1>5. ASSUME NEW u \in Twins, NEW t \in Teams, Org!AdoptStandaloneTeam(t, u) PROVE OnlyMembersJoin
  BY <1>5 DEF Org!AdoptStandaloneTeam, Org!MembersBelong, Org!TypeOK, OnlyMembersJoin,
              Org!OwnedTeams, Org!TeamMembers
<1>6. ASSUME NEW u \in Twins, NEW t \in Teams, Org!AcceptTeamInvitation(t, u) PROVE OnlyMembersJoin
  <2>1. s5[t] = "owned" => u \in Org!Members
    BY <1>6 DEF Org!AcceptTeamInvitation, Org!MayTakePart, Org!Members
  <2>2. \A r \in Teams : joined(r) \subseteq (IF r = t THEN {u} ELSE {})
    BY <1>6 DEF Org!AcceptTeamInvitation, Org!TypeOK, Org!TeamMembers
  <2> QED
    BY <1>2, <1>6, <2>1, <2>2 DEF Org!AcceptTeamInvitation
<1>7. ASSUME NEW u \in Twins, NEW t \in Teams, NEW x \in Twins, Org!RemoveMember(t, u, x)
      PROVE  OnlyMembersJoin
  <2>1. \A r \in Teams : joined(r) = {}
    BY <1>7 DEF Org!RemoveMember, Org!TypeOK, Org!TeamMembers
  <2> QED
    BY <1>2, <1>7, <2>1 DEF Org!RemoveMember
<1>8. ASSUME NEW u \in Twins, NEW t \in Teams, NEW x \in Twins, NEW role \in {"member", "owner"},
             Org!UpdateMemberRole(t, u, x, role)
      PROVE  OnlyMembersJoin
  <2>1. \A r \in Teams : joined(r) = {}
    BY <1>8 DEF Org!UpdateMemberRole, Org!TypeOK, Org!TeamMembers
  <2> QED
    BY <1>2, <1>8, <2>1 DEF Org!UpdateMemberRole
<1>9. ASSUME NEW u \in Twins,
             \/ Org!SetActive(u) \/ Org!CreateOrganization(u) \/ Org!AcceptInvitation(u)
             \/ Org!ArchiveOrganization(u)
      PROVE  OnlyMembersJoin
  BY <1>1, <1>9
  DEF Org!SetActive, Org!CreateOrganization, Org!AcceptInvitation, Org!ArchiveOrganization
<1>10. ASSUME NEW u \in Twins, NEW p \in Policies, Org!ActivatePolicy(u, p) PROVE OnlyMembersJoin
  BY <1>1, <1>10 DEF Org!ActivatePolicy
<1>11. ASSUME NEW u \in Twins, NEW x \in Twins, Org!RemoveMembership(u, x) PROVE OnlyMembersJoin
  BY <1>1, <1>11 DEF Org!RemoveMembership
<1>12. ASSUME NEW u \in Twins, NEW x \in Twins, NEW role \in Org!Roles,
              Org!CreateInvitation(u, x, role) \/ Org!UpdateMembershipRole(u, x, role)
       PROVE  OnlyMembersJoin
  BY <1>1, <1>12 DEF Org!CreateInvitation, Org!UpdateMembershipRole
<1>13. ASSUME NEW u \in Twins, NEW t \in Teams, NEW x \in Twins,
              Org!CreateTeamInvitation(t, u, x) \/ Org!RevokeTeamInvitation(t, u, x)
       PROVE  OnlyMembersJoin
  BY <1>1, <1>13 DEF Org!CreateTeamInvitation, Org!RevokeTeamInvitation
<1>14. CASE UNCHANGED Org!vars
  BY <1>1, <1>14 DEF Org!vars
<1> QED
  BY <1>3, <1>4, <1>5, <1>6, <1>7, <1>8, <1>9, <1>10, <1>11, <1>12, <1>13, <1>14 DEF Org!Next

---------------------------------------------------------------------------
(* The theorems.                                                           *)

\* What the steps keep, while organizations move.
TenancyInv == part = "tenancy" => Org!IInv

\* It holds at the start and is kept by every step.
LEMMA TenancyInvHolds == Spec => []TenancyInv
<1>1. Init => TenancyInv
  <2> SUFFICES ASSUME Init, part = "tenancy" PROVE Org!IInv
    BY DEF TenancyInv
  <2>1. Org!Init
    BY DEF Init
  <2> QED
    BY <2>1, OrgInitTypes DEF Org!IInv, Org!Init, Org!OwnerRoleIsHeld, Org!OwnerRoleHeld,
       Org!TeamOwnerRoleHeld, Org!FoundersComeFirst, Org!TeamMembers
<1>2. TenancyInv /\ [Next]_vars => TenancyInv'
  <2> SUFFICES ASSUME TenancyInv, [Next]_vars, part' = "tenancy" PROVE Org!IInv'
    BY DEF TenancyInv
  <2>1. Org!IInv /\ (Org!Next \/ UNCHANGED Org!vars)
    BY PartStays, TenancySteps DEF TenancyInv
  <2> QED
    BY <2>1, OrgTypes, OrgOwners, OrgFounders DEF Org!IInv
<1> QED
  BY <1>1, <1>2, PTL DEF Spec

\* Organizations and teams keep a member with the role owner, whatever their owners do to
\* each other and whichever accounts are disabled meanwhile: the checks of the last owner,
\* repeated under the lock of the aggregate, are enough for that.  They ask nothing of the
\* owner's account, so the one who is left may be disabled.
THEOREM OwnerRoleStaysHeld == Spec => []OwnerRoleIsHeld
<1>1. TenancyInv => OwnerRoleIsHeld
  BY DEF TenancyInv, OwnerRoleIsHeld, Org!IInv
<1> QED
  BY <1>1, TenancyInvHolds, PTL

\* Members and teams come only below the limits of the day, nobody gets into a team of
\* a closed organization who does not belong to it, and an archived organization is
\* frozen with everything under it.
THEOREM GrowthIsGoverned == Spec => PolicyGovernsGrowth
<1>1. TenancyInv /\ [Next]_vars =>
        (part = "tenancy" => Org!ArchivedIsFrozenStep /\ Org!GrowthRespectsThePolicyStep)
  <2> SUFFICES ASSUME TenancyInv, [Next]_vars, part = "tenancy"
               PROVE  Org!ArchivedIsFrozenStep /\ Org!GrowthRespectsThePolicyStep
    OBVIOUS
  <2>1. Org!IInv /\ (Org!Next \/ UNCHANGED Org!vars)
    BY TenancySteps DEF TenancyInv
  <2>2. Org!ArchivedIsFrozenStep
    BY <2>1, OrgFrozen DEF Org!IInv
  <2>3. MembersGrow /\ TeamsGrow /\ OnlyMembersJoin
    BY <2>1, OrgMembersGrow, OrgTeamsGrow, OrgOnlyMembersJoin DEF Org!IInv
  <2> QED
    BY <2>2, <2>3 DEF Org!GrowthRespectsThePolicyStep, MembersGrow, TeamsGrow, OnlyMembersJoin
<1> QED
  BY <1>1, TenancyInvHolds, PTL DEF Spec, PolicyGovernsGrowth

---------------------------------------------------------------------------
(* The locks of a transaction.                                             *)

\* The table of a locked row.
Table(row) == row[1]

OfOrganization(row) == Table(row) \in {"member", "invitation"}
OfTeam(row) == Table(row) \in {"teamMember", "teamInvitation"}

\* The row is one of the first three, and before row i.
Under(rows, i, row) ==
  \/ i > 1 /\ rows[1] = row
  \/ i > 2 /\ rows[2] = row
  \/ i > 3 /\ rows[3] = row

\* An order of locks in which nobody waits in a circle: the team comes first; rows of
\* the team come under its lock and rows of the organization under the lock of that;
\* and before the organization only team rows are locked, after a user only rows under
\* a lock.
Ordered(rows) ==
  /\ Len(rows) \in 1 .. 8
  /\ \A i \in 1 .. Len(rows) :
       /\ Table(rows[i]) \in {"team", "organization", "user"} \/ OfOrganization(rows[i]) \/ OfTeam(rows[i])
       /\ Table(rows[i]) = "team" => i = 1
       /\ OfOrganization(rows[i]) => Under(rows, i, Lock!Org)
       /\ OfTeam(rows[i]) => Under(rows, i, Lock!Team)
       /\ Table(rows[i]) = "organization" =>
            \A j \in 1 .. i - 1 : Table(rows[j]) = "team" \/ OfTeam(rows[j])
       /\ Table(rows[i]) = "user" =>
            \A j \in i + 1 .. Len(rows) : OfOrganization(rows[j]) \/ OfTeam(rows[j])

\* Every transaction but the adoption of a team takes its locks in such an order.
LEMMA OrdersAreOrdered ==
  ASSUME NEW a, NEW x, NEW kind \in Lock!AllKinds \ {"adopt"}
  PROVE  Ordered(Lock!Order(kind, a, x))
<1> USE DEF Lock!Org, Lock!Team, Lock!Member, Lock!Invitation, Lock!User, Lock!TeamMember,
            Lock!TeamInvitation
<1>1. CASE kind = "manage"
  <2>1. Lock!Order(kind, a, x) = Lock!AssertOrganizationRole(a, Lock!Member(x))
    BY <1>1, Zenon DEF Lock!Order
  <2>2. Ordered(<<Lock!Org, Lock!Member(a), Lock!User(a), Lock!Member(x)>>)
    BY DEF Ordered, Under, Table, OfOrganization, OfTeam
  <2> QED BY <2>1, <2>2, Zenon DEF Lock!AssertOrganizationRole
<1>2. CASE kind = "join"
  <2>1. Lock!Order(kind, a, x) = <<Lock!Org, Lock!Invitation(a), Lock!User(a), Lock!Member(a)>>
    BY <1>2, Zenon DEF Lock!Order
  <2> QED BY <2>1 DEF Ordered, Under, Table, OfOrganization, OfTeam
<1>3. CASE kind = "grant"
  <2>1. Lock!Order(kind, a, x) = <<Lock!Org, Lock!Member(a), Lock!User(a)>>
    BY <1>3, Zenon DEF Lock!Order
  <2> QED BY <2>1 DEF Ordered, Under, Table, OfOrganization, OfTeam
<1>4. CASE kind = "teamGrant"
  <2>1. Lock!Order(kind, a, x) =
        <<Lock!Team, Lock!Org, Lock!Member(a), Lock!User(a), Lock!TeamMember(a)>>
    BY <1>4, Zenon DEF Lock!Order
  <2> QED BY <2>1 DEF Ordered, Under, Table, OfOrganization, OfTeam
<1>5. ASSUME NEW row, OfTeam(row) PROVE Ordered(Lock!LockTeamOwnerAuthority(a, row))
  <2>1. CASE s1
    <3>1. Lock!LockTeamOwnerAuthority(a, row) =
          <<Lock!Team, Lock!Org, Lock!Member(a), Lock!User(a), Lock!TeamMember(a), row>>
      BY <2>1 DEF Lock!LockTeamOwnerAuthority
    <3> QED BY <1>5, <3>1 DEF Ordered, Under, Table, OfOrganization, OfTeam
  <2>2. CASE ~s1
    <3>1. Lock!LockTeamOwnerAuthority(a, row) =
          <<Lock!Team, Lock!User(a), Lock!TeamMember(a), row>>
      BY <2>2 DEF Lock!LockTeamOwnerAuthority
    <3> QED BY <1>5, <3>1 DEF Ordered, Under, Table, OfOrganization, OfTeam
  <2> QED BY <2>1, <2>2
<1>6. CASE kind = "team"
  <2>1. Lock!Order(kind, a, x) = Lock!LockTeamOwnerAuthority(a, Lock!TeamMember(x))
    BY <1>6, Zenon DEF Lock!Order
  <2>2. OfTeam(Lock!TeamMember(x))
    BY DEF OfTeam, Table
  <2> QED BY <1>5, <2>1, <2>2, Zenon
<1>7. CASE kind = "revoke"
  <2>1. Lock!Order(kind, a, x) = Lock!LockTeamOwnerAuthority(a, Lock!TeamInvitation(x))
    BY <1>7, Zenon DEF Lock!Order
  <2>2. OfTeam(Lock!TeamInvitation(x))
    BY DEF OfTeam, Table
  <2> QED BY <1>5, <2>1, <2>2, Zenon
<1>8. CASE kind = "joinTeam"
  <2>1. Lock!Order(kind, a, x) = Lock!JoinTeam(a)
    BY <1>8, Zenon DEF Lock!Order
  <2>2. CASE s1
    <3>1. Lock!Order(kind, a, x) =
          <<Lock!Team, Lock!TeamInvitation(a), Lock!Org, Lock!Member(a), Lock!User(a)>>
      BY <2>1, <2>2 DEF Lock!JoinTeam
    <3> QED BY <3>1 DEF Ordered, Under, Table, OfOrganization, OfTeam
  <2>3. CASE ~s1
    <3>1. Lock!Order(kind, a, x) = <<Lock!Team, Lock!TeamInvitation(a), Lock!User(a)>>
      BY <2>1, <2>3 DEF Lock!JoinTeam
    <3> QED BY <3>1 DEF Ordered, Under, Table, OfOrganization, OfTeam
  <2> QED BY <2>2, <2>3
<1>9. CASE kind = "found"
  <2>1. Lock!Order(kind, a, x) = <<Lock!User(a)>>
    BY <1>9, Zenon DEF Lock!Order
  <2> QED BY <2>1 DEF Ordered, Under, Table, OfOrganization, OfTeam
<1> QED
  BY <1>1, <1>2, <1>3, <1>4, <1>6, <1>7, <1>8, <1>9 DEF Lock!AllKinds

\* What such an order says of a lock and a later one.
LEMMA LaterLocks ==
  ASSUME NEW rows, Ordered(rows),
         NEW i \in 1 .. Len(rows), NEW j \in 1 .. Len(rows), i < j
  PROVE  /\ Table(rows[j]) # "team"
         /\ Table(rows[i]) = "user" => OfOrganization(rows[j]) \/ OfTeam(rows[j])
         /\ Table(rows[j]) = "organization" => Table(rows[i]) = "team" \/ OfTeam(rows[i])
<1>1. Len(rows) \in Nat
  BY DEF Ordered
<1> QED BY <1>1 DEF Ordered

---------------------------------------------------------------------------
\* While transactions lock, a step is one of theirs or changes nothing of theirs.
LEMMA LockSteps ==
  ASSUME part = "locks", [Next]_vars
  PROVE  Lock!Next \/ UNCHANGED Lock!vars
BY DEF Next, vars, Lock!vars, AccountAction, Administration, SigningIn, DeviceLoggingIn,
       Authorization, Governance, Locking, Mailing

\* A transaction that runs takes its locks in an order without circles.
LEMMA LocksAreOrdered ==
  ASSUME Lock!TypeOK, LockKinds \subseteq Lock!AllKinds \ {"adopt"},
         NEW c \in Calls, s2[c] # Lock!Idle
  PROVE  Ordered(Lock!Locks(c))
<1>1. s2[c].kind \in Lock!AllKinds \ {"adopt"}
  BY DEF Lock!TypeOK
<1> QED
  BY <1>1, OrdersAreOrdered DEF Lock!Locks

\* What a kind of transaction locks depends on nothing but the parent of the team.
LEMMA OrderStays ==
  ASSUME NEW kind, NEW a, NEW x, s1' = s1
  PROVE  Lock!Order(kind, a, x)' = Lock!Order(kind, a, x)
BY Zenon DEF Lock!Order, Lock!LockTeamOwnerAuthority, Lock!JoinTeam,
             Lock!AssertOrganizationRole, Lock!Org, Lock!Team, Lock!Member,
             Lock!Invitation, Lock!User, Lock!TeamMember, Lock!TeamInvitation

\* Locks are taken and released in order, and no two transactions hold the same row.
LEMMA LocksKept ==
  ASSUME LockKinds \subseteq Lock!AllKinds \ {"adopt"},
         Lock!IInv, Lock!Next \/ UNCHANGED Lock!vars
  PROVE  Lock!IInv'
<1>1. ASSUME s1' = s1, NEW d \in Calls, s2'[d] = s2[d]
      PROVE  Lock!Locks(d)' = Lock!Locks(d)
  BY <1>1, OrderStays DEF Lock!Locks
<1>2. ASSUME NEW c \in Calls, Lock!Begin(c) PROVE Lock!IInv'
  <2>1. PICK kind \in LockKinds, a \in Twins, x \in Twins :
          s2' = [s2 EXCEPT ![c] = [kind |-> kind, actor |-> a, other |-> x]]
    BY <1>2 DEF Lock!Begin
  <2>2. s1' = s1 /\ s3' = s3 /\ s2[c] = Lock!Idle
    BY <1>2 DEF Lock!Begin
  <2>3. s3[c] = 0
    BY <2>2 DEF Lock!IInv, Lock!TypeOK, Lock!LocksInOrder
  <2>4. Lock!TypeOK'
    BY <2>1, <2>2 DEF Lock!IInv, Lock!TypeOK
  <2>5. \A d \in Calls : d # c => Lock!Locks(d)' = Lock!Locks(d) /\ s2'[d] = s2[d]
    BY <1>1, <2>1, <2>2 DEF Lock!IInv, Lock!TypeOK
  <2>6. Lock!Locks(c)' = Lock!Order(kind, a, x)
    <3>1. s2'[c] = [kind |-> kind, actor |-> a, other |-> x]
      BY <2>1 DEF Lock!IInv, Lock!TypeOK
    <3>2. s2'[c].kind = kind /\ s2'[c].actor = a /\ s2'[c].other = x
      BY <3>1
    <3>3. Lock!Locks(c)' = Lock!Order(kind, a, x)'
      BY <3>2 DEF Lock!Locks
    <3> QED BY <2>2, <3>3, OrderStays
  <2>7. Len(Lock!Locks(c)') >= 0
    BY <2>6, OrdersAreOrdered DEF Ordered
  <2>8. Lock!LocksInOrder'
    BY <2>2, <2>3, <2>5, <2>7 DEF Lock!LocksInOrder, Lock!IInv
  <2>9. Lock!LocksExclude'
    BY <2>2, <2>3, <2>5 DEF Lock!LocksExclude, Lock!IInv, Lock!TypeOK
  <2> QED
    BY <2>4, <2>8, <2>9 DEF Lock!IInv
<1>3. ASSUME NEW c \in Calls, Lock!Acquire(c) PROVE Lock!IInv'
  <2>1. s1' = s1 /\ s2' = s2 /\ s3' = [s3 EXCEPT ![c] = @ + 1]
    BY <1>3 DEF Lock!Acquire
  <2>2. s2[c] # Lock!Idle /\ s3[c] < Len(Lock!Locks(c))
    BY <1>3 DEF Lock!Acquire, Lock!Asks
  <2>3. Len(Lock!Locks(c)) \in 1 .. 8
    BY <2>2, LocksAreOrdered DEF Lock!IInv, Ordered
  <2>4. Lock!TypeOK'
    <3>1. s3[c] + 1 \in 0 .. 8
      <4>1. s3[c] \in 0 .. 8
        BY DEF Lock!IInv, Lock!TypeOK
      <4> DEFINE n == Len(Lock!Locks(c))
      <4>2. s3[c] < n /\ n \in 1 .. 8
        BY <2>2, <2>3
      <4> HIDE DEF n
      <4>3. s3[c] + 1 <= 8
        BY <4>1, <4>2
      <4> QED BY <4>1, <4>3
    <3> QED BY <2>1, <3>1 DEF Lock!IInv, Lock!TypeOK
  <2>5. \A d \in Calls : Lock!Locks(d)' = Lock!Locks(d)
    BY <1>1, <2>1
  <2>6. Lock!LocksInOrder'
    BY <2>1, <2>2, <2>3, <2>5 DEF Lock!LocksInOrder, Lock!IInv, Lock!TypeOK
  <2>7. ASSUME NEW d \in Calls, d # c, NEW i \in 1 .. 8, i <= s3[d]
        PROVE  Lock!Locks(d)[i] # Lock!Locks(c)[s3[c] + 1]
    BY <1>3, <2>7 DEF Lock!Acquire, Lock!IsBlocked, Lock!Holds, Lock!Wanted, Lock!IInv, Lock!TypeOK
  <2>8. ASSUME NEW d \in Calls, NEW e \in Calls, NEW i \in 1 .. 8, NEW j \in 1 .. 8,
               i <= s3'[d], j <= s3'[e], Lock!Locks(d)[i] = Lock!Locks(e)[j]
        PROVE  d = e
    <3>1. CASE i <= s3[d] /\ j <= s3[e]
      BY <2>8, <3>1 DEF Lock!IInv, Lock!LocksExclude
    <3>2. CASE ~(i <= s3[d])
      <4>1. d = c /\ i = s3[c] + 1
        BY <2>1, <2>8, <3>2 DEF Lock!IInv, Lock!TypeOK
      <4>2. e # c => s3'[e] = s3[e]
        BY <2>1 DEF Lock!IInv, Lock!TypeOK
      <4> QED BY <2>7, <2>8, <4>1, <4>2
    <3>3. CASE ~(j <= s3[e])
      <4>1. e = c /\ j = s3[c] + 1
        BY <2>1, <2>8, <3>3 DEF Lock!IInv, Lock!TypeOK
      <4>2. d # c => s3'[d] = s3[d]
        BY <2>1 DEF Lock!IInv, Lock!TypeOK
      <4> QED BY <2>7, <2>8, <4>1, <4>2
    <3> QED BY <3>1, <3>2, <3>3
  <2>9. Lock!LocksExclude'
    BY <2>5, <2>8 DEF Lock!LocksExclude
  <2> QED
    BY <2>4, <2>6, <2>9 DEF Lock!IInv
<1>4. ASSUME NEW c \in Calls, Lock!End(c) PROVE Lock!IInv'
  <2>1. s2' = [s2 EXCEPT ![c] = Lock!Idle] /\ s3' = [s3 EXCEPT ![c] = 0] /\ s2[c] # Lock!Idle
    BY <1>4 DEF Lock!End
  <2>2. s1' = s1
    <3>1. s2[c].kind # "adopt"
      BY <2>1 DEF Lock!IInv, Lock!TypeOK
    <3>2. s1 \in BOOLEAN
      BY DEF Lock!IInv, Lock!TypeOK
    <3> QED BY <1>4, <3>1, <3>2 DEF Lock!End
  <2>3. Lock!TypeOK'
    BY <2>1, <2>2 DEF Lock!IInv, Lock!TypeOK
  <2>4. \A d \in Calls : d # c => Lock!Locks(d)' = Lock!Locks(d) /\ s2'[d] = s2[d] /\ s3'[d] = s3[d]
    BY <1>1, <2>1, <2>2 DEF Lock!IInv, Lock!TypeOK
  <2>5. s3'[c] = 0 /\ s2'[c] = Lock!Idle
    BY <2>1 DEF Lock!IInv, Lock!TypeOK
  <2>6. Lock!LocksInOrder'
    BY <2>4, <2>5 DEF Lock!LocksInOrder, Lock!IInv
  <2>7. Lock!LocksExclude'
    BY <2>4, <2>5 DEF Lock!LocksExclude, Lock!IInv, Lock!TypeOK
  <2> QED
    BY <2>3, <2>6, <2>7 DEF Lock!IInv
<1>5. CASE UNCHANGED Lock!vars
  <2>1. s1' = s1 /\ s2' = s2 /\ s3' = s3
    BY <1>5 DEF Lock!vars
  <2>2. \A d \in Calls : Lock!Locks(d)' = Lock!Locks(d)
    BY <1>1, <2>1
  <2> QED
    BY <2>1, <2>2 DEF Lock!IInv, Lock!TypeOK, Lock!LocksInOrder, Lock!LocksExclude
<1> QED
  BY <1>2, <1>3, <1>4, <1>5 DEF Lock!Next

\* Transactions that take their locks in such orders never wait in a circle.
LEMMA OrderedLocksMakeNoCircle ==
  ASSUME LockKinds \subseteq Lock!AllKinds \ {"adopt"}, Lock!IInv
  PROVE  Lock!NoCircularWait
<1> SUFFICES ASSUME NEW S \in (SUBSET Calls) \ {{}},
                    \A c \in S : Lock!Asks(c) /\ \E d \in S : s2[d] # Lock!Idle /\ Lock!IsBlocked(c, d)
             PROVE  FALSE
  BY DEF Lock!NoCircularWait
<1> DEFINE W(c) == Lock!Wanted(c)
<1>1. ASSUME NEW c \in S
      PROVE  /\ Ordered(Lock!Locks(c)) /\ s3[c] \in 0 .. 8
             /\ s3[c] + 1 \in 1 .. Len(Lock!Locks(c)) /\ W(c) = Lock!Locks(c)[s3[c] + 1]
  <2>1. s2[c] # Lock!Idle /\ s3[c] < Len(Lock!Locks(c))
    BY DEF Lock!Asks
  <2>2. Ordered(Lock!Locks(c)) /\ s3[c] \in 0 .. 8
    BY <2>1, LocksAreOrdered DEF Lock!IInv, Lock!TypeOK
  <2> QED BY <2>1, <2>2 DEF Lock!Wanted, Ordered
<1>2. ASSUME NEW c \in S
      PROVE  \E d \in S, i \in 1 .. 8 : d # c /\ i <= s3[d] /\ Lock!Locks(d)[i] = W(c)
  <2>1. PICK d \in S : Lock!IsBlocked(c, d)
    OBVIOUS
  <2>2. PICK i \in 1 .. s3[d] : Lock!Locks(d)[i] = W(c)
    BY <2>1 DEF Lock!IsBlocked, Lock!Holds
  <2>3. s3[d] \in 0 .. 8
    BY <1>1
  <2> QED BY <2>1, <2>2, <2>3 DEF Lock!IsBlocked
<1> HIDE DEF W
<1>3. ASSUME NEW c \in S
      PROVE  ~OfOrganization(W(c)) /\ ~OfTeam(W(c))
  <2>1. PICK d \in S, i \in 1 .. 8 : d # c /\ i <= s3[d] /\ Lock!Locks(d)[i] = W(c)
    BY <1>2
  <2> DEFINE C == Lock!Locks(c)  D == Lock!Locks(d)
  <2>2. Ordered(C) /\ Ordered(D) /\ s3[c] \in 0 .. 8 /\ s3[d] \in 0 .. 8 /\ W(c) = C[s3[c] + 1]
        /\ s3[c] + 1 \in 1 .. Len(C) /\ i \in 1 .. Len(D)
    <3>1. Ordered(C) /\ s3[c] \in 0 .. 8 /\ s3[c] + 1 \in 1 .. Len(C) /\ W(c) = C[s3[c] + 1]
      BY <1>1
    <3>2. Ordered(D) /\ s3[d] \in 0 .. 8 /\ s3[d] + 1 \in 1 .. Len(D)
      BY <1>1
    <3> HIDE DEF C, D
    <3>3. i \in 1 .. Len(D)
      BY <2>1, <3>2 DEF Ordered
    <3> QED BY <3>1, <3>2, <3>3
  <2>3. ASSUME NEW row, Under(C, s3[c] + 1, row), Under(D, i, row) PROVE FALSE
    <3> HIDE DEF C, D
    <3>1. PICK j \in 1 .. 8 : j <= s3[c] /\ C[j] = row
      BY <2>2, <2>3 DEF Under
    <3>2. PICK k \in 1 .. 8 : k <= s3[d] /\ D[k] = row
      BY <2>1, <2>2, <2>3 DEF Under
    <3> QED BY <2>1, <3>1, <3>2 DEF Lock!IInv, Lock!LocksExclude, C, D
  <2>4. C[s3[c] + 1] = D[i]
    BY <2>1, <2>2
  <2> HIDE DEF C, D
  <2>5. ~OfOrganization(C[s3[c] + 1])
    BY <2>2, <2>3, <2>4 DEF Ordered
  <2>6. ~OfTeam(C[s3[c] + 1])
    BY <2>2, <2>3, <2>4 DEF Ordered
  <2> QED BY <2>2, <2>5, <2>6
<1>4. ASSUME NEW d \in S, NEW i \in 1 .. 8, i <= s3[d]
      PROVE  /\ Table(W(d)) # "team"
             /\ Table(Lock!Locks(d)[i]) = "user" => OfOrganization(W(d)) \/ OfTeam(W(d))
             /\ Table(W(d)) = "organization" =>
                  Table(Lock!Locks(d)[i]) = "team" \/ OfTeam(Lock!Locks(d)[i])
  <2>1. /\ Ordered(Lock!Locks(d)) /\ s3[d] \in 0 .. 8
        /\ s3[d] + 1 \in 1 .. Len(Lock!Locks(d)) /\ W(d) = Lock!Locks(d)[s3[d] + 1]
    BY <1>1
  <2>2. i \in 1 .. Len(Lock!Locks(d)) /\ i < s3[d] + 1
    BY <1>4, <2>1 DEF Ordered
  <2> QED BY <2>1, <2>2, LaterLocks
<1>5. ASSUME NEW c \in S PROVE Table(W(c)) \in {"team", "organization"}
  <2>1. Table(W(c)) # "user"
    <3>1. PICK d \in S, i \in 1 .. 8 : d # c /\ i <= s3[d] /\ Lock!Locks(d)[i] = W(c)
      BY <1>2
    <3>2. Table(Lock!Locks(d)[i]) # "user"
      BY <1>3, <1>4, <3>1
    <3> QED BY <3>1, <3>2
  <2> QED BY <1>1, <1>3, <2>1 DEF Ordered
<1>6. ASSUME NEW c \in S PROVE Table(W(c)) = "team"
  <2>1. PICK d \in S, i \in 1 .. 8 : d # c /\ i <= s3[d] /\ Lock!Locks(d)[i] = W(c)
    BY <1>2
  <2>2. Table(W(d)) = "organization"
    BY <1>4, <1>5, <2>1
  <2>3. Table(W(c)) = "team" \/ OfTeam(W(c))
    BY <1>4, <2>1, <2>2
  <2> QED BY <1>3, <2>3
<1>7. S # {}
  OBVIOUS
<1>8. PICK c \in S : TRUE
  BY <1>7
<1> QED
  BY <1>2, <1>4, <1>6, <1>8

\* Nothing is locked at the start.
LEMMA LocksInit == Lock!Init => Lock!IInv
BY DEF Lock!Init, Lock!IInv, Lock!TypeOK, Lock!LocksInOrder, Lock!LocksExclude, Lock!Idle

\* The invariant of the locks holds throughout.
LEMMA LockInvHolds ==
  ASSUME LockKinds \subseteq Lock!AllKinds \ {"adopt"}
  PROVE  Spec => [](part = "locks" => Lock!IInv)
<1>1. Init => (part = "locks" => Lock!IInv)
  BY LocksInit DEF Init
<1>2. (part = "locks" => Lock!IInv) /\ [Next]_vars => (part = "locks" => Lock!IInv)'
  BY PartStays, LockSteps, LocksKept
<1> QED
  BY <1>1, <1>2, PTL DEF Spec

\* Whatever the number of requests and accounts, the transactions of the stores never
\* wait for each other in a circle, as long as no team is adopted: an adoption takes the
\* locks of the team's owner before those of the organization.
THEOREM TransactionsNeverWaitInACircle ==
  ASSUME LockKinds \subseteq Lock!AllKinds \ {"adopt"}
  PROVE  Spec => []NoCircularWait
<1>1. (part = "locks" => Lock!IInv) => NoCircularWait
  BY OrderedLocksMakeNoCircle DEF NoCircularWait
<1> QED
  BY <1>1, LockInvHolds, PTL


---------------------------------------------------------------------------
(* The account and the links that change it.                               *)

\* While links move, a step is one of theirs or changes nothing of theirs.
LEMMA LinkSteps ==
  ASSUME part = "actions", [Next]_vars
  PROVE  Link!Next \/ UNCHANGED Link!vars
BY DEF Next, vars, Link!vars, AccountAction, Administration, SigningIn, DeviceLoggingIn,
       Authorization, Governance, Locking, Mailing

\* No link is issued at the start.
LEMMA LinkInit == Link!Init => Link!IInv
<1> SUFFICES ASSUME Link!Init PROVE Link!IInv
  OBVIOUS
<1>1. Link!TypeOK
  BY AccountAssumption DEF Link!Init, Link!TypeOK
<1>2. \A t \in Twins \cup {Third} : ~Link!Live(t)
  BY DEF Link!Init, Link!Live, Link!Unissued
<1> QED
  BY <1>1, <1>2 DEF Link!IInv, Link!LinksMatchTheAccount, Link!OneAddressChange

\* What a link is after the links of some purposes were invalidated.
LEMMA InvalidatedLinks ==
  ASSUME Link!TypeOK, NEW purposes
  PROVE  LET after == Link!Invalidated(purposes) IN
         /\ after \in [Twins \cup {Third} -> {Link!Unissued} \cup
              [state : {"live", "dead"}, purpose : Link!Purposes, to : Emails, asked : Link!Snapshot]]
         /\ \A t \in Twins \cup {Third} :
              \/ after[t] = s2[t] /\ ~(Link!Live(t) /\ s2[t].purpose \in purposes)
              \/ after[t].state = "dead" /\ Link!Live(t) /\ s2[t].purpose \in purposes
BY DEF Link!TypeOK, Link!Invalidated, Link!Live, Link!Unissued

\* A live link has a purpose.
LEMMA LiveLinks ==
  ASSUME Link!TypeOK, NEW t \in Twins \cup {Third}, Link!Live(t)
  PROVE  s2[t].purpose \in Link!Purposes
BY DEF Link!TypeOK, Link!Live, Link!Unissued

\* After all links were invalidated none is live.
LEMMA NoLinkIsLeft ==
  ASSUME Link!TypeOK, s2' = Link!Invalidated(Link!Purposes)
  PROVE  \A t \in Twins \cup {Third} : ~Link!Live(t)'
<1>1. \A t \in Twins \cup {Third} :
        (s2'[t] = s2[t] /\ ~Link!Live(t)) \/ s2'[t].state = "dead"
  BY InvalidatedLinks, LiveLinks
<1> QED
  BY <1>1 DEF Link!Live

\* A link that is issued was asked for by the account as it is, and one that changes the
\* address replaces the others.
LEMMA LinkIssued ==
  ASSUME Link!IInv, NEW c \in Calls, Link!Issue(c)
  PROVE  Link!IInv'
<1>1. s3' = [s3 EXCEPT ![c] = Link!Idle] /\ s1' = s1 /\ s4' = s4
      /\ s3[c] # Link!Idle /\ s3[c].kind \in Link!Purposes
  BY DEF Link!Issue, Link!Done
<1>2. CASE s2' = s2
  BY <1>1, <1>2 DEF Link!IInv, Link!TypeOK, Link!LinksMatchTheAccount, Link!OneAddressChange,
     Link!Live, Link!Seen
<1>3. ASSUME NEW t \in Twins \cup {Third},
             Link!AsRead(s3[c].seen),
             s2' = [IF s3[c].kind = "email_change" THEN Link!Invalidated({"email_change"}) ELSE s2
                    EXCEPT ![t] = [state |-> "live", purpose |-> s3[c].kind, to |-> s3[c].to,
                                   asked |-> s3[c].seen]]
      PROVE  Link!IInv'
  <2> DEFINE base == IF s3[c].kind = "email_change" THEN Link!Invalidated({"email_change"}) ELSE s2
             new == [state |-> "live", purpose |-> s3[c].kind, to |-> s3[c].to, asked |-> s3[c].seen]
             Links == {Link!Unissued} \cup
               [state : {"live", "dead"}, purpose : Link!Purposes, to : Emails, asked : Link!Snapshot]
  <2>1. base \in [Twins \cup {Third} -> Links]
    BY InvalidatedLinks DEF Link!IInv, Link!TypeOK
  <2>2. \A u \in Twins \cup {Third} :
          base[u].state = "live" =>
            /\ base[u] = s2[u] /\ Link!Live(u)
            /\ s3[c].kind = "email_change" => s2[u].purpose # "email_change"
    BY InvalidatedLinks DEF Link!IInv, Link!Live
  <2>3. s3[c].seen \in Link!Snapshot /\ s3[c].to \in Emails
    BY <1>1 DEF Link!IInv, Link!TypeOK
  <2>4. new \in Links
    BY <1>1, <2>3
  <2> HIDE DEF base
  <2>5. s2' = [base EXCEPT ![t] = new]
    BY <1>3 DEF base
  <2>6. s2' \in [Twins \cup {Third} -> Links]
    BY <2>1, <2>4, <2>5
  <2>7. Link!TypeOK'
    BY <1>1, <2>6 DEF Link!IInv, Link!TypeOK
  <2>8. s3[c].seen = Link!Seen /\ Link!Seen' = Link!Seen
    BY <1>1, <1>3 DEF Link!AsRead, Link!Seen
  <2>9. s2'[t] = new /\ \A u \in Twins \cup {Third} : u # t => s2'[u] = base[u]
    BY <2>1, <2>5
  <2>10. Link!LinksMatchTheAccount'
    BY <2>2, <2>8, <2>9 DEF Link!IInv, Link!LinksMatchTheAccount, Link!Live
  <2>11. Link!OneAddressChange'
    BY <2>2, <2>9 DEF Link!IInv, Link!OneAddressChange, Link!Live
  <2> QED
    BY <2>7, <2>10, <2>11 DEF Link!IInv
<1> QED
  BY <1>2, <1>3 DEF Link!Issue

\* Every step keeps the invariant of the links.
LEMMA LinksKept ==
  ASSUME Link!IInv, Link!Next \/ UNCHANGED Link!vars
  PROVE  Link!IInv'
<1>1. ASSUME NEW c \in Calls, NEW kind \in Link!Kinds, NEW to \in Emails, Link!Read(c, kind, to)
      PROVE  Link!IInv'
  <2>1. Link!Seen \in Link!Snapshot
    BY DEF Link!IInv, Link!TypeOK, Link!Seen, Link!Snapshot
  <2> QED
    BY <1>1, <2>1 DEF Link!IInv, Link!TypeOK, Link!Read, Link!LinksMatchTheAccount,
       Link!OneAddressChange, Link!Live, Link!Seen
<1>2. s1.email \in Emails
  BY DEF Link!IInv, Link!TypeOK
<1>3. ASSUME NEW c \in Calls, Link!RequestPasswordReset(c) PROVE Link!IInv'
  BY <1>1, <1>2, <1>3 DEF Link!RequestPasswordReset, Link!Kinds, Link!Purposes
<1>4. ASSUME NEW c \in Calls, Link!RequestEmailChange(c) PROVE Link!IInv'
  BY <1>1, <1>4 DEF Link!RequestEmailChange, Link!Kinds, Link!Purposes
<1>5. ASSUME NEW c \in Calls, Link!ChangePassword(c) PROVE Link!IInv'
  BY <1>1, <1>2, <1>5 DEF Link!ChangePassword, Link!Kinds, Link!Purposes
<1>6. ASSUME NEW c \in Calls, Link!Drop(c) PROVE Link!IInv'
  BY <1>6 DEF Link!Drop, Link!Done, Link!IInv, Link!TypeOK, Link!LinksMatchTheAccount,
     Link!OneAddressChange, Link!Live, Link!Seen
<1>7. ASSUME s2' = Link!Invalidated(Link!Purposes),
             s1' \in [active : BOOLEAN, email : Emails, password : 1 .. MaxPassword],
             s3' \in [Calls -> {Link!Idle} \cup
                        [kind : Link!Kinds, seen : Link!Snapshot, to : Emails]],
             s4' \in SUBSET (Emails \ {s1'.email})
      PROVE  Link!IInv'
  <2>1. Link!TypeOK'
    BY <1>7, InvalidatedLinks DEF Link!IInv, Link!TypeOK
  <2>2. \A t \in Twins \cup {Third} : ~Link!Live(t)'
    BY <1>7, NoLinkIsLeft DEF Link!IInv
  <2> QED
    BY <2>1, <2>2 DEF Link!IInv, Link!LinksMatchTheAccount, Link!OneAddressChange
<1>8. ASSUME NEW c \in Calls, Link!CommitPassword(c) PROVE Link!IInv'
  BY <1>7, <1>8, AccountAssumption DEF Link!CommitPassword, Link!Done, Link!IInv, Link!TypeOK
<1>9. ASSUME NEW t \in Twins \cup {Third}, Link!CompletePasswordReset(t) PROVE Link!IInv'
  BY <1>7, <1>9, AccountAssumption DEF Link!CompletePasswordReset, Link!IInv, Link!TypeOK
<1>10. ASSUME NEW t \in Twins \cup {Third}, Link!CompleteEmailChange(t) PROVE Link!IInv'
  <2>1. s2[t].to \in Emails
    BY <1>10 DEF Link!CompleteEmailChange, Link!Live, Link!IInv, Link!TypeOK, Link!Unissued
  <2> QED
    BY <1>7, <1>10, <2>1 DEF Link!CompleteEmailChange, Link!IInv, Link!TypeOK
<1>11. ASSUME NEW t \in Twins \cup {Third}, Link!Expire(t) PROVE Link!IInv'
  <2>1. s2[t] \in [state : {"live", "dead"}, purpose : Link!Purposes, to : Emails,
                   asked : Link!Snapshot]
    BY <1>11 DEF Link!Expire, Link!Live, Link!IInv, Link!TypeOK, Link!Unissued
  <2>2. Link!TypeOK'
    BY <1>11, <2>1 DEF Link!Expire, Link!IInv, Link!TypeOK
  <2>3. s2'[t].state = "dead" /\ \A u \in Twins \cup {Third} : u # t => s2'[u] = s2[u]
    BY <1>11, <2>1 DEF Link!Expire, Link!IInv, Link!TypeOK
  <2>4. Link!Seen' = Link!Seen
    BY <1>11 DEF Link!Expire, Link!Seen
  <2> QED
    BY <2>2, <2>3, <2>4 DEF Link!IInv, Link!LinksMatchTheAccount, Link!OneAddressChange, Link!Live
<1>12. CASE Link!SetActive
  BY <1>12 DEF Link!SetActive, Link!IInv, Link!TypeOK, Link!LinksMatchTheAccount,
     Link!OneAddressChange, Link!Live, Link!Seen
<1>13. CASE Link!OthersMove
  BY <1>13 DEF Link!OthersMove, Link!IInv, Link!TypeOK, Link!LinksMatchTheAccount,
     Link!OneAddressChange, Link!Live, Link!Seen
<1>14. CASE UNCHANGED Link!vars
  BY <1>14 DEF Link!vars, Link!IInv, Link!TypeOK, Link!LinksMatchTheAccount,
     Link!OneAddressChange, Link!Live, Link!Seen
<1> QED
  BY <1>3, <1>4, <1>5, <1>6, <1>8, <1>9, <1>10, <1>11, <1>12, <1>13, <1>14, LinkIssued DEF Link!Next

\* The account changes only from what was read when the change was asked for.
LEMMA LinkChangesAreOrdered ==
  ASSUME Link!IInv, Link!Next \/ UNCHANGED Link!vars
  PROVE  Link!ChangesAreOrderedStep
<1>1. ASSUME NEW c \in Calls, Link!CommitPassword(c) PROVE Link!ChangesAreOrderedStep
  BY <1>1 DEF Link!CommitPassword, Link!Done, Link!AsRead, Link!ChangesAreOrderedStep,
     Link!IInv, Link!TypeOK
<1>2. ASSUME NEW t \in Twins \cup {Third}, Link!CompletePasswordReset(t) \/ Link!CompleteEmailChange(t)
      PROVE  Link!ChangesAreOrderedStep
  <2>1. Link!Live(t) /\ s2' = Link!Invalidated(Link!Purposes)
    BY <1>2 DEF Link!CompletePasswordReset, Link!CompleteEmailChange
  <2>2. ~(s2'[t].state = "live")
    BY <2>1, NoLinkIsLeft DEF Link!IInv, Link!Live
  <2> QED
    BY <2>1, <2>2 DEF Link!IInv, Link!LinksMatchTheAccount, Link!ChangesAreOrderedStep
<1>3. ASSUME s1' = s1 PROVE Link!ChangesAreOrderedStep
  BY <1>3 DEF Link!ChangesAreOrderedStep, Link!Seen
<1>4. CASE Link!SetActive
  BY <1>4 DEF Link!SetActive, Link!ChangesAreOrderedStep, Link!Seen, Link!IInv, Link!TypeOK
<1> QED
  BY <1>1, <1>2, <1>3, <1>4 DEF Link!Next, Link!vars, Link!RequestPasswordReset,
     Link!RequestEmailChange, Link!ChangePassword, Link!Read, Link!Issue, Link!Drop,
     Link!Expire, Link!OthersMove


---------------------------------------------------------------------------
(* The administration of accounts.                                         *)

\* While administrators act, a step is one of theirs or changes nothing of theirs.
LEMMA AdminSteps ==
  ASSUME part = "admin", [Next]_vars
  PROVE  Admin!Next \/ UNCHANGED Admin!vars
BY DEF Next, vars, Admin!vars, AccountAction, Administration, SigningIn, DeviceLoggingIn,
       Authorization, Governance, Locking, Mailing

\* The owner who set the instance up is its active owner at the start.
LEMMA AdminInit == Admin!Init => Admin!IInv
<1> SUFFICES ASSUME Admin!Init PROVE Admin!IInv
  OBVIOUS
<1>1. Admin!TypeOK
  BY DEF Admin!Init, Admin!TypeOK, Admin!Statuses, Admin!Roles
<1>2. FirstOwner \in Admin!ActiveOwners(s1, s2)
  BY AccountAssumption DEF Admin!Init, Admin!ActiveOwners
<1> QED
  BY <1>1, <1>2 DEF Admin!IInv, Admin!Init, Admin!AdministratorsKeepAnOwner,
     Admin!ActiveOwnerIsPreserved, Admin!DeletedIsLeftDeleted

\* What a request has decided.
LEMMA Decided ==
  ASSUME Admin!TypeOK, NEW c \in Calls, s3[c] # Admin!Idle
  PROVE  /\ s3[c].target \in Accounts
         /\ s3[c].kind = "status" => s3[c].to \in Admin!Decisions
         /\ s3[c].kind = "role" => s3[c].to \in Admin!Roles
BY DEF Admin!TypeOK

\* Every step keeps the invariant of administration.
LEMMA AdministrationKept ==
  ASSUME Admin!IInv, Admin!Next \/ UNCHANGED Admin!vars
  PROVE  Admin!IInv'
<1>1. ASSUME NEW c \in Calls, Admin!DecideStatus(c) PROVE Admin!IInv'
  <2>1. PICK u \in Accounts, to \in Admin!Decisions :
          /\ s1[u] = "deleted" => to = "deleted"
          /\ s3' = [s3 EXCEPT ![c] = [kind |-> "status", target |-> u, to |-> to,
                                      seen |-> s2[u], before |-> s1[u]]]
    BY <1>1 DEF Admin!DecideStatus, Admin!MayAct
  <2>2. s1' = s1 /\ s2' = s2 /\ s4' = s4 /\ s5' = s5
    BY <1>1 DEF Admin!DecideStatus
  <2>3. Admin!TypeOK'
    BY <2>1, <2>2 DEF Admin!IInv, Admin!TypeOK
  <2>4. Admin!DeletedIsLeftDeleted'
    BY <2>1 DEF Admin!IInv, Admin!TypeOK, Admin!DeletedIsLeftDeleted
  <2> QED
    BY <2>2, <2>3, <2>4 DEF Admin!IInv, Admin!AdministratorsKeepAnOwner,
       Admin!ActiveOwnerIsPreserved
<1>2. ASSUME NEW c \in Calls, Admin!DecideRole(c) PROVE Admin!IInv'
  <2>1. PICK u \in Accounts, r \in Admin!Roles :
          s3' = [s3 EXCEPT ![c] = [kind |-> "role", target |-> u, to |-> r,
                                   seen |-> s2[u], before |-> s1[u]]]
    BY <1>2 DEF Admin!DecideRole
  <2>2. s1' = s1 /\ s2' = s2 /\ s4' = s4 /\ s5' = s5
    BY <1>2 DEF Admin!DecideRole
  <2>3. Admin!TypeOK'
    BY <2>1, <2>2 DEF Admin!IInv, Admin!TypeOK
  <2>4. Admin!DeletedIsLeftDeleted'
    BY <2>1 DEF Admin!IInv, Admin!TypeOK, Admin!DeletedIsLeftDeleted
  <2> QED
    BY <2>2, <2>3, <2>4 DEF Admin!IInv, Admin!AdministratorsKeepAnOwner,
       Admin!ActiveOwnerIsPreserved
<1>3. ASSUME NEW c \in Calls, s3' = [s3 EXCEPT ![c] = Admin!Idle]
      PROVE  /\ Admin!DeletedIsLeftDeleted'
             /\ s3' \in [Calls -> {Admin!Idle}
                 \cup [kind : {"status"}, target : Accounts, to : Admin!Decisions,
                       seen : Admin!Roles, before : Admin!Statuses]
                 \cup [kind : {"role"}, target : Accounts, to : Admin!Roles,
                       seen : Admin!Roles, before : Admin!Statuses]]
  BY <1>3 DEF Admin!IInv, Admin!TypeOK, Admin!DeletedIsLeftDeleted
<1>4. ASSUME NEW c \in Calls, Admin!ApplyAdminUserStatusChange(c) PROVE Admin!IInv'
  <2> DEFINE u == s3[c].target
  <2>1. /\ s3[c] # Admin!Idle /\ s3[c].kind = "status"
        /\ s2' = s2 /\ s4' = s4 /\ s5' = s5 /\ s3' = [s3 EXCEPT ![c] = Admin!Idle]
    BY <1>4 DEF Admin!ApplyAdminUserStatusChange
  <2>2. \/ Admin!LastOwner(c) /\ s1' = s1
        \/ ~Admin!LastOwner(c) /\ s1' = [s1 EXCEPT ![u] = s3[c].to]
    BY <1>4, Zenon DEF Admin!ApplyAdminUserStatusChange
  <2>3. u \in Accounts /\ s3[c].to \in Admin!Decisions
    BY <2>1, Decided DEF Admin!IInv
  <2>4. Admin!TypeOK'
    <3>1. s1' \in [Accounts -> Admin!Statuses]
      BY <2>2, <2>3 DEF Admin!IInv, Admin!TypeOK, Admin!Statuses, Admin!Decisions
    <3> QED BY <1>3, <2>1, <3>1 DEF Admin!IInv, Admin!TypeOK
  <2>5. Admin!AdministratorsKeepAnOwner'
    <3>1. CASE s1' = s1 \/ s5
      BY <2>1, <3>1 DEF Admin!IInv, Admin!AdministratorsKeepAnOwner,
         Admin!ActiveOwnerIsPreserved
    <3>2. CASE ~s5 /\ s1' = [s1 EXCEPT ![u] = s3[c].to] /\ ~Admin!LastOwner(c)
      <4>1. PICK v \in Admin!ActiveOwners(s1, s2) : v # u \/ s3[c].to = "active"
        BY <3>2 DEF Admin!LastOwner, Admin!ActiveOwners, Admin!IInv,
           Admin!AdministratorsKeepAnOwner, Admin!ActiveOwnerIsPreserved
      <4>2. v \in Admin!ActiveOwners(s1', s2')
        BY <2>1, <3>2, <4>1 DEF Admin!ActiveOwners, Admin!IInv, Admin!TypeOK
      <4> QED BY <4>2 DEF Admin!AdministratorsKeepAnOwner, Admin!ActiveOwnerIsPreserved
    <3> QED BY <2>2, <3>1, <3>2
  <2> QED
    BY <1>3, <2>1, <2>4, <2>5 DEF Admin!IInv
<1>5. ASSUME NEW c \in Calls, Admin!UpdateUserRoles(c) PROVE Admin!IInv'
  <2> DEFINE u == s3[c].target
             assigned == [s2 EXCEPT ![u] = s3[c].to]
  <2>1. /\ s3[c] # Admin!Idle /\ s3[c].kind = "role"
        /\ s1' = s1 /\ s4' = s4 /\ s5' = s5 /\ s3' = [s3 EXCEPT ![c] = Admin!Idle]
    BY <1>5 DEF Admin!UpdateUserRoles
  <2>2. \/ s2' = s2
        \/ s2' = assigned /\ (s3[c].to = "owner" \/ Admin!ActiveOwners(s1, assigned) # {})
    BY <1>5 DEF Admin!UpdateUserRoles
  <2>3. u \in Accounts /\ s3[c].to \in Admin!Roles
    BY <2>1, Decided DEF Admin!IInv
  <2>4. Admin!TypeOK'
    <3>1. s2' \in [Accounts -> Admin!Roles]
      BY <2>2, <2>3 DEF Admin!IInv, Admin!TypeOK
    <3> QED BY <1>3, <2>1, <3>1 DEF Admin!IInv, Admin!TypeOK
  <2>5. Admin!AdministratorsKeepAnOwner'
    <3>1. CASE s2' = s2 \/ s5
      BY <2>1, <3>1 DEF Admin!IInv, Admin!AdministratorsKeepAnOwner,
         Admin!ActiveOwnerIsPreserved
    <3>2. CASE s2' = assigned /\ Admin!ActiveOwners(s1, assigned) # {}
      BY <2>1, <3>2 DEF Admin!AdministratorsKeepAnOwner, Admin!ActiveOwnerIsPreserved
    <3>3. CASE ~s5 /\ s2' = assigned /\ s3[c].to = "owner"
      <4>1. PICK v \in Admin!ActiveOwners(s1, s2) : TRUE
        BY <3>3 DEF Admin!IInv, Admin!AdministratorsKeepAnOwner, Admin!ActiveOwnerIsPreserved
      <4>2. v \in Admin!ActiveOwners(s1', s2')
        BY <2>1, <3>3, <4>1 DEF Admin!ActiveOwners, Admin!IInv, Admin!TypeOK
      <4> QED BY <4>2 DEF Admin!AdministratorsKeepAnOwner, Admin!ActiveOwnerIsPreserved
    <3> QED BY <2>2, <3>1, <3>2, <3>3
  <2> QED
    BY <1>3, <2>1, <2>4, <2>5 DEF Admin!IInv
<1>6. ASSUME NEW v \in Accounts, Admin!ConsumeLink(v) PROVE Admin!IInv'
  <2>1. Admin!TypeOK'
    BY <1>6 DEF Admin!ConsumeLink, Admin!IInv, Admin!TypeOK
  <2> QED
    BY <1>6, <2>1 DEF Admin!ConsumeLink, Admin!IInv, Admin!AdministratorsKeepAnOwner,
       Admin!ActiveOwnerIsPreserved, Admin!DeletedIsLeftDeleted
<1>7. ASSUME NEW v \in Accounts, Admin!WriteBack(v) PROVE Admin!IInv'
  <2>1. Admin!TypeOK'
    BY <1>7 DEF Admin!WriteBack, Admin!IInv, Admin!TypeOK
  <2>2. s5' \/ s1' = s1
    BY <1>7 DEF Admin!WriteBack, Admin!IInv, Admin!TypeOK
  <2> QED
    BY <1>7, <2>1, <2>2 DEF Admin!WriteBack, Admin!IInv, Admin!AdministratorsKeepAnOwner,
       Admin!ActiveOwnerIsPreserved, Admin!DeletedIsLeftDeleted
<1>8. CASE UNCHANGED Admin!vars
  BY <1>8 DEF Admin!vars, Admin!IInv, Admin!TypeOK, Admin!AdministratorsKeepAnOwner,
     Admin!ActiveOwnerIsPreserved, Admin!DeletedIsLeftDeleted
<1> QED
  BY <1>1, <1>2, <1>4, <1>5, <1>6, <1>7, <1>8 DEF Admin!Next

\* A deleted account comes back by a request that read it before, or a confirmation.
LEMMA DeletedComesBackByOldReadings ==
  ASSUME Admin!IInv, Admin!Next \/ UNCHANGED Admin!vars
  PROVE  Admin!DeletedComesBackByOldReadingsOnlyStep
<1>1. ASSUME s1' = s1 PROVE Admin!DeletedComesBackByOldReadingsOnlyStep
  BY <1>1 DEF Admin!DeletedComesBackByOldReadingsOnlyStep
<1>2. ASSUME NEW c \in Calls, Admin!ApplyAdminUserStatusChange(c)
      PROVE  Admin!DeletedComesBackByOldReadingsOnlyStep
  <2> SUFFICES ASSUME NEW u \in Accounts, s1[u] = "deleted", s1'[u] # "deleted"
               PROVE  s3[c] # Admin!Idle /\ s3[c].target = u /\ s3[c].before # "deleted"
    BY DEF Admin!DeletedComesBackByOldReadingsOnlyStep
  <2> QED
    BY <1>2 DEF Admin!ApplyAdminUserStatusChange, Admin!IInv, Admin!TypeOK,
       Admin!DeletedIsLeftDeleted
<1>3. ASSUME NEW v \in Accounts, Admin!WriteBack(v)
      PROVE  Admin!DeletedComesBackByOldReadingsOnlyStep
  BY <1>3 DEF Admin!WriteBack, Admin!DeletedComesBackByOldReadingsOnlyStep, Admin!IInv,
     Admin!TypeOK
<1> QED
  BY <1>1, <1>2, <1>3 DEF Admin!Next, Admin!vars, Admin!DecideStatus, Admin!DecideRole,
     Admin!UpdateUserRoles, Admin!ConsumeLink


---------------------------------------------------------------------------
(* The outbox.                                                             *)

\* While messages move, a step is one of theirs or changes nothing of theirs.
LEMMA MailSteps ==
  ASSUME part = "outbox", [Next]_vars
  PROVE  Mail!Next \/ UNCHANGED Mail!vars
BY DEF Next, vars, Mail!vars, AccountAction, Administration, SigningIn, DeviceLoggingIn,
       Authorization, Governance, Locking, Mailing

\* The rows of the outbox.
Rows ==
  [status : {"absent", "gone"} \cup Mail!Active \cup Mail!Settled,
   attempts : 0 .. MaxAttempts, due : BOOLEAN, live : BOOLEAN, payload : BOOLEAN]

\* What the rows of the outbox may become: a row gets on its way only when it is the
\* one that is requested, and the settled ones stay so.
RowsMove ==
  /\ s1' \in [Intents -> Rows]
  /\ \A j \in Intents :
       /\ s1'[j].payload <=> s1'[j].status \in Mail!Active
       /\ s1'[j].status = "delivered" => s1[j].status = "delivered" \/ j \in s5'
       /\ s1[j].status \in Mail!Settled => s1'[j].status \in {s1[j].status, "gone"}

\* Nothing is on its way at the start.
LEMMA MailInit == Mail!Init => Mail!IInv
<1> SUFFICES ASSUME Mail!Init PROVE Mail!IInv
  OBVIOUS
<1>1. Mail!TypeOK
  BY AccountAssumption DEF Mail!Init, Mail!TypeOK, Mail!Active, Mail!Settled, Mail!Addresses
<1> QED
  BY <1>1 DEF Mail!Init, Mail!IInv, Mail!NoTwoOnTheirWay, Mail!ActiveIntents, Mail!Active,
     Mail!PayloadIsKeptWhileNeeded, Mail!DeliveredWasAccepted, Mail!DeliveriesWereAccepted

\* A settled row.
LEMMA SettledRow ==
  ASSUME NEW row \in Rows, NEW status \in Mail!Settled
  PROVE  /\ Mail!Settle(row, status) \in Rows
         /\ Mail!Settle(row, status).status = status
         /\ Mail!Settle(row, status).payload = FALSE
BY DEF Rows, Mail!Settle

\* A worker that still has its lease finishes a row that is leased, and what it makes
\* of the row follows the outcome.
LEMMA FinishedRow ==
  ASSUME NEW row \in Rows, NEW outcome \in Mail!Outcomes, NEW tok, NEW outlives,
         row.status = "leased", row.payload
  PROVE  LET after == Mail!Finished(row, outcome, tok, outlives) IN
         /\ after \in Rows
         /\ after.payload <=> after.status \in Mail!Active
         /\ after.status = "delivered" => outcome = "delivered"
<1>1. CASE outcome # "retry"
  <2>1. outcome \in Mail!Settled
    BY <1>1 DEF Mail!Outcomes, Mail!Settled
  <2> QED
    BY <1>1, <2>1, SettledRow DEF Mail!Finished, Mail!Settled, Mail!Active
<1>2. CASE outcome = "retry" /\ row.attempts < MaxAttempts /\ outlives /\ ~tok.expired /\ ~tok.used
  <2>1. Mail!Finished(row, outcome, tok, outlives) = [row EXCEPT !.status = "pending", !.live = FALSE]
    BY <1>2 DEF Mail!Finished
  <2> QED
    BY <2>1 DEF Rows, Mail!Active
<1>3. CASE outcome = "retry" /\ ~(row.attempts < MaxAttempts /\ outlives /\ ~tok.expired /\ ~tok.used)
  <2> DEFINE status == IF tok.used THEN "invalid" ELSE IF tok.expired THEN "expired" ELSE "failed"
  <2>1. Mail!Finished(row, outcome, tok, outlives) = Mail!Settle(row, status)
    BY <1>3 DEF Mail!Finished
  <2>2. status \in Mail!Settled /\ status # "delivered"
    BY DEF Mail!Settled
  <2> QED
    BY <2>1, <2>2, SettledRow DEF Mail!Settled, Mail!Active
<1> QED
  BY <1>1, <1>2, <1>3

\* Deliveries start without an outcome, and only the provider's acceptance makes one
\* "delivered".
DeliveriesMove ==
  /\ s4' \in [Calls -> {Mail!Idle} \cup
       [at : {"check", "send", "finish"}, i : Intents, attempt : 1 .. MaxAttempts,
        outcome : Mail!Outcomes \cup {"none"}]]
  /\ s5 \subseteq s5' /\ s5' \subseteq Intents
  /\ \A w \in Calls :
       \/ s4'[w] = s4[w]
       \/ s4'[w] = Mail!Idle
       \/ /\ s4'[w] # Mail!Idle
          /\ s4'[w].at = "finish" => s4'[w].outcome # "none"
          /\ s4'[w].outcome = "delivered" => s4'[w].i \in s5'

\* Steps that move the rows and the deliveries in these ways keep the invariant.
LEMMA MovesKeepMail ==
  ASSUME Mail!IInv, RowsMove, DeliveriesMove,
         s2' \in [Intents -> [used : BOOLEAN, expired : BOOLEAN, address : Mail!Addresses]],
         s3' \in [address : Mail!Addresses, eligible : BOOLEAN],
         \A i, j \in Mail!ActiveIntents' : i = j
  PROVE  Mail!IInv'
<1>1. Mail!TypeOK'
  BY DEF RowsMove, DeliveriesMove, Rows, Mail!TypeOK
<1>2. Mail!PayloadIsKeptWhileNeeded'
  BY DEF RowsMove, Mail!PayloadIsKeptWhileNeeded
<1>3. Mail!DeliveredWasAccepted'
  BY DEF RowsMove, DeliveriesMove, Mail!IInv, Mail!DeliveredWasAccepted
<1>4. Mail!DeliveriesWereAccepted'
  BY DEF DeliveriesMove, Mail!IInv, Mail!DeliveriesWereAccepted
<1>5. Mail!NoTwoOnTheirWay'
  BY DEF Mail!NoTwoOnTheirWay
<1> QED
  BY <1>1, <1>2, <1>3, <1>4, <1>5 DEF Mail!IInv


\* When no other message gets on its way, there are still not two.
LEMMA NoOtherMessage ==
  ASSUME Mail!IInv, \A j \in Intents : s1'[j].status \in Mail!Active => s1[j].status \in Mail!Active
  PROVE  \A i, j \in Mail!ActiveIntents' : i = j
BY DEF Mail!IInv, Mail!NoTwoOnTheirWay, Mail!ActiveIntents

\* One row that is on its way and changes.
LEMMA OneRowMoves ==
  ASSUME Mail!IInv, NEW i \in Intents, s1[i].status \in Mail!Active, NEW row \in Rows,
         s1' = [s1 EXCEPT ![i] = row],
         row.payload <=> row.status \in Mail!Active,
         row.status = "delivered" => i \in s5, s5' = s5
  PROVE  RowsMove /\ \A k, j \in Mail!ActiveIntents' : k = j
<1>1. s1 \in [Intents -> Rows]
  BY DEF Mail!IInv, Mail!TypeOK, Rows
<1>2. s1[i].status \notin Mail!Settled
  BY DEF Mail!Active, Mail!Settled
<1>3. \A j \in Intents : s1[j].payload <=> s1[j].status \in Mail!Active
  BY DEF Mail!IInv, Mail!PayloadIsKeptWhileNeeded
<1>4. \A j \in Intents : s1[j].status \in Mail!Settled => s1[j].status \in {s1[j].status, "gone"}
  OBVIOUS
<1>5. \A j \in Intents : s1'[j] = IF j = i THEN row ELSE s1[j]
  BY <1>1
<1>6. RowsMove
  <2>1. s1' \in [Intents -> Rows]
    BY <1>1
  <2> QED
    BY <1>2, <1>3, <1>5, <2>1 DEF RowsMove
<1> QED
  BY <1>5, <1>6, NoOtherMessage

\* Rows that stay.
LEMMA RowsStay ==
  ASSUME Mail!IInv, s1' = s1
  PROVE  RowsMove /\ \A i, j \in Mail!ActiveIntents' : i = j
<1>1. \A i, j \in Mail!ActiveIntents' : i = j
  BY NoOtherMessage
<1>2. s1 \in [Intents -> Rows]
  BY DEF Mail!IInv, Mail!TypeOK, Rows
<1> QED
  BY <1>1, <1>2 DEF RowsMove, Mail!IInv, Mail!PayloadIsKeptWhileNeeded

\* Deliveries that stay.
LEMMA DeliveriesStay ==
  ASSUME Mail!IInv, s4' = s4, s5' = s5
  PROVE  DeliveriesMove
BY DEF DeliveriesMove, Mail!IInv, Mail!TypeOK

\* A worker stops or has finished.
LEMMA DeliveryEnds ==
  ASSUME Mail!IInv, NEW w \in Calls, s4' = [s4 EXCEPT ![w] = Mail!Idle], s5' = s5
  PROVE  DeliveriesMove
BY DEF DeliveriesMove, Mail!IInv, Mail!TypeOK

\* A worker goes on with a delivery.
LEMMA DeliveryGoesOn ==
  ASSUME Mail!IInv, NEW w \in Calls, s4[w] # Mail!Idle,
         NEW place \in {"check", "send", "finish"}, NEW outcome \in Mail!Outcomes \cup {"none"},
         Mail!Goes(w, place, outcome), outcome = "delivered" => s4[w].i \in s5',
         place = "finish" => outcome # "none",
         s5 \subseteq s5', s5' \subseteq Intents
  PROVE  DeliveriesMove
<1>1. s4[w] \in [at : {"check", "send", "finish"}, i : Intents, attempt : 1 .. MaxAttempts,
                 outcome : Mail!Outcomes \cup {"none"}]
  BY DEF Mail!IInv, Mail!TypeOK
<1>2. s4' = [s4 EXCEPT ![w] = [s4[w] EXCEPT !.at = place, !.outcome = outcome]]
  BY <1>1 DEF Mail!Goes, Mail!IInv, Mail!TypeOK
<1>3. [s4[w] EXCEPT !.at = place, !.outcome = outcome] \in
        [at : {"check", "send", "finish"}, i : Intents, attempt : 1 .. MaxAttempts,
         outcome : Mail!Outcomes \cup {"none"}]
  BY <1>1
<1>4. s4'[w] # Mail!Idle /\ s4'[w].i = s4[w].i /\ s4'[w].outcome = outcome
      /\ s4'[w].at = place
  BY <1>1, <1>2 DEF Mail!IInv, Mail!TypeOK, Mail!Idle
<1> QED
  BY <1>2, <1>3, <1>4 DEF DeliveriesMove, Mail!IInv, Mail!TypeOK


\* What every step of the outbox does with the rows.
LEMMA MailMoves ==
  ASSUME Mail!IInv, Mail!Next \/ UNCHANGED Mail!vars
  PROVE  RowsMove /\ Mail!IInv'
<1> DEFINE Settles == RowsMove /\ Mail!IInv'
           Tokens == [Intents -> [used : BOOLEAN, expired : BOOLEAN, address : Mail!Addresses]]
<1>1. s1 \in [Intents -> Rows] /\ s2 \in Tokens
      /\ s3 \in [address : Mail!Addresses, eligible : BOOLEAN]
  BY DEF Mail!IInv, Mail!TypeOK, Rows
<1>2. \A i \in Intents : s1[i].payload <=> s1[i].status \in Mail!Active
  BY DEF Mail!IInv, Mail!PayloadIsKeptWhileNeeded
<1>3. ASSUME s1' = s1, s4' = s4, s5' = s5, s2' \in Tokens,
             s3' \in [address : Mail!Addresses, eligible : BOOLEAN]
      PROVE  Settles
  BY <1>3, RowsStay, DeliveriesStay, MovesKeepMail
<1>4. ASSUME NEW i \in Intents, Mail!Request(i) PROVE Settles
  <2> DEFINE new == [status |-> "pending", attempts |-> 0, due |-> TRUE, live |-> FALSE,
                     payload |-> TRUE]
  <2>1. /\ s1[i].status = "absent" /\ s1' = [Mail!Retired EXCEPT ![i] = new]
        /\ s2' = [s2 EXCEPT ![i].address = s3.address]
        /\ s3' = s3 /\ s4' = s4 /\ s5' = s5
    BY <1>4 DEF Mail!Request
  <2>2. ASSUME NEW j \in Intents
        PROVE  /\ Mail!Retired[j] \in Rows
               /\ Mail!Retired[j].status \notin Mail!Active /\ ~Mail!Retired[j].payload
               /\ \/ Mail!Retired[j] = s1[j]
                  \/ s1[j].status \in Mail!Active /\ Mail!Retired[j].status \in {"expired", "invalid"}
    <3>1. CASE j \in Mail!ActiveIntents
      <4>1. PICK status \in {"expired", "invalid"} : Mail!Retired[j] = Mail!Settle(s1[j], status)
        BY <3>1 DEF Mail!Retired
      <4>2. status \in Mail!Settled
        BY DEF Mail!Settled
      <4>3. s1[j] \in Rows /\ s1[j].status \in Mail!Active
        BY <1>1, <3>1 DEF Mail!ActiveIntents
      <4>4. Mail!Retired[j] \in Rows /\ Mail!Retired[j].status = status
            /\ Mail!Retired[j].payload = FALSE
        <5>1. /\ Mail!Settle(s1[j], status) \in Rows
              /\ Mail!Settle(s1[j], status).status = status
              /\ Mail!Settle(s1[j], status).payload = FALSE
          BY <4>2, <4>3, SettledRow
        <5> QED BY <4>1, <5>1, Zenon
      <4> QED
        BY <4>3, <4>4 DEF Mail!Active
    <3>2. CASE j \notin Mail!ActiveIntents
      <4>1. Mail!Retired[j] = s1[j]
        BY <3>2 DEF Mail!Retired
      <4>2. s1[j].status \notin Mail!Active
        BY <3>2 DEF Mail!ActiveIntents
      <4> QED
        BY <1>1, <1>2, <4>1, <4>2
    <3> QED BY <3>1, <3>2
  <2>3. new \in Rows
    BY AccountAssumption DEF Rows, Mail!Active
  <2>4. DOMAIN Mail!Retired = Intents
    BY DEF Mail!Retired
  <2>5. \A j \in Intents : s1'[j] = IF j = i THEN new ELSE Mail!Retired[j]
    BY <2>1, <2>4
  <2>6. s1' \in [Intents -> Rows]
    <3>1. Mail!Retired \in [Intents -> Rows]
      BY <2>2 DEF Mail!Retired
    <3> QED BY <2>1, <2>3, <3>1
  <2>7. RowsMove
    <3>1. \A j \in Intents : s1'[j].payload <=> s1'[j].status \in Mail!Active
      BY <2>2, <2>5 DEF Mail!Active
    <3>2. \A j \in Intents : s1'[j].status = "delivered" => s1[j].status = "delivered"
      BY <2>2, <2>5
    <3>3. \A j \in Intents : s1[j].status \in Mail!Settled => s1'[j].status = s1[j].status
      BY <2>1, <2>2, <2>5 DEF Mail!Settled, Mail!Active
    <3> QED BY <2>6, <3>1, <3>2, <3>3 DEF RowsMove
  <2>8. \A k, j \in Mail!ActiveIntents' : k = j
    BY <2>2, <2>5 DEF Mail!ActiveIntents
  <2>9. s2' \in Tokens
    BY <1>1, <2>1
  <2> QED
    BY <1>1, <2>1, <2>7, <2>8, <2>9, DeliveriesStay, MovesKeepMail
<1>5. ASSUME NEW i \in Intents, Mail!Consume(i) PROVE Settles
  BY <1>1, <1>3, <1>5 DEF Mail!Consume
<1>6. ASSUME NEW i \in Intents, Mail!TokenExpires(i) PROVE Settles
  BY <1>1, <1>3, <1>6 DEF Mail!TokenExpires
<1>7. ASSUME NEW i \in Intents, NEW row \in Rows, s1[i].status \in Mail!Active,
             s1' = [s1 EXCEPT ![i] = row], row.payload <=> row.status \in Mail!Active,
             row.status = "delivered" => i \in s5,
             DeliveriesMove, s5' = s5, s2' = s2, s3' = s3
      PROVE  Settles
  BY <1>1, <1>7, OneRowMoves, MovesKeepMail
<1>8. ASSUME NEW i \in Intents, Mail!LeaseExpires(i) PROVE Settles
  <2>1. s1[i].status = "leased" /\ s1' = [s1 EXCEPT ![i] = [s1[i] EXCEPT !.live = FALSE]]
    BY <1>8 DEF Mail!LeaseExpires
  <2>2. [s1[i] EXCEPT !.live = FALSE] \in Rows
    BY <1>1 DEF Rows
  <2> QED
    BY <1>1, <1>2, <1>7, <1>8, <2>1, <2>2, DeliveriesStay DEF Mail!LeaseExpires, Mail!Active, Rows
<1>9. ASSUME NEW i \in Intents, Mail!BecomesDue(i) PROVE Settles
  <2>1. s1[i].status = "pending" /\ s1' = [s1 EXCEPT ![i] = [s1[i] EXCEPT !.due = TRUE]]
    BY <1>9 DEF Mail!BecomesDue
  <2>2. [s1[i] EXCEPT !.due = TRUE] \in Rows
    BY <1>1 DEF Rows
  <2> QED
    BY <1>1, <1>2, <1>7, <1>9, <2>1, <2>2, DeliveriesStay DEF Mail!BecomesDue, Mail!Active, Rows
<1>10. ASSUME NEW i \in Intents, Mail!Retain(i) PROVE Settles
  <2> DEFINE row == [s1[i] EXCEPT !.status = "gone"]
  <2>1. /\ ~s1[i].payload /\ s1[i].status \in Mail!Settled /\ s1' = [s1 EXCEPT ![i] = row]
        /\ s2' = s2 /\ s3' = s3 /\ s4' = s4 /\ s5' = s5
    BY <1>10 DEF Mail!Retain
  <2>2. row \in Rows /\ row.status = "gone" /\ ~row.payload
    BY <1>1, <2>1 DEF Rows
  <2> HIDE DEF row
  <2>3. \A j \in Intents : s1'[j] = IF j = i THEN row ELSE s1[j]
    BY <1>1, <2>1
  <2>4. RowsMove
    BY <1>1, <1>2, <2>1, <2>2, <2>3 DEF RowsMove, Mail!Active
  <2>5. \A k, j \in Mail!ActiveIntents' : k = j
    BY <2>2, <2>3, NoOtherMessage DEF Mail!Active
  <2> QED
    BY <1>1, <2>1, <2>4, <2>5, DeliveriesStay, MovesKeepMail
<1>11. ASSUME NEW w \in Calls, NEW i \in Intents, Mail!Claim(w, i) PROVE Settles
  <2> DEFINE row == [s1[i] EXCEPT !.status = "leased", !.live = TRUE, !.due = FALSE,
                                !.attempts = s1[i].attempts + 1]
             new == [at |-> "check", i |-> i, attempt |-> s1[i].attempts + 1, outcome |-> "none"]
  <2>1. /\ Mail!Claimable(i) /\ s1[i].attempts < MaxAttempts
        /\ s1' = [s1 EXCEPT ![i] = row]
        /\ s4' = [s4 EXCEPT ![w] = new]
        /\ s2' = s2 /\ s3' = s3 /\ s5' = s5
    <3>1. s1' = [s1 EXCEPT ![i].status = "leased", ![i].live = TRUE, ![i].due = FALSE,
                           ![i].attempts = @ + 1]
      BY <1>11 DEF Mail!Claim
    <3>2. s1' = [s1 EXCEPT ![i] = row]
      BY <1>1, <3>1
    <3> QED BY <1>11, <3>2 DEF Mail!Claim
  <2>2. s1[i].status \in Mail!Active
    BY <2>1 DEF Mail!Claimable, Mail!Active
  <2>3. s1[i].attempts + 1 \in 1 .. MaxAttempts
    BY <1>1, <2>1, AccountAssumption DEF Rows
  <2>4. row \in Rows /\ row.status = "leased" /\ row.payload
    <3>1. s1[i] \in Rows /\ s1[i].payload
      BY <1>1, <1>2, <2>2
    <3>2. s1[i].attempts + 1 \in 0 .. MaxAttempts
      BY <2>3
    <3> QED BY <3>1, <3>2 DEF Rows, Mail!Active
  <2>5. DeliveriesMove
    BY <2>1, <2>3 DEF DeliveriesMove, Mail!IInv, Mail!TypeOK, Mail!Idle
  <2> QED
    BY <1>7, <2>1, <2>2, <2>4, <2>5 DEF Mail!Active
<1>12. ASSUME NEW w \in Calls, NEW i \in Intents, Mail!GiveUp(w, i) PROVE Settles
  <2>1. PICK status \in {"expired", "failed"} : s1' = [s1 EXCEPT ![i] = Mail!Settle(s1[i], status)]
    BY <1>12 DEF Mail!GiveUp
  <2>2. s1[i].status \in Mail!Active
    BY <1>12 DEF Mail!GiveUp, Mail!Claimable, Mail!Active
  <2>3. status \in Mail!Settled
    BY DEF Mail!Settled
  <2>4. s2' = s2 /\ s3' = s3 /\ s4' = s4 /\ s5' = s5
    BY <1>12 DEF Mail!GiveUp
  <2> QED
    BY <1>1, <1>7, <2>1, <2>2, <2>3, <2>4, SettledRow, DeliveriesStay DEF Mail!Active
<1>13. ASSUME NEW w \in Calls, Mail!CheckRecipient(w) PROVE Settles
  <2>1. PICK place \in {"check", "send", "finish"}, outcome \in Mail!Outcomes \cup {"none"} :
          /\ Mail!Goes(w, place, outcome) /\ outcome # "delivered"
          /\ place = "finish" => outcome # "none"
    BY <1>13 DEF Mail!CheckRecipient, Mail!Outcomes
  <2>2. s4[w] # Mail!Idle /\ s1' = s1 /\ s2' = s2 /\ s3' = s3 /\ s5' = s5 /\ s5 \subseteq Intents
    BY <1>13 DEF Mail!CheckRecipient, Mail!IInv, Mail!TypeOK
  <2>3. DeliveriesMove
    BY <2>1, <2>2, DeliveryGoesOn
  <2> QED
    BY <1>1, <2>2, <2>3, RowsStay, MovesKeepMail
<1>14. ASSUME NEW w \in Calls, Mail!Send(w) PROVE Settles
  <2>1. s4[w] # Mail!Idle /\ s1' = s1 /\ s2' = s2 /\ s3' = s3 /\ s5 \subseteq Intents
    BY <1>14 DEF Mail!Send, Mail!IInv, Mail!TypeOK
  <2>2. s4[w].i \in Intents
    BY <2>1 DEF Mail!IInv, Mail!TypeOK
  <2>3. /\ s5 \subseteq s5' /\ s5' \subseteq Intents
        /\ \/ Mail!Goes(w, "finish", "delivered") /\ s4[w].i \in s5'
           \/ Mail!Goes(w, "finish", "retry")
    BY <1>14, <2>1, <2>2 DEF Mail!Send
  <2>4. DeliveriesMove
    BY <2>1, <2>3, DeliveryGoesOn DEF Mail!Outcomes
  <2> QED
    BY <1>1, <2>1, <2>4, RowsStay, MovesKeepMail
<1>15. ASSUME NEW w \in Calls, Mail!Finish(w) PROVE Settles
  <2> DEFINE d == s4[w]
  <2>1. /\ d # Mail!Idle /\ d.at = "finish" /\ s4' = [s4 EXCEPT ![w] = Mail!Idle]
        /\ s2' = s2 /\ s3' = s3 /\ s5' = s5
    BY <1>15 DEF Mail!Finish
  <2>2. DeliveriesMove
    BY <2>1, DeliveryEnds
  <2>3. CASE s1' = s1
    BY <1>1, <2>1, <2>2, <2>3, RowsStay, MovesKeepMail
  <2>4. ASSUME NEW outlives \in BOOLEAN, Mail!HoldsLease(d),
               s1' = [s1 EXCEPT ![d.i] = Mail!Finished(s1[d.i], d.outcome, s2[d.i], outlives)]
        PROVE  Settles
    <3>1. d.i \in Intents /\ d.outcome \in Mail!Outcomes
      <4>1. d.i \in Intents /\ d.outcome \in Mail!Outcomes \cup {"none"}
        BY <2>1 DEF Mail!IInv, Mail!TypeOK
      <4>2. d.outcome # "none"
        BY <2>1 DEF Mail!IInv, Mail!DeliveriesWereAccepted
      <4> QED BY <4>1, <4>2
    <3>2. s1[d.i].status = "leased" /\ s1[d.i].payload /\ s1[d.i] \in Rows
      BY <1>1, <1>2, <2>4, <3>1 DEF Mail!HoldsLease, Mail!Active
    <3>3. d.outcome = "delivered" => d.i \in s5
      BY <2>1 DEF Mail!IInv, Mail!DeliveriesWereAccepted
    <3> QED
      BY <1>7, <2>1, <2>2, <2>4, <3>1, <3>2, <3>3, FinishedRow DEF Mail!Active
  <2> QED
    BY <1>15, <2>3, <2>4 DEF Mail!Finish
<1>16. ASSUME NEW w \in Calls, Mail!Stop(w) PROVE Settles
  BY <1>1, <1>16, RowsStay, DeliveryEnds, MovesKeepMail DEF Mail!Stop
<1>17. CASE Mail!ChangeAddress
  <2>1. s2' \in Tokens
    BY <1>1, <1>17 DEF Mail!ChangeAddress
  <2> QED
    BY <1>1, <1>3, <1>17, <2>1 DEF Mail!ChangeAddress, Mail!Addresses
<1>18. CASE Mail!Disable
  BY <1>1, <1>3, <1>18 DEF Mail!Disable
<1>19. CASE UNCHANGED Mail!vars
  BY <1>1, <1>3, <1>19 DEF Mail!vars
<1> QED
  BY <1>4, <1>5, <1>6, <1>8, <1>9, <1>10, <1>11, <1>12, <1>13, <1>14, <1>15, <1>16, <1>17,
     <1>18, <1>19 DEF Mail!Next, Mail!Work


---------------------------------------------------------------------------
(* The theorems.                                                           *)

\* What the steps keep, while accounts, administrators or messages move.
AccountInv ==
  /\ part = "actions" => Link!IInv
  /\ part = "admin" => Admin!IInv
  /\ part = "outbox" => Mail!IInv

\* It holds at the start and is kept by every step.
LEMMA AccountInvHolds == Spec => []AccountInv
<1>1. Init => AccountInv
  BY LinkInit, AdminInit, MailInit DEF Init, AccountInv
<1>2. AccountInv /\ [Next]_vars => AccountInv'
  <2> SUFFICES ASSUME AccountInv, [Next]_vars PROVE AccountInv'
    OBVIOUS
  <2>1. part' = part
    BY PartStays
  <2>2. part = "actions" => Link!IInv'
    BY LinkSteps, LinksKept DEF AccountInv
  <2>3. part = "admin" => Admin!IInv'
    BY AdminSteps, AdministrationKept DEF AccountInv
  <2>4. part = "outbox" => Mail!IInv'
    BY MailSteps, MailMoves DEF AccountInv
  <2> QED
    BY <2>1, <2>2, <2>3, <2>4 DEF AccountInv
<1> QED
  BY <1>1, <1>2, PTL DEF Spec

\* A link that works belongs to the account as it is, one change of address is open at
\* a time, and administrators who act on each other leave an active owner, however many
\* requests are between their reading and their commit.
THEOREM AccountsStayConsistent == Spec => []AccountsAreConsistent
<1>1. AccountInv => AccountsAreConsistent
  BY DEF AccountInv, AccountsAreConsistent, Link!IInv, Admin!IInv
<1> QED
  BY <1>1, AccountInvHolds, PTL

\* A set of which no two members differ has at most one.
LEMMA AtMostOne ==
  ASSUME NEW S, \A i, j \in S : i = j
  PROVE  Mail!Cardinality(S) <= 1
<1>1. Mail!Cardinality(S) = Cardinality(S)
  BY DEF Mail!Cardinality, Cardinality
<1>2. CASE S = {}
  BY <1>1, <1>2, FS_EmptySet
<1>3. ASSUME NEW x \in S PROVE Cardinality(S) = 1
  <2>1. S = {x}
    OBVIOUS
  <2> QED
    BY <2>1, FS_Singleton
<1> QED
  BY <1>1, <1>2, <1>3

\* However many requests and workers there are and whatever the provider answers, one
\* message is on its way, its payload is kept exactly as long, and "delivered" is stored
\* of an accepted one only.
THEOREM MessagesAreAccountedFor == Spec => []MailIsAccountedFor
<1>1. AccountInv => MailIsAccountedFor
  BY AtMostOne DEF AccountInv, MailIsAccountedFor, Mail!IInv, Mail!NoTwoOnTheirWay,
     Mail!OneIntentOnItsWay
<1> QED
  BY <1>1, AccountInvHolds, PTL

\* A change is committed only from what its request read, a deleted account comes back
\* only by a reading from before, and no late worker reopens a settled message.
THEOREM LateWritersChangeNothing == Spec => LateWritersAreRefused
<1>1. AccountInv /\ [Next]_vars =>
        /\ part = "actions" => Link!ChangesAreOrderedStep
        /\ part = "admin" => Admin!DeletedComesBackByOldReadingsOnlyStep
        /\ part = "outbox" => Mail!SettledStaysStep
  <2> SUFFICES ASSUME AccountInv, [Next]_vars
               PROVE  /\ part = "actions" => Link!ChangesAreOrderedStep
                      /\ part = "admin" => Admin!DeletedComesBackByOldReadingsOnlyStep
                      /\ part = "outbox" => Mail!SettledStaysStep
    OBVIOUS
  <2>1. part = "actions" => Link!ChangesAreOrderedStep
    BY LinkSteps, LinkChangesAreOrdered DEF AccountInv
  <2>2. part = "admin" => Admin!DeletedComesBackByOldReadingsOnlyStep
    BY AdminSteps, DeletedComesBackByOldReadings DEF AccountInv
  <2>3. part = "outbox" => Mail!SettledStaysStep
    BY MailSteps, MailMoves DEF AccountInv, RowsMove, Mail!SettledStaysStep
  <2> QED
    BY <2>1, <2>2, <2>3
<1> QED
  BY <1>1, AccountInvHolds, PTL DEF Spec, LateWritersAreRefused

---------------------------------------------------------------------------
(* Connections.                                                            *)

\* While connections move, a step is one of theirs or changes nothing of theirs.
LEMMA AuthSteps ==
  ASSUME part = "oauth", [Next]_vars
  PROVE  Auth!Next \/ UNCHANGED Auth!vars
BY DEF Next, vars, Auth!vars, AccountAction, Administration, SigningIn, DeviceLoggingIn,
       Authorization, Governance, Locking, Mailing

\* Connections are counted as sets are.
LEMMA AuthCounts == \A S : Auth!Cardinality(S) = Cardinality(S)
BY DEF Auth!Cardinality, Cardinality

\* Any connections are finitely many.
LEMMA FinitelyManyGrants ==
  \A S \in SUBSET Twins : IsFiniteSet(S) /\ Cardinality(S) \in Nat
BY TenancyAssumption, FS_Subset, FS_CardinalityType

\* A step that makes at most one connection, and that below the cap, keeps the cap.
LEMMA CapKept ==
  ASSUME Auth!ConnectionCapHolds, NEW r,
         \A x \in Twins : s4'[x] = "active" => s4[x] = "active" \/ x = r,
         \/ r \in Twins /\ Auth!CountActiveGrants < MaxActive
         \/ \A x \in Twins : s4'[x] = "active" => s4[x] = "active"
  PROVE  Auth!ConnectionCapHolds'
<1> DEFINE S == {x \in Twins : s4[x] = "active"}
           T == {x \in Twins : s4'[x] = "active"}
<1>1. S \in SUBSET Twins /\ T \in SUBSET Twins
  OBVIOUS
<1>2. Auth!CountActiveGrants = Cardinality(S) /\ Auth!CountActiveGrants' = Cardinality(T)
  BY AuthCounts DEF Auth!CountActiveGrants
<1>3. CASE T \subseteq S
  <2> HIDE DEF S, T
  <2>1. Cardinality(T) <= Cardinality(S) /\ Cardinality(T) \in Nat /\ Cardinality(S) \in Nat
    BY <1>1, <1>3, FinitelyManyGrants, FS_Subset
  <2> QED
    BY <1>2, <2>1, ConnectionAssumption DEF Auth!ConnectionCapHolds
<1>4. CASE r \in Twins /\ Auth!CountActiveGrants < MaxActive
  <2>1. T \subseteq S \cup {r} /\ S \cup {r} \in SUBSET Twins
    BY <1>4
  <2> HIDE DEF S, T
  <2>2. Cardinality(T) <= Cardinality(S \cup {r}) /\ Cardinality(T) \in Nat
    BY <1>1, <2>1, FinitelyManyGrants, FS_Subset
  <2>3. Cardinality(S \cup {r}) = IF r \in S THEN Cardinality(S) ELSE Cardinality(S) + 1
    BY <1>1, FinitelyManyGrants, FS_AddElement
  <2>4. Cardinality(S) \in Nat
    BY <1>1, FinitelyManyGrants
  <2> QED
    BY <1>2, <1>4, <2>2, <2>3, <2>4, ConnectionAssumption DEF Auth!ConnectionCapHolds
<1> QED
  BY <1>3, <1>4

\* What a request of the service may be doing.
Requests ==
  {Auth!Idle}
    \cup [at : {"decide"}, r : Twins, session : 0 .. MaxEpoch]
    \cup [at : {"recheck", "revoke"}, r : Twins]
    \cup [at : {"rotate"}, r : Twins, token : 1 .. MaxPairs]

\* A request that goes on, and the others stay.
LEMMA RequestGoes ==
  ASSUME Auth!TypeOK, NEW c \in Calls, NEW to \in Requests, Auth!Goes(c, to)
  PROVE  /\ s9' \in [Calls -> Requests]
         /\ s9'[c] = to
         /\ \A d \in Calls : d # c => s9'[d] = s9[d]
BY DEF Auth!TypeOK, Auth!Goes, Requests

\* What a request is about.
LEMMA RequestsAreAbout ==
  ASSUME Auth!TypeOK, NEW c \in Calls
  PROVE  /\ s9[c].at = "decide" => s9[c].r \in Twins /\ s9[c].session \in 0 .. MaxEpoch
         /\ s9[c].at \in {"recheck", "revoke"} => s9[c].r \in Twins
         /\ s9[c].at = "rotate" => s9[c].r \in Twins /\ s9[c].token \in 1 .. MaxPairs
BY DEF Auth!TypeOK, Auth!Idle

\* What becomes of a connection that is ended.
LEMMA GrantEnds ==
  ASSUME Auth!TypeOK, NEW r \in Twins, Auth!EndGrant(r)
  PROVE  /\ s4' \in [Twins -> {"none", "active", "ended"}]
         /\ s4'[r] # "active"
         /\ \A x \in Twins : x # r => s4'[x] = s4[x]
BY DEF Auth!TypeOK, Auth!EndGrant

\* The unused pair is the newest, and only it is rotated, below the bound.
LEMMA RotatesTheNewest ==
  ASSUME Auth!TypeOK, Auth!NewestTokenIsUnused, Auth!RotationsAreOfPairs,
         NEW c \in Calls, Auth!Rotate(c)
  PROVE  LET r == s9[c].r IN
         /\ r \in Twins /\ s9[c].token \in 1 .. s5[r] /\ s5[r] \in 1 .. MaxPairs
         /\ s1' = s1 /\ s2' = s2 /\ s3' = s3 /\ s4' = s4 /\ s7' = s7
         /\ \/ /\ Auth!Goes(c, [at |-> "revoke", r |-> r])
               /\ s8' = s8 \cup {r} /\ s5' = s5 /\ s6' = s6
            \/ /\ Auth!Goes(c, Auth!Idle) /\ s8' = s8
               /\ s5[r] < MaxPairs
               /\ s5' = [s5 EXCEPT ![r] = s5[r] + 1]
               /\ s6' = [s6 EXCEPT ![r] = 1 .. s5[r]]
            \/ Auth!Goes(c, Auth!Idle) /\ s8' = s8 /\ s5' = s5 /\ s6' = s6
<1> DEFINE r == s9[c].r  k == s9[c].token
<1>1. /\ s9[c].at = "rotate" /\ s1' = s1 /\ s2' = s2 /\ s3' = s3 /\ s4' = s4 /\ s7' = s7
      /\ \/ Auth!Goes(c, [at |-> "revoke", r |-> r]) /\ s8' = s8 \cup {r} /\ s5' = s5 /\ s6' = s6
         \/ /\ k \notin s6[r] /\ Auth!Goes(c, Auth!Idle) /\ s8' = s8
            /\ s5' = [s5 EXCEPT ![r] = @ + 1]
            /\ s6' = [s6 EXCEPT ![r] = @ \cup {k}]
         \/ Auth!Goes(c, Auth!Idle) /\ s8' = s8 /\ s5' = s5 /\ s6' = s6
  BY DEF Auth!Rotate, Auth!Unused
<1>2. r \in Twins /\ k \in 1 .. MaxPairs /\ s5[r] \in 0 .. MaxPairs
  BY <1>1, RequestsAreAbout DEF Auth!TypeOK
<1>3. k <= s5[r] /\ (k = s5[r] => s5[r] < MaxPairs)
  BY <1>1 DEF Auth!RotationsAreOfPairs
<1>4. k \in 1 .. s5[r] /\ s5[r] \in 1 .. MaxPairs
  BY <1>2, <1>3, ConnectionAssumption
<1>5. s6[r] = 1 .. s5[r] - 1
  BY <1>2, <1>4 DEF Auth!NewestTokenIsUnused
<1>6. ASSUME k \notin s6[r], s5' = [s5 EXCEPT ![r] = @ + 1], s6' = [s6 EXCEPT ![r] = @ \cup {k}]
      PROVE  /\ s5[r] < MaxPairs
             /\ s5' = [s5 EXCEPT ![r] = s5[r] + 1]
             /\ s6' = [s6 EXCEPT ![r] = 1 .. s5[r]]
  <2>1. k = s5[r]
    BY <1>4, <1>5, <1>6
  <2>2. s6[r] \cup {k} = 1 .. s5[r]
    BY <1>4, <1>5, <2>1
  <2> QED
    BY <1>3, <1>6, <2>1, <2>2
<1> HIDE DEF r, k
<1>7. \/ Auth!Goes(c, [at |-> "revoke", r |-> r]) /\ s8' = s8 \cup {r} /\ s5' = s5 /\ s6' = s6
      \/ /\ Auth!Goes(c, Auth!Idle) /\ s8' = s8
         /\ s5[r] < MaxPairs
         /\ s5' = [s5 EXCEPT ![r] = s5[r] + 1]
         /\ s6' = [s6 EXCEPT ![r] = 1 .. s5[r]]
      \/ Auth!Goes(c, Auth!Idle) /\ s8' = s8 /\ s5' = s5 /\ s6' = s6
  BY <1>1, <1>6
<1> QED
  BY <1>1, <1>2, <1>4, <1>7 DEF r, k

\* Every step keeps the types.
LEMMA AuthTypes ==
  ASSUME Auth!TypeOK, Auth!NewestTokenIsUnused, Auth!RotationsAreOfPairs,
         Auth!Next \/ UNCHANGED Auth!vars
  PROVE  Auth!TypeOK'
<1>1. /\ s1 \in [active : BOOLEAN, epoch : 0 .. MaxEpoch, signedIn : BOOLEAN]
      /\ s2 \in [Twins -> {"none", "pending", "approved", "denied", "expired"}]
      /\ s3 \in [Twins -> {"none", "live", "consumed", "revoked"}]
      /\ s4 \in [Twins -> {"none", "active", "ended"}]
      /\ s5 \in [Twins -> 0 .. MaxPairs]
      /\ s6 \in [Twins -> SUBSET (1 .. MaxPairs)]
      /\ s7 \in [Twins -> 0 .. MaxEpoch]
      /\ s8 \subseteq Twins
      /\ s9 \in [Calls -> Requests]
  BY DEF Auth!TypeOK, Requests
<1> DEFINE Types ==
      /\ s1' \in [active : BOOLEAN, epoch : 0 .. MaxEpoch, signedIn : BOOLEAN]
      /\ s2' \in [Twins -> {"none", "pending", "approved", "denied", "expired"}]
      /\ s3' \in [Twins -> {"none", "live", "consumed", "revoked"}]
      /\ s4' \in [Twins -> {"none", "active", "ended"}]
      /\ s5' \in [Twins -> 0 .. MaxPairs]
      /\ s6' \in [Twins -> SUBSET (1 .. MaxPairs)]
      /\ s7' \in [Twins -> 0 .. MaxEpoch]
      /\ s8' \subseteq Twins
      /\ s9' \in [Calls -> Requests]
<1>2. Types => Auth!TypeOK'
  BY DEF Auth!TypeOK, Requests
<1>3. Auth!Idle \in Requests
  BY DEF Requests
<1>4. ASSUME NEW r \in Twins, Auth!CreateRequest(r) PROVE Types
  BY <1>1, <1>4 DEF Auth!CreateRequest
<1>5. ASSUME NEW r \in Twins, Auth!Expire(r) PROVE Types
  BY <1>1, <1>5 DEF Auth!Expire
<1>6. ASSUME NEW r \in Twins, Auth!RevokeGrant(r) PROVE Types
  BY <1>1, <1>6, GrantEnds DEF Auth!RevokeGrant
<1>7. ASSUME NEW c \in Calls, Auth!Decide(c) PROVE Types
  <2>1. s9[c].r \in Twins /\ s9[c].session \in 0 .. MaxEpoch
    BY <1>7, RequestsAreAbout DEF Auth!Decide
  <2>2. s9' \in [Calls -> Requests]
    BY <1>3, <1>7, RequestGoes DEF Auth!Decide
  <2> QED
    BY <1>1, <1>7, <2>1, <2>2 DEF Auth!Decide
<1>8. ASSUME NEW c \in Calls, Auth!Recheck(c) PROVE Types
  <2>1. s9[c].r \in Twins
    BY <1>8, RequestsAreAbout DEF Auth!Recheck
  <2>2. s9' \in [Calls -> Requests]
    BY <1>3, <1>8, RequestGoes DEF Auth!Recheck
  <2>3. s4' \in [Twins -> {"none", "active", "ended"}]
    BY <1>1, <1>8, <2>1, GrantEnds DEF Auth!Recheck
  <2> QED
    BY <1>1, <1>8, <2>2, <2>3 DEF Auth!Recheck
<1>9. ASSUME NEW c \in Calls, Auth!Rotate(c) PROVE Types
  <2> DEFINE r == s9[c].r
  <2>1. /\ r \in Twins /\ s5[r] \in 1 .. MaxPairs
        /\ s1' = s1 /\ s2' = s2 /\ s3' = s3 /\ s4' = s4 /\ s7' = s7
        /\ Auth!Goes(c, [at |-> "revoke", r |-> r]) \/ Auth!Goes(c, Auth!Idle)
        /\ s8' \subseteq s8 \cup {r}
        /\ \/ s5' = s5 /\ s6' = s6
           \/ /\ s5[r] < MaxPairs
              /\ s5' = [s5 EXCEPT ![r] = s5[r] + 1]
              /\ s6' = [s6 EXCEPT ![r] = 1 .. s5[r]]
    BY <1>9, RotatesTheNewest
  <2>2. [at |-> "revoke", r |-> r] \in Requests
    BY <2>1 DEF Requests
  <2>3. s9' \in [Calls -> Requests]
    BY <1>3, <2>1, <2>2, RequestGoes
  <2> HIDE DEF r
  <2>4. ASSUME s5[r] < MaxPairs
        PROVE  s5[r] + 1 \in 0 .. MaxPairs /\ 1 .. s5[r] \in SUBSET (1 .. MaxPairs)
    BY <2>1, <2>4, ConnectionAssumption
  <2>5. s5' \in [Twins -> 0 .. MaxPairs] /\ s6' \in [Twins -> SUBSET (1 .. MaxPairs)]
    <3> DEFINE n == s5[r] + 1  S == 1 .. s5[r]
    <3>1. s5[r] < MaxPairs => n \in 0 .. MaxPairs /\ S \in SUBSET (1 .. MaxPairs)
      BY <2>4
    <3>2. \/ s5' = s5 /\ s6' = s6
          \/ s5[r] < MaxPairs /\ s5' = [s5 EXCEPT ![r] = n] /\ s6' = [s6 EXCEPT ![r] = S]
      BY <2>1
    <3> HIDE DEF n, S
    <3>3. r \in Twins /\ s5 \in [Twins -> 0 .. MaxPairs] /\ s6 \in [Twins -> SUBSET (1 .. MaxPairs)]
      BY <1>1, <2>1
    <3>4. CASE s5' = s5 /\ s6' = s6
      BY <3>3, <3>4
    <3>5. CASE s5[r] < MaxPairs /\ s5' = [s5 EXCEPT ![r] = n] /\ s6' = [s6 EXCEPT ![r] = S]
      <4>1. n \in 0 .. MaxPairs /\ S \in SUBSET (1 .. MaxPairs)
        BY <3>1, <3>5
      <4>2. s5' \in [Twins -> 0 .. MaxPairs]
        BY <3>3, <3>5, <4>1
      <4>3. s6' \in [Twins -> SUBSET (1 .. MaxPairs)]
        BY <3>3, <3>5, <4>1
      <4> QED
        BY <4>2, <4>3
    <3> QED
      BY <3>2, <3>4, <3>5
  <2> QED
    BY <1>1, <2>1, <2>3, <2>5
<1>10. ASSUME NEW c \in Calls, Auth!HandleRefreshReuse(c) PROVE Types
  <2>1. s9[c].r \in Twins
    BY <1>10, RequestsAreAbout DEF Auth!HandleRefreshReuse
  <2>2. s9' \in [Calls -> Requests]
    BY <1>3, <1>10, RequestGoes DEF Auth!HandleRefreshReuse
  <2> QED
    BY <1>1, <1>10, <2>1, <2>2, GrantEnds DEF Auth!HandleRefreshReuse
<1>11. ASSUME NEW c \in Calls, NEW r \in Twins, Auth!BeginDecide(c, r) PROVE Types
  <2>1. [at |-> "decide", r |-> r, session |-> s1.epoch] \in Requests
    BY <1>1 DEF Requests
  <2>2. s9' \in [Calls -> Requests]
    BY <1>11, <2>1, RequestGoes DEF Auth!BeginDecide
  <2> QED
    BY <1>1, <1>11, <2>2 DEF Auth!BeginDecide
<1>12. ASSUME NEW c \in Calls, NEW r \in Twins, Auth!Redeem(c, r) PROVE Types
  <2>1. [at |-> "recheck", r |-> r] \in Requests
    BY DEF Requests
  <2>2. s9' \in [Calls -> Requests]
    BY <1>1, <1>12, <2>1, RequestGoes DEF Auth!Redeem
  <2> QED
    BY <1>1, <1>12, <2>2, ConnectionAssumption DEF Auth!Redeem
<1>13. ASSUME NEW c \in Calls, NEW r \in Twins, Auth!Replay(c, r) PROVE Types
  BY <1>1, <1>13, GrantEnds DEF Auth!Replay
<1>14. ASSUME NEW c \in Calls, NEW r \in Twins, NEW k \in 1 .. MaxPairs, Auth!FindRefresh(c, r, k)
       PROVE  Types
  <2>1. [at |-> "revoke", r |-> r] \in Requests /\ [at |-> "rotate", r |-> r, token |-> k] \in Requests
    BY DEF Requests
  <2>2. s9' \in [Calls -> Requests]
    BY <1>14, <2>1, RequestGoes DEF Auth!FindRefresh
  <2> QED
    BY <1>1, <1>14, <2>2 DEF Auth!FindRefresh
<1>15. ASSUME Auth!RevokeCredentials PROVE Types
  <2>1. s1.epoch + 1 \in 0 .. MaxEpoch
    BY <1>1, <1>15, ConnectionAssumption DEF Auth!RevokeCredentials
  <2>2. s1' \in [active : BOOLEAN, epoch : 0 .. MaxEpoch, signedIn : BOOLEAN]
    BY <1>15, <2>1 DEF Auth!RevokeCredentials
  <2> QED
    BY <1>1, <1>15, <2>2 DEF Auth!RevokeCredentials, Auth!RevokeConnectorAuthority
<1>16. ASSUME Auth!Enable PROVE Types
  BY <1>1, <1>16 DEF Auth!Enable
<1>17. ASSUME Auth!SignIn PROVE Types
  BY <1>1, <1>17 DEF Auth!SignIn
<1>18. ASSUME UNCHANGED Auth!vars PROVE Types
  BY <1>1, <1>18 DEF Auth!vars
<1> QED
  BY <1>2, <1>4, <1>5, <1>6, <1>7, <1>8, <1>9, <1>10, <1>11, <1>12, <1>13, <1>14, <1>15, <1>16,
     <1>17, <1>18 DEF Auth!Next

\* What needs no thought: a step that ends connections, that misuses nothing and ends no
\* revocation, that moves no request and no code, that adds no pair and rotates nothing.
LEMMA AuthorityStays ==
  ASSUME Auth!AuthorityIsCurrent, s1' = s1, s3' = s3, s7' = s7,
         \A x \in Twins : s4'[x] = "active" => s4[x] = "active"
  PROVE  Auth!AuthorityIsCurrent'
BY DEF Auth!AuthorityIsCurrent

\* (The second of them.)
LEMMA MisuseStays ==
  ASSUME Auth!MisuseEndsTheGrant, s8' = s8,
         \A x \in s8 : s4'[x] = "active" => s4[x] = "active",
         \A d \in Calls : s9[d].at = "revoke" => s9'[d] = s9[d]
  PROVE  Auth!MisuseEndsTheGrant'
BY DEF Auth!MisuseEndsTheGrant

\* (The third.)
LEMMA CodesStay ==
  ASSUME Auth!ConnectionsComeFromCodes, s2' = s2, s3' = s3, s5' = s5, s8' = s8
  PROVE  Auth!ConnectionsComeFromCodes'
BY DEF Auth!ConnectionsComeFromCodes

\* (The fourth.)
LEMMA NewestStays ==
  ASSUME Auth!NewestTokenIsUnused, s5' = s5, s6' = s6
  PROVE  Auth!NewestTokenIsUnused'
BY DEF Auth!NewestTokenIsUnused

\* (The last.)
LEMMA RotationsStay ==
  ASSUME Auth!RotationsAreOfPairs, s5' = s5,
         \A d \in Calls : s9'[d].at = "rotate" => s9'[d] = s9[d]
  PROVE  Auth!RotationsAreOfPairs'
BY DEF Auth!RotationsAreOfPairs

\* Every step keeps what is true of connections, its types apart.
LEMMA AuthKeeps ==
  ASSUME Auth!IInv, Auth!Next \/ UNCHANGED Auth!vars
  PROVE  /\ Auth!ConnectionCapHolds' /\ Auth!AuthorityIsCurrent' /\ Auth!MisuseEndsTheGrant'
         /\ Auth!ConnectionsComeFromCodes' /\ Auth!NewestTokenIsUnused'
         /\ Auth!RotationsAreOfPairs'
<1>1. /\ Auth!TypeOK /\ Auth!ConnectionCapHolds /\ Auth!AuthorityIsCurrent
      /\ Auth!MisuseEndsTheGrant /\ Auth!ConnectionsComeFromCodes /\ Auth!NewestTokenIsUnused
      /\ Auth!RotationsAreOfPairs
  BY DEF Auth!IInv
<1>2. /\ s1 \in [active : BOOLEAN, epoch : 0 .. MaxEpoch, signedIn : BOOLEAN]
      /\ s2 \in [Twins -> {"none", "pending", "approved", "denied", "expired"}]
      /\ s3 \in [Twins -> {"none", "live", "consumed", "revoked"}]
      /\ s4 \in [Twins -> {"none", "active", "ended"}]
      /\ s5 \in [Twins -> 0 .. MaxPairs]
      /\ s6 \in [Twins -> SUBSET (1 .. MaxPairs)]
      /\ s7 \in [Twins -> 0 .. MaxEpoch]
      /\ s8 \subseteq Twins
  BY <1>1 DEF Auth!TypeOK
<1>3. Auth!Idle \in Requests /\ Auth!Idle.at = "idle"
  BY DEF Requests, Auth!Idle
<1> DEFINE Kept ==
      /\ Auth!ConnectionCapHolds' /\ Auth!AuthorityIsCurrent' /\ Auth!MisuseEndsTheGrant'
      /\ Auth!ConnectionsComeFromCodes' /\ Auth!NewestTokenIsUnused'
      /\ Auth!RotationsAreOfPairs'
<1>4. ASSUME NEW r \in Twins, Auth!CreateRequest(r) \/ Auth!Expire(r) PROVE Kept
  <2>1. /\ s1' = s1 /\ s3' = s3 /\ s4' = s4 /\ s5' = s5 /\ s6' = s6 /\ s7' = s7 /\ s8' = s8
        /\ s9' = s9
        /\ s2[r] \in {"none", "pending"}
        /\ \A x \in Twins : x # r => s2'[x] = s2[x]
    BY <1>2, <1>4 DEF Auth!CreateRequest, Auth!Expire
  <2>2. Auth!ConnectionsComeFromCodes'
    BY <1>1, <2>1 DEF Auth!ConnectionsComeFromCodes
  <2> QED
    BY <1>1, <2>1, <2>2, CapKept, AuthorityStays, MisuseStays, NewestStays, RotationsStay
<1>5. ASSUME NEW r \in Twins, Auth!RevokeGrant(r) PROVE Kept
  <2>1. \A x \in Twins : s4'[x] = "active" => s4[x] = "active"
    BY <1>1, <1>5, GrantEnds DEF Auth!RevokeGrant
  <2>2. /\ s1' = s1 /\ s2' = s2 /\ s3' = s3 /\ s5' = s5 /\ s6' = s6 /\ s7' = s7 /\ s8' = s8
        /\ s9' = s9
    BY <1>5 DEF Auth!RevokeGrant
  <2> QED
    BY <1>1, <1>2, <2>1, <2>2, CapKept, AuthorityStays, MisuseStays, CodesStay, NewestStays,
       RotationsStay
<1>6. ASSUME NEW c \in Calls, Auth!Decide(c) PROVE Kept
  <2> DEFINE r == s9[c].r
  <2>1. /\ r \in Twins /\ s9[c].at = "decide"
        /\ Auth!Goes(c, Auth!Idle)
        /\ s1' = s1 /\ s4' = s4 /\ s5' = s5 /\ s6' = s6 /\ s8' = s8
        /\ \/ /\ s1.active /\ s1.epoch = s9[c].session
              /\ s2[r] = "pending"
              /\ s2' = [s2 EXCEPT ![r] = "approved"]
              /\ s3' = [s3 EXCEPT ![r] = "live"]
              /\ s7' = [s7 EXCEPT ![r] = s9[c].session]
           \/ s2' = [s2 EXCEPT ![r] = "denied"] /\ s3' = s3 /\ s7' = s7
           \/ s2' = s2 /\ s3' = s3 /\ s7' = s7
    BY <1>1, <1>6, RequestsAreAbout DEF Auth!Decide, Auth!SessionHolds
  <2>2. s9'[c].at = "idle" /\ \A d \in Calls : d # c => s9'[d] = s9[d]
    BY <1>1, <1>3, <2>1, RequestGoes
  <2>3. Auth!AuthorityIsCurrent'
    BY <1>1, <1>2, <2>1 DEF Auth!AuthorityIsCurrent
  <2>4. Auth!ConnectionsComeFromCodes'
    BY <1>1, <1>2, <2>1 DEF Auth!ConnectionsComeFromCodes
  <2>5. Auth!MisuseEndsTheGrant' /\ Auth!RotationsAreOfPairs'
    BY <1>1, <2>1, <2>2, MisuseStays, RotationsStay
  <2> QED
    BY <1>1, <2>1, <2>3, <2>4, <2>5, CapKept, NewestStays
<1>7. ASSUME NEW c \in Calls, Auth!Recheck(c) PROVE Kept
  <2>1. /\ s9[c].r \in Twins /\ s9[c].at = "recheck" /\ Auth!Goes(c, Auth!Idle)
        /\ s1' = s1 /\ s2' = s2 /\ s3' = s3 /\ s5' = s5 /\ s6' = s6 /\ s7' = s7 /\ s8' = s8
        /\ s4' = s4 \/ Auth!EndGrant(s9[c].r)
    BY <1>1, <1>7, RequestsAreAbout DEF Auth!Recheck
  <2>2. s9'[c].at = "idle" /\ \A d \in Calls : d # c => s9'[d] = s9[d]
    BY <1>1, <1>3, <2>1, RequestGoes
  <2>3. \A x \in Twins : s4'[x] = "active" => s4[x] = "active"
    BY <1>1, <2>1, GrantEnds
  <2> QED
    BY <1>1, <1>2, <2>1, <2>2, <2>3, CapKept, AuthorityStays, MisuseStays, CodesStay,
       NewestStays, RotationsStay
<1>8. ASSUME NEW c \in Calls, Auth!Rotate(c) PROVE Kept
  <2> DEFINE r == s9[c].r
  <2>1. /\ r \in Twins /\ s5[r] \in 1 .. MaxPairs
        /\ s1' = s1 /\ s2' = s2 /\ s3' = s3 /\ s4' = s4 /\ s7' = s7
        /\ \/ /\ Auth!Goes(c, [at |-> "revoke", r |-> r])
              /\ s8' = s8 \cup {r} /\ s5' = s5 /\ s6' = s6
           \/ /\ Auth!Goes(c, Auth!Idle) /\ s8' = s8
              /\ s5[r] < MaxPairs
              /\ s5' = [s5 EXCEPT ![r] = s5[r] + 1]
              /\ s6' = [s6 EXCEPT ![r] = 1 .. s5[r]]
           \/ Auth!Goes(c, Auth!Idle) /\ s8' = s8 /\ s5' = s5 /\ s6' = s6
    BY <1>1, <1>8, RotatesTheNewest
  <2>2. s9[c].at = "rotate"
    BY <1>8 DEF Auth!Rotate
  <2>3. [at |-> "revoke", r |-> r] \in Requests
    BY <2>1 DEF Requests
  <2>4. /\ \A d \in Calls : d # c => s9'[d] = s9[d]
        /\ \/ s8' = s8 \cup {r} /\ s9'[c] = [at |-> "revoke", r |-> r]
           \/ s8' = s8 /\ s9'[c] = Auth!Idle
    BY <1>1, <1>3, <2>1, <2>3, RequestGoes
  <2> HIDE DEF r
  <2>5. Auth!MisuseEndsTheGrant'
    BY <1>1, <2>1, <2>2, <2>4 DEF Auth!MisuseEndsTheGrant
  <2>6. s3[r] = "consumed" /\ s5[r] > 0
    BY <1>1, <1>2, <2>1 DEF Auth!ConnectionsComeFromCodes
  <2>7. \A x \in Twins : x # r => s5'[x] = s5[x] /\ s6'[x] = s6[x]
    BY <1>2, <2>1
  <2>8. Auth!ConnectionsComeFromCodes'
    BY <1>1, <2>1, <2>4, <2>6, <2>7 DEF Auth!ConnectionsComeFromCodes
  <2>9. Auth!NewestTokenIsUnused'
    <3>1. CASE s5' = s5 /\ s6' = s6
      BY <1>1, <3>1, NewestStays
    <3>2. CASE s5' = [s5 EXCEPT ![r] = s5[r] + 1] /\ s6' = [s6 EXCEPT ![r] = 1 .. s5[r]]
      <4>1. s5'[r] = s5[r] + 1 /\ s6'[r] = 1 .. s5[r]
        BY <1>2, <2>1, <3>2
      <4>2. s5'[r] # 0 /\ s6'[r] = 1 .. s5'[r] - 1
        BY <2>1, <4>1
      <4> QED
        BY <1>1, <2>7, <4>2 DEF Auth!NewestTokenIsUnused
    <3> QED
      BY <2>1, <3>1, <3>2
  <2>10. Auth!RotationsAreOfPairs'
    <3>1. s9'[c].at # "rotate"
      BY <1>3, <2>4
    <3>2. CASE s5' = s5
      BY <1>1, <2>4, <3>1, <3>2, RotationsStay
    <3>3. CASE s5[r] < MaxPairs /\ s5' = [s5 EXCEPT ![r] = s5[r] + 1]
      <4> SUFFICES ASSUME NEW d \in Calls, s9'[d].at = "rotate"
                   PROVE  /\ s9'[d].token <= s5'[s9'[d].r]
                          /\ s9'[d].token = s5'[s9'[d].r] => s5'[s9'[d].r] < MaxPairs
        BY DEF Auth!RotationsAreOfPairs
      <4>1. s9'[d] = s9[d]
        BY <2>4, <3>1
      <4> DEFINE x == s9[d].r  k == s9[d].token
      <4>2. /\ x \in Twins /\ k \in 1 .. MaxPairs
            /\ k <= s5[x] /\ (k = s5[x] => s5[x] < MaxPairs)
        BY <1>1, <4>1, RequestsAreAbout DEF Auth!RotationsAreOfPairs
      <4>3. s5[x] \in 0 .. MaxPairs /\ s5'[x] = IF x = r THEN s5[x] + 1 ELSE s5[x]
        BY <1>2, <2>1, <3>3, <4>2
      <4> HIDE DEF x, k
      <4>4. k <= s5'[x] /\ (k = s5'[x] => s5'[x] < MaxPairs)
        BY <4>2, <4>3, ConnectionAssumption
      <4> QED
        BY <4>1, <4>4 DEF x, k
    <3> QED
      BY <2>1, <3>2, <3>3
  <2> QED
    BY <1>1, <2>1, <2>5, <2>8, <2>9, <2>10, CapKept, AuthorityStays
<1>9. ASSUME NEW c \in Calls, Auth!HandleRefreshReuse(c) PROVE Kept
  <2>1. /\ s9[c].r \in Twins /\ s9[c].at = "revoke"
        /\ Auth!Goes(c, Auth!Idle) /\ Auth!EndGrant(s9[c].r)
        /\ s1' = s1 /\ s2' = s2 /\ s3' = s3 /\ s5' = s5 /\ s6' = s6 /\ s7' = s7 /\ s8' = s8
    BY <1>1, <1>9, RequestsAreAbout DEF Auth!HandleRefreshReuse
  <2>2. s9'[c].at = "idle" /\ \A d \in Calls : d # c => s9'[d] = s9[d]
    BY <1>1, <1>3, <2>1, RequestGoes
  <2>3. /\ s4'[s9[c].r] # "active"
        /\ \A x \in Twins : x # s9[c].r => s4'[x] = s4[x]
    BY <1>1, <2>1, GrantEnds
  <2>4. Auth!MisuseEndsTheGrant'
    BY <1>1, <1>2, <2>1, <2>2, <2>3 DEF Auth!MisuseEndsTheGrant
  <2> QED
    BY <1>1, <2>1, <2>2, <2>3, <2>4, CapKept, AuthorityStays, CodesStay, NewestStays,
       RotationsStay
<1>10. ASSUME NEW c \in Calls, NEW r \in Twins, Auth!BeginDecide(c, r) PROVE Kept
  <2>1. /\ s9[c] = Auth!Idle
        /\ Auth!Goes(c, [at |-> "decide", r |-> r, session |-> s1.epoch])
        /\ s1' = s1 /\ s2' = s2 /\ s3' = s3 /\ s4' = s4 /\ s5' = s5 /\ s6' = s6 /\ s7' = s7
        /\ s8' = s8
    BY <1>10 DEF Auth!BeginDecide
  <2>2. [at |-> "decide", r |-> r, session |-> s1.epoch] \in Requests
    BY <1>2 DEF Requests
  <2>3. s9'[c].at = "decide" /\ \A d \in Calls : d # c => s9'[d] = s9[d]
    BY <1>1, <2>1, <2>2, RequestGoes
  <2> QED
    BY <1>1, <1>3, <2>1, <2>3, CapKept, AuthorityStays, MisuseStays, CodesStay, NewestStays,
       RotationsStay
<1>11. ASSUME NEW c \in Calls, NEW r \in Twins, Auth!Redeem(c, r) PROVE Kept
  <2>1. /\ s9[c] = Auth!Idle /\ s3[r] = "live" /\ s3' = [s3 EXCEPT ![r] = "consumed"]
        /\ s1' = s1 /\ s2' = s2 /\ s6' = s6 /\ s7' = s7 /\ s8' = s8
        /\ \/ /\ s1.active /\ Auth!CountActiveGrants < MaxActive
              /\ s4' = [s4 EXCEPT ![r] = "active"] /\ s5' = [s5 EXCEPT ![r] = 1]
              /\ Auth!Goes(c, [at |-> "recheck", r |-> r])
           \/ s4' = s4 /\ s5' = s5 /\ s9' = s9
    BY <1>11 DEF Auth!Redeem, Auth!RoomLeft
  <2>2. [at |-> "recheck", r |-> r] \in Requests
    BY DEF Requests
  <2>3. s9'[c].at \in {"idle", "recheck"} /\ \A d \in Calls : d # c => s9'[d] = s9[d]
    BY <1>1, <1>3, <2>1, <2>2, RequestGoes
  <2>4. s5[r] = 0 /\ r \notin s8 /\ s6[r] = {}
    BY <1>1, <1>2, <2>1 DEF Auth!ConnectionsComeFromCodes, Auth!NewestTokenIsUnused
  <2>5. \A x \in Twins : x # r => s3'[x] = s3[x] /\ s4'[x] = s4[x] /\ s5'[x] = s5[x]
    BY <1>2, <2>1
  <2>6. Auth!ConnectionCapHolds'
    <3>1. \A x \in Twins : s4'[x] = "active" => s4[x] = "active" \/ x = r
      BY <2>5
    <3> QED
      BY <1>1, <2>1, <3>1, CapKept
  <2>7. Auth!AuthorityIsCurrent'
    BY <1>1, <1>2, <2>1, <2>5 DEF Auth!AuthorityIsCurrent
  <2>8. Auth!MisuseEndsTheGrant'
    BY <1>1, <1>2, <1>3, <2>1, <2>3, <2>4, <2>5, MisuseStays
  <2>9. Auth!ConnectionsComeFromCodes'
    BY <1>1, <1>2, <2>1, <2>4, <2>5 DEF Auth!ConnectionsComeFromCodes
  <2>10. s5'[r] \in {0, 1}
    BY <1>2, <2>1, <2>4
  <2>11. Auth!NewestTokenIsUnused'
    <3>1. 1 .. 1 - 1 = {}
      OBVIOUS
    <3>2. s6'[r] = {} /\ (s5'[r] # 0 => s6'[r] = 1 .. s5'[r] - 1)
      BY <2>1, <2>4, <2>10, <3>1
    <3> QED
      BY <1>1, <2>1, <2>5, <3>2 DEF Auth!NewestTokenIsUnused
  <2>12. Auth!RotationsAreOfPairs'
    <3> SUFFICES ASSUME NEW d \in Calls, s9'[d].at = "rotate"
                 PROVE  /\ s9'[d].token <= s5'[s9'[d].r]
                        /\ s9'[d].token = s5'[s9'[d].r] => s5'[s9'[d].r] < MaxPairs
      BY DEF Auth!RotationsAreOfPairs
    <3>1. s9'[d] = s9[d]
      BY <2>3
    <3>2. s9[d].r \in Twins /\ s9[d].token \in 1 .. MaxPairs /\ s9[d].token <= s5[s9[d].r]
      BY <1>1, <3>1, RequestsAreAbout DEF Auth!RotationsAreOfPairs
    <3>3. s9[d].r # r
      BY <2>4, <3>2
    <3> QED
      BY <1>1, <2>5, <3>1, <3>2, <3>3 DEF Auth!RotationsAreOfPairs
  <2> QED
    BY <2>6, <2>7, <2>8, <2>9, <2>11, <2>12
<1>12. ASSUME NEW c \in Calls, NEW r \in Twins, Auth!Replay(c, r) PROVE Kept
  <2>1. /\ s3[r] = "consumed" /\ s8' = s8 \cup {r} /\ Auth!EndGrant(r)
        /\ s1' = s1 /\ s2' = s2 /\ s3' = s3 /\ s5' = s5 /\ s6' = s6 /\ s7' = s7 /\ s9' = s9
    BY <1>12 DEF Auth!Replay
  <2>2. s4'[r] # "active" /\ \A x \in Twins : x # r => s4'[x] = s4[x]
    BY <1>1, <2>1, GrantEnds
  <2>3. Auth!MisuseEndsTheGrant'
    BY <1>1, <1>2, <2>1, <2>2 DEF Auth!MisuseEndsTheGrant
  <2>4. s2[r] \notin {"none", "pending"}
    BY <1>1, <2>1 DEF Auth!ConnectionsComeFromCodes
  <2>5. Auth!ConnectionsComeFromCodes'
    BY <1>1, <2>1, <2>4 DEF Auth!ConnectionsComeFromCodes
  <2> QED
    BY <1>1, <2>1, <2>2, <2>3, <2>5, CapKept, AuthorityStays, NewestStays, RotationsStay
<1>13. ASSUME NEW c \in Calls, NEW r \in Twins, NEW k \in 1 .. MaxPairs, Auth!FindRefresh(c, r, k)
       PROVE  Kept
  <2>1. /\ s9[c] = Auth!Idle /\ s5[r] > 0 /\ k <= s5[r]
        /\ s1' = s1 /\ s2' = s2 /\ s3' = s3 /\ s4' = s4 /\ s5' = s5 /\ s6' = s6 /\ s7' = s7
        /\ \/ s8' = s8 \cup {r} /\ Auth!Goes(c, [at |-> "revoke", r |-> r])
           \/ /\ s5[r] < MaxPairs /\ s8' = s8
              /\ Auth!Goes(c, [at |-> "rotate", r |-> r, token |-> k])
    BY <1>13 DEF Auth!FindRefresh, Auth!Returned
  <2>2. [at |-> "revoke", r |-> r] \in Requests /\ [at |-> "rotate", r |-> r, token |-> k] \in Requests
    BY DEF Requests
  <2>3. /\ \A d \in Calls : d # c => s9'[d] = s9[d]
        /\ \/ s8' = s8 \cup {r} /\ s9'[c] = [at |-> "revoke", r |-> r]
           \/ /\ s5[r] < MaxPairs /\ s8' = s8
              /\ s9'[c] = [at |-> "rotate", r |-> r, token |-> k]
    BY <1>1, <2>1, <2>2, RequestGoes
  <2>4. Auth!MisuseEndsTheGrant'
    BY <1>1, <1>3, <2>1, <2>3 DEF Auth!MisuseEndsTheGrant
  <2>5. Auth!ConnectionsComeFromCodes'
    BY <1>1, <2>1, <2>3 DEF Auth!ConnectionsComeFromCodes
  <2>6. Auth!RotationsAreOfPairs'
    BY <1>1, <2>1, <2>3 DEF Auth!RotationsAreOfPairs
  <2> QED
    BY <1>1, <2>1, <2>4, <2>5, <2>6, CapKept, AuthorityStays, NewestStays
<1>14. ASSUME Auth!RevokeCredentials PROVE Kept
  <2>1. /\ \A x \in Twins : s4'[x] # "active" /\ s3'[x] # "live"
        /\ \A x \in Twins : s3[x] # "live" => s3'[x] = s3[x]
        /\ s2' = s2 /\ s5' = s5 /\ s6' = s6 /\ s7' = s7 /\ s8' = s8 /\ s9' = s9
    BY <1>2, <1>14 DEF Auth!RevokeCredentials, Auth!RevokeConnectorAuthority
  <2>2. Auth!AuthorityIsCurrent'
    BY <2>1 DEF Auth!AuthorityIsCurrent
  <2>3. Auth!ConnectionsComeFromCodes'
    BY <1>1, <2>1 DEF Auth!ConnectionsComeFromCodes
  <2> QED
    BY <1>1, <1>2, <2>1, <2>2, <2>3, CapKept, MisuseStays, NewestStays, RotationsStay
<1>15. ASSUME Auth!Enable \/ Auth!SignIn PROVE Kept
  <2>1. /\ s1'.epoch = s1.epoch /\ (s1.active => s1'.active)
        /\ s2' = s2 /\ s3' = s3 /\ s4' = s4 /\ s5' = s5 /\ s6' = s6 /\ s7' = s7 /\ s8' = s8
        /\ s9' = s9
    BY <1>2, <1>15 DEF Auth!Enable, Auth!SignIn
  <2>2. Auth!AuthorityIsCurrent'
    BY <1>1, <2>1 DEF Auth!AuthorityIsCurrent
  <2> QED
    BY <1>1, <2>1, <2>2, CapKept, MisuseStays, CodesStay, NewestStays, RotationsStay
<1>16. ASSUME UNCHANGED Auth!vars PROVE Kept
  BY <1>1, <1>16, CapKept, AuthorityStays, MisuseStays, CodesStay, NewestStays, RotationsStay
     DEF Auth!vars
<1> QED
  BY <1>4, <1>5, <1>6, <1>7, <1>8, <1>9, <1>10, <1>11, <1>12, <1>13, <1>14, <1>15, <1>16
     DEF Auth!Next

\* Nothing is connected at the start.
LEMMA AuthStarts ==
  ASSUME Auth!Init
  PROVE  Auth!IInv
<1>1. /\ s1 = [active |-> TRUE, epoch |-> 0, signedIn |-> TRUE]
      /\ s2 = [r \in Twins |-> "none"] /\ s3 = [r \in Twins |-> "none"]
      /\ s4 = [r \in Twins |-> "none"] /\ s5 = [r \in Twins |-> 0]
      /\ s6 = [r \in Twins |-> {}] /\ s7 = [r \in Twins |-> 0] /\ s8 = {}
      /\ s9 = [c \in Calls |-> Auth!Idle]
  BY DEF Auth!Init
<1>2. 0 \in 0 .. MaxEpoch /\ 0 \in 0 .. MaxPairs
  BY ConnectionAssumption
<1>3. Auth!TypeOK
  BY <1>1, <1>2 DEF Auth!TypeOK
<1>4. Auth!ConnectionCapHolds
  <2>1. {r \in Twins : s4[r] = "active"} = {}
    BY <1>1
  <2> QED
    BY <2>1, AuthCounts, FS_EmptySet, ConnectionAssumption
       DEF Auth!ConnectionCapHolds, Auth!CountActiveGrants
<1>5. Auth!AuthorityIsCurrent /\ Auth!MisuseEndsTheGrant /\ Auth!ConnectionsComeFromCodes
      /\ Auth!NewestTokenIsUnused
  BY <1>1 DEF Auth!AuthorityIsCurrent, Auth!MisuseEndsTheGrant, Auth!ConnectionsComeFromCodes,
              Auth!NewestTokenIsUnused
<1>6. Auth!RotationsAreOfPairs
  BY <1>1 DEF Auth!RotationsAreOfPairs, Auth!Idle
<1> QED
  BY <1>3, <1>4, <1>5, <1>6 DEF Auth!IInv

\* One pair of a connection is unused: its newest.
LEMMA NewestIsOne ==
  ASSUME Auth!TypeOK, Auth!NewestTokenIsUnused
  PROVE  Auth!OneRefreshTokenIsUnused
<1> SUFFICES ASSUME NEW r \in Twins, s5[r] > 0
             PROVE  Auth!Cardinality((1 .. s5[r]) \ s6[r]) = 1
  BY DEF Auth!OneRefreshTokenIsUnused
<1>1. s5[r] \in 1 .. MaxPairs
  BY ConnectionAssumption DEF Auth!TypeOK
<1>2. s6[r] = 1 .. s5[r] - 1
  BY <1>1 DEF Auth!NewestTokenIsUnused
<1> DEFINE n == s5[r]
<1>3. n \in Nat
  BY <1>1, ConnectionAssumption
<1>4. n >= 1 /\ s6[r] = 1 .. n - 1
  BY <1>1, <1>2
<1> HIDE DEF n
<1>5. (1 .. n) \ (1 .. n - 1) = {n}
  BY <1>3, <1>4
<1> QED
  BY <1>4, <1>5, AuthCounts, FS_Singleton DEF n

\* What holds of connections in every state.
LEMMA AuthInvHolds == Spec => [](part = "oauth" => Auth!IInv)
<1>1. Init => (part = "oauth" => Auth!IInv)
  BY AuthStarts DEF Init
<1>2. (part = "oauth" => Auth!IInv) /\ [Next]_vars => (part = "oauth" => Auth!IInv)'
  <2> SUFFICES ASSUME part = "oauth" => Auth!IInv, [Next]_vars, part' = "oauth"
               PROVE  Auth!IInv'
    OBVIOUS
  <2>1. part = "oauth"
    BY PartStays
  <2>2. Auth!IInv /\ (Auth!Next \/ UNCHANGED Auth!vars)
    BY <2>1, AuthSteps
  <2>3. Auth!TypeOK'
    BY <2>2, AuthTypes DEF Auth!IInv
  <2> QED
    BY <2>2, <2>3, AuthKeeps DEF Auth!IInv
<1> QED
  BY <1>1, <1>2, PTL DEF Spec

\* A connection exists by a code its account consented to with the credentials it still
\* has, no account has more of them than the limit however many codes are redeemed at
\* once, its refresh tokens form one line of which the newest alone is unused, and a code
\* or token presented twice ends it (service.ts decide, token, handleRefreshReuse;
\* postgres-store.ts exchangeCode, rotateRefreshToken).
THEOREM ConnectionsStayCurrent == Spec => []ConnectionsAreCurrent
<1>1. (part = "oauth" => Auth!IInv) => ConnectionsAreCurrent
  BY NewestIsOne DEF Auth!IInv, ConnectionsAreCurrent
<1> QED
  BY <1>1, AuthInvHolds, PTL

---------------------------------------------------------------------------
(* Rows that are only added.                                               *)

\* What a sequence is as a function.
LEMMA SequenceIsFunction ==
  ASSUME NEW S, NEW q \in Seq(S)
  PROVE  /\ Len(q) \in Nat /\ DOMAIN q = 1 .. Len(q) /\ q \in [1 .. Len(q) -> S]
         /\ \A i \in DOMAIN q : q[i] \in S
OBVIOUS

\* A row that is added comes last and leaves the others as they are.
LEMMA RowIsAdded ==
  ASSUME NEW S, NEW q \in Seq(S), NEW x \in S
  PROVE  /\ Append(q, x) \in Seq(S) /\ Len(Append(q, x)) = Len(q) + 1
         /\ DOMAIN Append(q, x) = DOMAIN q \cup {Len(q) + 1} /\ Len(q) + 1 \notin DOMAIN q
         /\ \A i \in DOMAIN q : Append(q, x)[i] = q[i]
         /\ Append(q, x)[Len(q) + 1] = x
OBVIOUS

\* Rows that are rewritten are as many as before.
LEMMA RowsAreRewritten ==
  ASSUME NEW S, NEW q \in Seq(S), NEW T, NEW g \in [DOMAIN q -> T]
  PROVE  g \in Seq(T) /\ Len(g) = Len(q) /\ DOMAIN g = DOMAIN q
OBVIOUS

---------------------------------------------------------------------------
(* Sign-in.                                                                *)

\* While accounts sign in, a step is one of theirs or changes nothing of theirs.
LEMMA SignSteps ==
  ASSUME part = "signin", [Next]_vars
  PROVE  Sign!Next \/ UNCHANGED Sign!vars
BY DEF Next, vars, Sign!vars, AccountAction, Administration, SigningIn, DeviceLoggingIn,
       Authorization, Governance, Locking, Mailing

\* What a request may be doing, and what a session is.
LoginCalls ==
  [at : {"idle", "login", "enter", "challenge", "manage", "replace", "insert"}]
  \cup [at : {"prove"}, challenge : Nat]
  \cup [at : {"claim"}, challenge : Nat, f : Factors, n : 1 .. MaxStep + 1]
  \cup [at : {"proved", "verified"}, challenge : Nat, proof : Sign!Proofs]
  \cup [at : {"actor"}, verified : BOOLEAN]
  \cup [at : {"others", "enable"}, f : Factors, n : 1 .. MaxStep + 1]

Sessions == [live : BOOLEAN, proof : {Sign!ByPassword} \cup Sign!Proofs, challenge : Nat]

FactorRows ==
  [status : {"none", "pending", "enabled", "disabled"}, last : 0 .. MaxStep + 1, enabled : Nat]

\* The types of sign-in, with these names.
LEMMA SignTypeOK ==
  Sign!TypeOK <=>
    /\ s1 \in 1 .. MaxStep
    /\ s2 \in [Factors -> FactorRows]
    /\ s3 \in Seq({"stored", "used", "gone"})
    /\ s4 \in Seq({"open", "expired", "used"}) /\ Len(s4) <= MaxChallenges
    /\ s5 \in Seq(Sessions)
    /\ s6 \in [Calls -> LoginCalls]
BY DEF Sign!TypeOK, FactorRows, Sessions, LoginCalls

\* (The same of the next state.)
LEMMA SignTypeOKNext ==
  Sign!TypeOK' <=>
    /\ s1' \in 1 .. MaxStep
    /\ s2' \in [Factors -> FactorRows]
    /\ s3' \in Seq({"stored", "used", "gone"})
    /\ s4' \in Seq({"open", "expired", "used"}) /\ Len(s4') <= MaxChallenges
    /\ s5' \in Seq(Sessions)
    /\ s6' \in [Calls -> LoginCalls]
BY DEF Sign!TypeOK, FactorRows, Sessions, LoginCalls

\* A request that goes on, and the others stay.
LEMMA LoginGoes ==
  ASSUME s6 \in [Calls -> LoginCalls], NEW c \in Calls, NEW to \in LoginCalls, Sign!Goto(c, to)
  PROVE  /\ s6' \in [Calls -> LoginCalls]
         /\ s6'[c] = to
         /\ \A d \in Calls : d # c => s6'[d] = s6[d]
BY DEF Sign!Goto

\* What a request has learnt.
LEMMA LoginsHave ==
  ASSUME NEW r \in LoginCalls
  PROVE  /\ r.at \in {"prove", "claim", "proved", "verified"} => r.challenge \in Nat
         /\ r.at \in {"claim", "others", "enable"} => r.f \in Factors /\ r.n \in 1 .. MaxStep + 1
         /\ r.at \in {"proved", "verified"} => r.proof \in Sign!Proofs
         /\ r.at = "proved" =>
              /\ [r EXCEPT !.at = "verified"] \in LoginCalls
              /\ [r EXCEPT !.at = "verified"].at = "verified"
              /\ [r EXCEPT !.at = "verified"].challenge = r.challenge
              /\ [r EXCEPT !.at = "verified"].proof = r.proof
         /\ r.at = "others" =>
              /\ [r EXCEPT !.at = "enable"] \in LoginCalls
              /\ [r EXCEPT !.at = "enable"].at = "enable"
BY DEF LoginCalls

\* A request that is done, or that moves on to a plain place.
LEMMA PlainPlaces ==
  /\ \A a \in {"idle", "login", "enter", "challenge", "manage", "replace", "insert"} :
       [at |-> a] \in LoginCalls /\ [at |-> a].at = a
  /\ Sign!Idle = [at |-> "idle"]
BY DEF LoginCalls, Sign!Idle

\* What is proved with.
LEMMA ProofsAreOfTwoKinds ==
  ASSUME NEW p \in Sign!Proofs
  PROVE  /\ \/ p[1] = "code" /\ p[2] \in Factors /\ p[3] \in Nat /\ p[4] \in Nat
            \/ p[1] = "recovery" /\ p[2] \in Nat
         /\ p # Sign!ByPassword
BY DEF Sign!Proofs, Sign!ByPassword

\* What is spent remains so when counters only go up, enabling counts, and no recovery
\* code is stored again.
LEMMA SpentStays ==
  ASSUME s2 \in [Factors -> FactorRows], s2' \in [Factors -> FactorRows],
         \A f \in Factors :
           \/ s2'[f].enabled = s2[f].enabled /\ s2[f].last <= s2'[f].last
           \/ s2'[f].enabled > s2[f].enabled,
         \A b \in DOMAIN s3 : b \in DOMAIN s3' /\ (s3[b] # "stored" => s3'[b] # "stored"),
         NEW p \in Sign!Proofs, Sign!Spent(p)
  PROVE  Sign!Spent(p)'
<1>1. CASE p[1] = "code"
  <2>1. p[1] # "recovery" /\ p[2] \in Factors /\ p[3] \in Nat /\ p[4] \in Nat
    BY <1>1, ProofsAreOfTwoKinds
  <2> DEFINE f == p[2]
  <2>2. /\ s2[f].enabled \in Nat /\ s2'[f].enabled \in Nat
        /\ s2[f].last \in 0 .. MaxStep + 1 /\ s2'[f].last \in 0 .. MaxStep + 1
    BY <2>1 DEF FactorRows
  <2>3. p[3] <= s2[f].enabled /\ (p[3] = s2[f].enabled => p[4] <= s2[f].last)
    BY <1>1, <2>1 DEF Sign!Spent
  <2>4. \/ s2'[f].enabled = s2[f].enabled /\ s2[f].last <= s2'[f].last
        \/ s2'[f].enabled > s2[f].enabled
    BY <2>1
  <2>5. p[3] <= s2'[f].enabled /\ (p[3] = s2'[f].enabled => p[4] <= s2'[f].last)
    <3> HIDE DEF f
    <3> QED
      BY <2>1, <2>2, <2>3, <2>4, SignInAssumption
  <2> QED
    BY <1>1, <2>5 DEF Sign!Spent
<1>2. CASE p[1] # "code"
  <2>1. p[1] = "recovery" /\ p[2] \in DOMAIN s3 /\ s3[p[2]] # "stored"
    BY <1>2 DEF Sign!Spent
  <2> QED
    BY <2>1 DEF Sign!Spent
<1> QED
  BY <1>1, <1>2

\* (And when nothing of them changes.)
LEMMA SpentUnchanged ==
  ASSUME s2' = s2, s3' = s3
  PROVE  \A p : Sign!Spent(p) => Sign!Spent(p)'
BY DEF Sign!Spent

\* What must not get worse for proofs.
Spending ==
  /\ \A p \in Sign!Proofs : Sign!Spent(p) => Sign!Spent(p)'
  /\ \A n \in DOMAIN s4 : n \in DOMAIN s4' /\ (s4[n] = "used" => s4'[n] = "used")

\* Sessions that only end.
SessionsStay ==
  /\ DOMAIN s5' = DOMAIN s5
  /\ \A x \in DOMAIN s5 : s5'[x].proof = s5[x].proof /\ s5'[x].challenge = s5[x].challenge

\* A request that has nothing proven, and its challenge from the rows.
Unproven(d) ==
  /\ s6'[d].at \notin {"proved", "verified"}
  /\ s6'[d].at \in {"prove", "claim"} => s6'[d].challenge \in DOMAIN s4

ProofsHold == Sign!CodesAreUsedOnce /\ Sign!ProofsAreSpent /\ Sign!ProofsAreApart

\* Sessions have a proof of their type.
LEMMA SessionsHave ==
  ASSUME Sign!TypeOK, NEW x \in DOMAIN s5, s5[x].proof # Sign!ByPassword
  PROVE  s5[x].proof \in Sign!Proofs
<1>1. s5[x] \in Sessions
  BY SignTypeOK, SequenceIsFunction
<1> QED
  BY <1>1 DEF Sessions

\* That proofs are spent in the next state, a proof at a time.
LEMMA ProofsAreSpentNext ==
  ASSUME \A c \in Calls :
           /\ \A p : Sign!Proven(c)' /\ p = s6'[c].proof => Sign!Spent(p)'
           /\ Sign!At(c, "verified")' => s4'[s6'[c].challenge] = "used"
           /\ s6'[c].at \in {"prove", "claim"} \/ Sign!Proven(c)' =>
                s6'[c].challenge \in DOMAIN s4',
         \A x \in DOMAIN s5' :
           IF s5'[x].proof = Sign!ByPassword THEN s5'[x].challenge = 0
           ELSE /\ \A p : p = s5'[x].proof => Sign!Spent(p)'
                /\ s5'[x].challenge \in DOMAIN s4'
                /\ s4'[s5'[x].challenge] = "used"
  PROVE  Sign!ProofsAreSpent'
BY DEF Sign!ProofsAreSpent, Sign!Spent, Sign!ByPassword

\* A step that proves nothing and begins no session keeps what holds of proofs.
LEMMA NothingIsProven ==
  ASSUME Sign!TypeOK, ProofsHold, Spending, SessionsStay,
         \A d \in Calls : s6'[d] = s6[d] \/ Unproven(d)
  PROVE  ProofsHold'
<1>1. Sign!CodesAreUsedOnce'
  BY DEF ProofsHold, SessionsStay, Sign!CodesAreUsedOnce
<1>2. ASSUME NEW c \in Calls
      PROVE  /\ \A p : Sign!Proven(c)' /\ p = s6'[c].proof => Sign!Spent(p)'
             /\ Sign!At(c, "verified")' => s4'[s6'[c].challenge] = "used"
             /\ s6'[c].at \in {"prove", "claim"} \/ Sign!Proven(c)' =>
                  s6'[c].challenge \in DOMAIN s4'
  <2>1. CASE Unproven(c)
    BY <2>1 DEF Unproven, Spending, Sign!Proven, Sign!At
  <2>2. CASE s6'[c] = s6[c]
    <3>1. s6[c].at \in {"proved", "verified"} => s6[c].proof \in Sign!Proofs
      BY SignTypeOK, LoginsHave
    <3>2. /\ s6[c].at \in {"proved", "verified"} => Sign!Spent(s6[c].proof)
          /\ s6[c].at = "verified" => s4[s6[c].challenge] = "used"
          /\ s6[c].at \in {"prove", "claim", "proved", "verified"} =>
               s6[c].challenge \in DOMAIN s4
      BY DEF ProofsHold, Sign!ProofsAreSpent, Sign!Proven, Sign!At
    <3>3. \A p : s6[c].at \in {"proved", "verified"} /\ p = s6[c].proof => Sign!Spent(p)'
      BY <3>1, <3>2 DEF Spending
    <3>4. \A p : Sign!Proven(c)' /\ p = s6'[c].proof => Sign!Spent(p)'
      BY <2>2, <3>3 DEF Sign!Proven
    <3>5. /\ s6[c].at = "verified" => s4'[s6[c].challenge] = "used"
          /\ s6[c].at \in {"prove", "claim", "proved", "verified"} =>
               s6[c].challenge \in DOMAIN s4'
      BY <3>2 DEF Spending
    <3> QED
      BY <2>2, <3>4, <3>5 DEF Sign!Proven, Sign!At
  <2> QED
    BY <2>1, <2>2
<1>3. ASSUME NEW x \in DOMAIN s5'
      PROVE  IF s5'[x].proof = Sign!ByPassword THEN s5'[x].challenge = 0
             ELSE /\ \A p : p = s5'[x].proof => Sign!Spent(p)'
                  /\ s5'[x].challenge \in DOMAIN s4'
                  /\ s4'[s5'[x].challenge] = "used"
  <2>1. x \in DOMAIN s5 /\ s5'[x].proof = s5[x].proof /\ s5'[x].challenge = s5[x].challenge
    BY DEF SessionsStay
  <2>2. IF s5[x].proof = Sign!ByPassword THEN s5[x].challenge = 0
        ELSE /\ Sign!Spent(s5[x].proof)
             /\ s5[x].challenge \in DOMAIN s4
             /\ s4[s5[x].challenge] = "used"
    BY <2>1 DEF ProofsHold, Sign!ProofsAreSpent
  <2>3. s5[x].proof # Sign!ByPassword => s5[x].proof \in Sign!Proofs
    BY <2>1, SessionsHave
  <2>4. s5[x].proof # Sign!ByPassword => \A p : p = s5[x].proof => Sign!Spent(p)'
    BY <2>2, <2>3 DEF Spending
  <2> QED
    BY <2>1, <2>2, <2>4 DEF Spending
<1>4. Sign!ProofsAreSpent'
  BY <1>2, <1>3, ProofsAreSpentNext
<1>5. Sign!ProofsAreApart'
  BY DEF ProofsHold, SessionsStay, Unproven, Sign!ProofsAreApart, Sign!Proven, Sign!At
<1> QED
  BY <1>1, <1>4, <1>5 DEF ProofsHold

\* What proofs hold, a request and a session at a time.
LEMMA WhatProofsHold ==
  ASSUME Sign!TypeOK, ProofsHold
  PROVE  /\ \A c \in Calls : s6[c].at \in {"proved", "verified"} =>
              /\ s6[c].proof \in Sign!Proofs /\ Sign!Spent(s6[c].proof)
              /\ s6[c].challenge \in DOMAIN s4 /\ s6[c].challenge # 0
         /\ \A c \in Calls : s6[c].at = "verified" => s4[s6[c].challenge] = "used"
         /\ \A c \in Calls : s6[c].at \in {"prove", "claim"} => s6[c].challenge \in DOMAIN s4
         /\ \A x \in DOMAIN s5 :
              /\ s5[x].proof = Sign!ByPassword => s5[x].challenge = 0
              /\ s5[x].proof # Sign!ByPassword =>
                   /\ s5[x].proof \in Sign!Proofs /\ Sign!Spent(s5[x].proof)
                   /\ s5[x].challenge \in DOMAIN s4 /\ s5[x].challenge # 0
                   /\ s4[s5[x].challenge] = "used"
<1>1. 0 \notin DOMAIN s4
  BY SignTypeOK, SequenceIsFunction
<1>2. \A c \in Calls : s6[c].at \in {"proved", "verified"} => s6[c].proof \in Sign!Proofs
  BY SignTypeOK, LoginsHave
<1> QED
  BY <1>1, <1>2, SessionsHave DEF ProofsHold, Sign!ProofsAreSpent, Sign!Proven, Sign!At

\* A session begins by password, or with what its request has proven.
LEMMA SessionBegins ==
  ASSUME Sign!TypeOK, ProofsHold, NEW c \in Calls, NEW entry \in Sessions,
         s5' = Append(s5, entry), s2' = s2, s3' = s3, s4' = s4,
         s6'[c].at = "idle", \A d \in Calls : d # c => s6'[d] = s6[d],
         \/ entry.proof = Sign!ByPassword /\ entry.challenge = 0
         \/ /\ s6[c].at = "verified"
            /\ entry.proof = s6[c].proof /\ entry.challenge = s6[c].challenge
  PROVE  ProofsHold'
<1> DEFINE new == Len(s5) + 1
<1>1. /\ DOMAIN s5' = DOMAIN s5 \cup {new} /\ new \notin DOMAIN s5
      /\ \A x \in DOMAIN s5 : s5'[x] = s5[x]
      /\ s5'[new] = entry
  BY SignTypeOK, RowIsAdded
<1> HIDE DEF new
<1>2. \A p : Sign!Spent(p) <=> Sign!Spent(p)'
  BY DEF Sign!Spent
<1>3. Sign!CodesAreUsedOnce'
  <2> SUFFICES ASSUME NEW x \in DOMAIN s5', NEW y \in DOMAIN s5', x # y,
                      s5'[x].proof # Sign!ByPassword
               PROVE  s5'[x].proof # s5'[y].proof /\ s5'[x].challenge # s5'[y].challenge
    BY DEF Sign!CodesAreUsedOnce, Sign!ByPassword
  <2>1. CASE x # new /\ y # new
    BY <1>1, <2>1 DEF ProofsHold, Sign!CodesAreUsedOnce
  <2>2. CASE y = new
    <3>1. x \in DOMAIN s5 /\ s5'[x] = s5[x] /\ s5'[y] = entry
      BY <1>1, <2>2
    <3> QED
      BY <3>1, WhatProofsHold DEF ProofsHold, Sign!ProofsAreApart, Sign!Proven, Sign!At
  <2>3. CASE x = new
    <3>1. y \in DOMAIN s5 /\ s5'[y] = s5[y] /\ s5'[x] = entry
      BY <1>1, <2>3
    <3> QED
      BY <3>1, WhatProofsHold DEF ProofsHold, Sign!ProofsAreApart, Sign!Proven, Sign!At
  <2> QED
    BY <2>1, <2>2, <2>3
<1>4. Sign!ProofsAreSpent'
  <2>1. ASSUME NEW d \in Calls
        PROVE  /\ \A p : Sign!Proven(d)' /\ p = s6'[d].proof => Sign!Spent(p)'
               /\ Sign!At(d, "verified")' => s4'[s6'[d].challenge] = "used"
               /\ s6'[d].at \in {"prove", "claim"} \/ Sign!Proven(d)' =>
                    s6'[d].challenge \in DOMAIN s4'
    BY <1>2, WhatProofsHold DEF Sign!Proven, Sign!At
  <2>2. ASSUME NEW x \in DOMAIN s5'
        PROVE  IF s5'[x].proof = Sign!ByPassword THEN s5'[x].challenge = 0
               ELSE /\ \A p : p = s5'[x].proof => Sign!Spent(p)'
                    /\ s5'[x].challenge \in DOMAIN s4'
                    /\ s4'[s5'[x].challenge] = "used"
    <3>1. \/ s5'[x].proof = Sign!ByPassword /\ s5'[x].challenge = 0
          \/ /\ s5'[x].proof # Sign!ByPassword /\ Sign!Spent(s5'[x].proof)
             /\ s5'[x].challenge \in DOMAIN s4 /\ s4[s5'[x].challenge] = "used"
      <4>1. CASE x # new
        BY <1>1, <4>1, WhatProofsHold
      <4>2. CASE x = new
        <5>1. s5'[x] = entry
          BY <1>1, <4>2
        <5> QED
          BY <5>1, WhatProofsHold, ProofsAreOfTwoKinds
      <4> QED
        BY <4>1, <4>2
    <3>2. \A p : Sign!Spent(p) => Sign!Spent(p)'
      BY <1>2
    <3> QED
      BY <3>1, <3>2
  <2> QED
    BY <2>1, <2>2, ProofsAreSpentNext
<1>5. Sign!ProofsAreApart'
  <2>1. \A d \in Calls : Sign!Proven(d)' => d # c /\ s6'[d] = s6[d]
    BY DEF Sign!Proven
  <2>2. ASSUME NEW d \in Calls, NEW x \in DOMAIN s5'
        PROVE  /\ Sign!Proven(d)' => s6'[d].proof # s5'[x].proof
               /\ Sign!At(d, "verified")' => s6'[d].challenge # s5'[x].challenge
    <3>1. CASE x # new
      BY <1>1, <3>1 DEF ProofsHold, Sign!ProofsAreApart, Sign!Proven, Sign!At
    <3>2. CASE x = new
      <4>1. s5'[x] = entry
        BY <1>1, <3>2
      <4>2. s6[d].at \in {"proved", "verified"} => s6[d].proof # Sign!ByPassword
        BY WhatProofsHold, ProofsAreOfTwoKinds
      <4> QED
        BY <4>1, <4>2, WhatProofsHold DEF ProofsHold, Sign!ProofsAreApart, Sign!Proven, Sign!At
    <3> QED
      BY <3>1, <3>2
  <2> QED
    BY <2>1, <2>2 DEF ProofsHold, Sign!ProofsAreApart, Sign!Proven, Sign!At
<1> QED
  BY <1>3, <1>4, <1>5 DEF ProofsHold

\* What was not spent is accepted once: nobody holds it yet.
LEMMA ProofIsAccepted ==
  ASSUME Sign!TypeOK, ProofsHold, Spending, NEW c \in Calls, NEW p \in Sign!Proofs,
         ~Sign!Spent(p), Sign!Spent(p)', s4' = s4, s5' = s5,
         s6'[c].at = "proved", s6'[c].proof = p, s6'[c].challenge \in DOMAIN s4,
         \A d \in Calls : d # c => s6'[d] = s6[d]
  PROVE  ProofsHold'
<1>1. Sign!CodesAreUsedOnce'
  BY DEF ProofsHold, Sign!CodesAreUsedOnce
<1>2. Sign!ProofsAreSpent'
  <2>1. ASSUME NEW d \in Calls
        PROVE  /\ \A q : Sign!Proven(d)' /\ q = s6'[d].proof => Sign!Spent(q)'
               /\ Sign!At(d, "verified")' => s4'[s6'[d].challenge] = "used"
               /\ s6'[d].at \in {"prove", "claim"} \/ Sign!Proven(d)' =>
                    s6'[d].challenge \in DOMAIN s4'
    BY WhatProofsHold DEF Sign!Proven, Sign!At, Spending
  <2>2. ASSUME NEW x \in DOMAIN s5'
        PROVE  IF s5'[x].proof = Sign!ByPassword THEN s5'[x].challenge = 0
               ELSE /\ \A q : q = s5'[x].proof => Sign!Spent(q)'
                    /\ s5'[x].challenge \in DOMAIN s4'
                    /\ s4'[s5'[x].challenge] = "used"
    BY WhatProofsHold DEF Spending
  <2> QED
    BY <2>1, <2>2, ProofsAreSpentNext
<1>3. \A d \in Calls : s6[d].at \in {"proved", "verified"} => s6[d].proof # p
  BY WhatProofsHold
<1>4. \A x \in DOMAIN s5 : s5[x].proof # p
  BY WhatProofsHold, ProofsAreOfTwoKinds
<1>5. Sign!ProofsAreApart'
  BY <1>3, <1>4 DEF ProofsHold, Sign!ProofsAreApart, Sign!Proven, Sign!At
<1> QED
  BY <1>1, <1>2, <1>5 DEF ProofsHold

\* A challenge that was not used is claimed once.
LEMMA ChallengeIsClaimed ==
  ASSUME Sign!TypeOK, ProofsHold, NEW c \in Calls, s2' = s2, s3' = s3, s5' = s5,
         s6[c].at = "proved", s4[s6[c].challenge] # "used",
         s4' = [s4 EXCEPT ![s6[c].challenge] = "used"],
         s6'[c].at = "verified", s6'[c].proof = s6[c].proof,
         s6'[c].challenge = s6[c].challenge,
         \A d \in Calls : d # c => s6'[d] = s6[d]
  PROVE  ProofsHold'
<1>1. \A p : Sign!Spent(p) <=> Sign!Spent(p)'
  BY DEF Sign!Spent
<1>2. s6[c].challenge \in DOMAIN s4
  BY WhatProofsHold
<1>3. /\ DOMAIN s4' = DOMAIN s4 /\ s4'[s6[c].challenge] = "used"
      /\ \A n \in DOMAIN s4 : s4[n] = "used" => s4'[n] = "used"
  BY <1>2, SignTypeOK, SequenceIsFunction
<1>4. Sign!CodesAreUsedOnce'
  BY DEF ProofsHold, Sign!CodesAreUsedOnce
<1>5. Sign!ProofsAreSpent'
  <2>1. ASSUME NEW d \in Calls
        PROVE  /\ \A q : Sign!Proven(d)' /\ q = s6'[d].proof => Sign!Spent(q)'
               /\ Sign!At(d, "verified")' => s4'[s6'[d].challenge] = "used"
               /\ s6'[d].at \in {"prove", "claim"} \/ Sign!Proven(d)' =>
                    s6'[d].challenge \in DOMAIN s4'
    BY <1>1, <1>2, <1>3, WhatProofsHold DEF Sign!Proven, Sign!At
  <2>2. ASSUME NEW x \in DOMAIN s5'
        PROVE  IF s5'[x].proof = Sign!ByPassword THEN s5'[x].challenge = 0
               ELSE /\ \A q : q = s5'[x].proof => Sign!Spent(q)'
                    /\ s5'[x].challenge \in DOMAIN s4'
                    /\ s4'[s5'[x].challenge] = "used"
    BY <1>1, <1>3, WhatProofsHold
  <2> QED
    BY <2>1, <2>2, ProofsAreSpentNext
<1>6. \A d \in Calls : s6[d].at = "verified" => s6[d].challenge # s6[c].challenge
  BY WhatProofsHold
<1>7. \A x \in DOMAIN s5 : s5[x].challenge # s6[c].challenge
  BY WhatProofsHold
<1>8. Sign!ProofsAreApart'
  BY <1>6, <1>7 DEF ProofsHold, Sign!ProofsAreApart, Sign!Proven, Sign!At
<1> QED
  BY <1>4, <1>5, <1>8 DEF ProofsHold

\* Every step keeps the types of sign-in, and what holds of proofs.
LEMMA SigningInKept ==
  ASSUME Sign!IInv, Sign!Next \/ UNCHANGED Sign!vars
  PROVE  Sign!IInv'
<1>1. Sign!TypeOK /\ ProofsHold
  BY DEF Sign!IInv, ProofsHold
<1>2. /\ s1 \in 1 .. MaxStep /\ s2 \in [Factors -> FactorRows]
      /\ s3 \in Seq({"stored", "used", "gone"})
      /\ s4 \in Seq({"open", "expired", "used"}) /\ Len(s4) <= MaxChallenges
      /\ s5 \in Seq(Sessions) /\ s6 \in [Calls -> LoginCalls]
  BY <1>1, SignTypeOK
<1>3. /\ DOMAIN s3 = 1 .. Len(s3) /\ DOMAIN s4 = 1 .. Len(s4) /\ DOMAIN s5 = 1 .. Len(s5)
      /\ Len(s3) \in Nat /\ Len(s4) \in Nat /\ Len(s5) \in Nat
  BY <1>2, SequenceIsFunction
<1>4. Sign!TypeOK' /\ ProofsHold' => Sign!IInv'
  BY DEF Sign!IInv, ProofsHold
<1> DEFINE Same == s2' = s2 /\ s3' = s3 /\ s4' = s4 /\ s5' = s5
           Plain == {"idle", "login", "enter", "challenge", "manage", "replace", "insert"}
\* A request that only reads, and has proven nothing after.
<1>5. ASSUME NEW c \in Calls, NEW to \in LoginCalls, s1' = s1, Same, Sign!Goto(c, to),
             to.at \notin {"proved", "verified"},
             to.at \in {"prove", "claim"} => to.challenge \in DOMAIN s4
      PROVE  Sign!IInv'
  <2>1. s6' \in [Calls -> LoginCalls] /\ s6'[c] = to /\ \A d \in Calls : d # c => s6'[d] = s6[d]
    BY <1>2, <1>5, LoginGoes
  <2>2. Sign!TypeOK'
    BY <1>2, <1>5, <2>1, SignTypeOKNext
  <2>3. Spending /\ SessionsStay
    BY <1>2, <1>5, SpentUnchanged DEF Spending, SessionsStay
  <2>4. \A d \in Calls : s6'[d] = s6[d] \/ Unproven(d)
    BY <1>5, <2>1 DEF Unproven
  <2> QED
    BY <1>1, <1>4, <2>2, <2>3, <2>4, NothingIsProven
<1>6. ASSUME NEW c \in Calls, NEW a \in Plain, s1' = s1, Same, Sign!Goto(c, [at |-> a])
      PROVE  Sign!IInv'
  BY <1>5, <1>6, PlainPlaces
<1>7. ASSUME NEW c \in Calls, Sign!ReadAccount(c) PROVE Sign!IInv'
  BY <1>6, <1>7 DEF Sign!ReadAccount, Sign!rows
<1>8. ASSUME NEW c \in Calls, Sign!CountFactors(c) PROVE Sign!IInv'
  BY <1>6, <1>8 DEF Sign!CountFactors, Sign!rows
<1>9. ASSUME NEW c \in Calls, Sign!Die(c) PROVE Sign!IInv'
  BY <1>6, <1>9, PlainPlaces DEF Sign!Die, Sign!Done, Sign!rows
<1>10. ASSUME NEW c \in Calls, Sign!MayManage(c) PROVE Sign!IInv'
  BY <1>6, <1>10 DEF Sign!MayManage, Sign!rows
<1>11. ASSUME NEW c \in Calls, Sign!FindChallenge(c) PROVE Sign!IInv'
  <2>1. PICK n \in DOMAIN s4 : Sign!Goto(c, [at |-> "prove", challenge |-> n])
    BY <1>11 DEF Sign!FindChallenge
  <2>2. [at |-> "prove", challenge |-> n] \in LoginCalls
    BY <1>3 DEF LoginCalls
  <2> QED
    BY <1>5, <1>11, <2>1, <2>2 DEF Sign!FindChallenge, Sign!rows
<1>12. ASSUME NEW c \in Calls, Sign!ListFactors(c) PROVE Sign!IInv'
  <2> DEFINE n == s6[c].challenge
  <2>1. PICK f \in Factors, k \in Sign!Window :
          Sign!Goto(c, [at |-> "claim", challenge |-> n, f |-> f, n |-> k])
    BY <1>12 DEF Sign!ListFactors, Sign!Enabled
  <2>2. k \in 1 .. MaxStep + 1
    BY <1>2, SignInAssumption DEF Sign!Window
  <2>3. n \in DOMAIN s4
    BY <1>1, <1>12, WhatProofsHold DEF Sign!ListFactors, Sign!At
  <2>4. [at |-> "claim", challenge |-> n, f |-> f, n |-> k] \in LoginCalls
    BY <1>3, <2>2, <2>3 DEF LoginCalls
  <2> QED
    BY <1>5, <1>12, <2>1, <2>3, <2>4 DEF Sign!ListFactors, Sign!rows
<1>13. ASSUME NEW c \in Calls, Sign!Authenticate(c) PROVE Sign!IInv'
  <2>1. PICK x \in DOMAIN s5 :
          Sign!Goto(c, [at |-> "actor", verified |-> s5[x].proof # Sign!ByPassword])
    BY <1>13 DEF Sign!Authenticate
  <2>2. [at |-> "actor", verified |-> s5[x].proof # Sign!ByPassword] \in LoginCalls
    BY DEF LoginCalls
  <2> QED
    BY <1>5, <1>13, <2>1, <2>2 DEF Sign!Authenticate, Sign!rows
<1>14. ASSUME NEW c \in Calls, Sign!FindPending(c) PROVE Sign!IInv'
  <2>1. PICK f \in Factors, k \in Sign!Window :
          Sign!Goto(c, [at |-> "others", f |-> f, n |-> k])
    BY <1>14 DEF Sign!FindPending
  <2>2. k \in 1 .. MaxStep + 1
    BY <1>2, SignInAssumption DEF Sign!Window
  <2>3. [at |-> "others", f |-> f, n |-> k] \in LoginCalls
    BY <2>2 DEF LoginCalls
  <2> QED
    BY <1>5, <1>14, <2>1, <2>3 DEF Sign!FindPending, Sign!rows
\* Sessions and challenges begin.
<1>15. ASSUME NEW c \in Calls, Sign!CreateSession(c) PROVE Sign!IInv'
  <2> DEFINE entry == [live |-> TRUE, proof |-> Sign!ByPassword, challenge |-> 0]
  <2>1. entry \in Sessions /\ entry.proof = Sign!ByPassword /\ entry.challenge = 0
    BY DEF Sessions
  <2>2. /\ s5' = Append(s5, entry) /\ Sign!Goto(c, [at |-> "idle"])
        /\ s1' = s1 /\ s2' = s2 /\ s3' = s3 /\ s4' = s4
    BY <1>15, PlainPlaces DEF Sign!CreateSession, Sign!AddSession, Sign!Done
  <2>3. /\ s6' \in [Calls -> LoginCalls] /\ s6'[c].at = "idle"
        /\ \A d \in Calls : d # c => s6'[d] = s6[d]
    BY <1>2, <2>2, LoginGoes, PlainPlaces
  <2> HIDE DEF entry
  <2>4. Sign!TypeOK'
    BY <1>2, <2>1, <2>2, <2>3, RowIsAdded, SignTypeOKNext
  <2> QED
    BY <1>1, <1>4, <2>1, <2>2, <2>3, <2>4, SessionBegins
<1>16. ASSUME NEW c \in Calls, Sign!CreateVerifiedSession(c) PROVE Sign!IInv'
  <2> DEFINE entry == [live |-> TRUE, proof |-> s6[c].proof, challenge |-> s6[c].challenge]
  <2>1. s6[c].at = "verified" /\ s6[c].proof \in Sign!Proofs /\ s6[c].challenge \in Nat
    BY <1>2, <1>16, LoginsHave DEF Sign!CreateVerifiedSession, Sign!At
  <2>2. /\ entry \in Sessions
        /\ entry.proof = s6[c].proof /\ entry.challenge = s6[c].challenge
    BY <2>1 DEF Sessions
  <2>3. /\ s5' = Append(s5, entry) /\ Sign!Goto(c, [at |-> "idle"])
        /\ s1' = s1 /\ s2' = s2 /\ s3' = s3 /\ s4' = s4
    BY <1>16, PlainPlaces DEF Sign!CreateVerifiedSession, Sign!AddSession, Sign!Done
  <2>4. /\ s6' \in [Calls -> LoginCalls] /\ s6'[c].at = "idle"
        /\ \A d \in Calls : d # c => s6'[d] = s6[d]
    BY <1>2, <2>3, LoginGoes, PlainPlaces
  <2> HIDE DEF entry
  <2>5. Sign!TypeOK'
    BY <1>2, <2>2, <2>3, <2>4, RowIsAdded, SignTypeOKNext
  <2> QED
    BY <1>1, <1>4, <2>1, <2>2, <2>3, <2>4, <2>5, SessionBegins
<1>17. ASSUME NEW c \in Calls, Sign!CreateChallenge(c) PROVE Sign!IInv'
  <2>1. /\ Len(s4) < MaxChallenges /\ s4' = Append(s4, "open") /\ Sign!Goto(c, [at |-> "idle"])
        /\ s1' = s1 /\ s2' = s2 /\ s3' = s3 /\ s5' = s5
    BY <1>17, PlainPlaces DEF Sign!CreateChallenge, Sign!Done
  <2>2. /\ s6' \in [Calls -> LoginCalls] /\ s6'[c].at = "idle"
        /\ \A d \in Calls : d # c => s6'[d] = s6[d]
    BY <1>2, <2>1, LoginGoes, PlainPlaces
  <2>3. /\ s4' \in Seq({"open", "expired", "used"}) /\ Len(s4') = Len(s4) + 1
        /\ \A n \in DOMAIN s4 : n \in DOMAIN s4' /\ s4'[n] = s4[n]
    BY <1>2, <2>1, RowIsAdded
  <2>4. Sign!TypeOK'
    BY <1>2, <1>3, <2>1, <2>2, <2>3, SignTypeOKNext, SignInAssumption
  <2>5. Spending /\ SessionsStay
    BY <2>1, <2>3, SpentUnchanged DEF Spending, SessionsStay
  <2>6. \A d \in Calls : s6'[d] = s6[d] \/ Unproven(d)
    BY <2>2 DEF Unproven
  <2> QED
    BY <1>1, <1>4, <2>4, <2>5, <2>6, NothingIsProven
\* Proofs are accepted and challenges claimed.
<1>18. ASSUME NEW c \in Calls, Sign!ClaimCounter(c) PROVE Sign!IInv'
  <2>0. PICK f, n, e, p :
          /\ f = s6[c].f /\ n = s6[c].n /\ e = s2[f].enabled
          /\ p = <<"code", f, e, n>>
    OBVIOUS
  <2> DEFINE to == [at |-> "proved", challenge |-> s6[c].challenge, proof |-> p]
  <2>1. /\ s6[c].at = "claim" /\ f \in Factors /\ n \in 1 .. MaxStep + 1
        /\ s6[c].challenge \in DOMAIN s4 /\ s6[c].challenge \in Nat
    BY <1>1, <1>2, <1>18, <2>0, LoginsHave, WhatProofsHold DEF Sign!ClaimCounter, Sign!At
  <2>2. s1' = s1 /\ s3' = s3 /\ s4' = s4 /\ s5' = s5
    BY <1>18 DEF Sign!ClaimCounter
  <2>3. CASE s2' = s2 /\ Sign!Done(c)
    BY <1>6, <2>2, <2>3, PlainPlaces DEF Sign!Done
  <2>4. CASE s2[f].last < n /\ s2' = [s2 EXCEPT ![f].last = n] /\ Sign!Goto(c, to)
    <3>1. s2[f] \in FactorRows /\ e \in Nat /\ n \in 0 .. MaxStep + 1
      BY <1>2, <2>0, <2>1, SignInAssumption DEF FactorRows
    <3>2. p \in Sign!Proofs
      BY <2>0, <2>1, <3>1, SignInAssumption DEF Sign!Proofs
    <3>3. to \in LoginCalls /\ to.at = "proved" /\ to.proof = p /\ to.challenge = s6[c].challenge
      BY <2>1, <3>2 DEF LoginCalls
    <3>4. /\ s6' \in [Calls -> LoginCalls] /\ s6'[c] = to
          /\ \A d \in Calls : d # c => s6'[d] = s6[d]
      BY <1>2, <2>4, <3>3, LoginGoes
    <3>5. s2' \in [Factors -> FactorRows]
      BY <1>2, <2>1, <2>4, <3>1 DEF FactorRows
    <3>6. /\ s2'[f].enabled = e /\ s2'[f].last = n
          /\ \A g \in Factors : s2'[g].enabled = s2[g].enabled /\ (g # f => s2'[g] = s2[g])
      BY <1>2, <2>0, <2>1, <2>4 DEF FactorRows
    <3>7. p[1] = "code" /\ p[2] = f /\ p[3] = e /\ p[4] = n
      BY <2>0
    <3>8. \A g \in Factors : s2'[g].enabled = s2[g].enabled /\ s2[g].last <= s2'[g].last
      <4> SUFFICES ASSUME NEW g \in Factors
                   PROVE  s2'[g].enabled = s2[g].enabled /\ s2[g].last <= s2'[g].last
        OBVIOUS
      <4>1. s2[g].last \in 0 .. MaxStep + 1
        BY <1>2 DEF FactorRows
      <4> QED
        BY <2>1, <2>4, <3>6, <4>1, SignInAssumption
    <3> HIDE DEF to
    <3>9. ~Sign!Spent(p)
      <4>1. s2[f].last \in 0 .. MaxStep + 1
        BY <1>2, <2>1 DEF FactorRows
      <4> QED
        BY <2>0, <2>1, <2>4, <3>7, <4>1, SignInAssumption DEF Sign!Spent
    <3>10. Sign!Spent(p)'
      BY <2>1, <3>1, <3>6, <3>7, SignInAssumption DEF Sign!Spent
    <3>11. Sign!TypeOK'
      BY <1>2, <2>2, <3>4, <3>5, SignTypeOKNext
    <3>12. Spending
      BY <1>2, <2>2, <3>5, <3>8, SpentStays DEF Spending
    <3> QED
      BY <1>1, <1>4, <2>1, <2>2, <3>2, <3>3, <3>4, <3>9, <3>10, <3>11, <3>12, ProofIsAccepted
  <2> QED
    BY <1>18, <2>0, <2>3, <2>4 DEF Sign!ClaimCounter, Sign!NotUsed
<1>19. ASSUME NEW c \in Calls, Sign!ConsumeRecoveryCode(c) PROVE Sign!IInv'
  <2>1. PICK b \in DOMAIN s3 :
          /\ s3[b] = "stored" /\ s3' = [s3 EXCEPT ![b] = "used"]
          /\ Sign!Goto(c, [at |-> "proved", challenge |-> s6[c].challenge,
                           proof |-> <<"recovery", b>>])
    BY <1>19 DEF Sign!ConsumeRecoveryCode, Sign!Consumable
  <2> DEFINE p == <<"recovery", b>>
             to == [at |-> "proved", challenge |-> s6[c].challenge, proof |-> p]
  <2>2. /\ s1' = s1 /\ s2' = s2 /\ s4' = s4 /\ s5' = s5
        /\ s6[c].challenge \in DOMAIN s4 /\ s6[c].challenge \in Nat
    BY <1>1, <1>3, <1>19, WhatProofsHold DEF Sign!ConsumeRecoveryCode, Sign!At
  <2>3. p \in Sign!Proofs /\ p[1] = "recovery" /\ p[2] = b
    BY <1>3 DEF Sign!Proofs
  <2>4. to \in LoginCalls /\ to.at = "proved" /\ to.proof = p /\ to.challenge = s6[c].challenge
    BY <2>2, <2>3 DEF LoginCalls
  <2>5. s6' \in [Calls -> LoginCalls] /\ s6'[c] = to /\ \A d \in Calls : d # c => s6'[d] = s6[d]
    BY <1>2, <2>1, <2>4, LoginGoes
  <2>6. /\ s3' \in Seq({"stored", "used", "gone"}) /\ DOMAIN s3' = DOMAIN s3
        /\ s3'[b] = "used" /\ \A x \in DOMAIN s3 : x # b => s3'[x] = s3[x]
    BY <1>2, <1>3, <2>1
  <2> HIDE DEF p, to
  <2>7. ~Sign!Spent(p) /\ Sign!Spent(p)'
    BY <2>1, <2>3, <2>6 DEF Sign!Spent, p
  <2>8. Sign!TypeOK'
    BY <1>2, <2>2, <2>5, <2>6, SignTypeOKNext
  <2>9. \A f \in Factors : s2'[f].enabled = s2[f].enabled /\ s2[f].last <= s2'[f].last
    <3> SUFFICES ASSUME NEW f \in Factors PROVE s2[f].last <= s2[f].last
      BY <2>2
    <3> QED
      BY <1>2, SignInAssumption DEF FactorRows
  <2>10. Spending
    BY <1>2, <2>2, <2>6, <2>9, SpentStays DEF Spending
  <2> QED
    BY <1>1, <1>4, <2>2, <2>3, <2>4, <2>5, <2>7, <2>8, <2>10, ProofIsAccepted
<1>20. ASSUME NEW c \in Calls, Sign!ClaimChallenge(c) PROVE Sign!IInv'
  <2> DEFINE n == s6[c].challenge  to == [s6[c] EXCEPT !.at = "verified"]
  <2>1. /\ s6[c].at = "proved" /\ n \in DOMAIN s4
        /\ s1' = s1 /\ s2' = s2 /\ s3' = s3 /\ s5' = s5
    BY <1>1, <1>20, WhatProofsHold DEF Sign!ClaimChallenge, Sign!At
  <2>2. CASE s4' = s4 /\ Sign!Done(c)
    BY <1>6, <2>1, <2>2, PlainPlaces DEF Sign!Done
  <2>3. CASE s4[n] # "used" /\ s4' = [s4 EXCEPT ![n] = "used"] /\ Sign!Goto(c, to)
    <3>1. /\ to \in LoginCalls /\ to.at = "verified" /\ to.proof = s6[c].proof
          /\ to.challenge = s6[c].challenge
      BY <1>2, <2>1, LoginsHave
    <3> HIDE DEF to
    <3>2. s6' \in [Calls -> LoginCalls] /\ s6'[c] = to /\ \A d \in Calls : d # c => s6'[d] = s6[d]
      BY <1>2, <2>3, <3>1, LoginGoes
    <3>3. s4' \in Seq({"open", "expired", "used"}) /\ Len(s4') = Len(s4)
      BY <1>2, <2>1, <2>3
    <3>4. Sign!TypeOK'
      BY <1>2, <2>1, <3>2, <3>3, SignTypeOKNext
    <3> QED
      BY <1>1, <1>4, <2>1, <2>3, <3>1, <3>2, <3>4, ChallengeIsClaimed
  <2> QED
    BY <1>20, <2>2, <2>3 DEF Sign!ClaimChallenge, Sign!Markable
\* Factors and recovery codes are managed: counters stay, or the factor is enabled anew.
<1>21. ASSUME s2' \in [Factors -> FactorRows],
              \A f \in Factors :
                s2'[f].enabled = s2[f].enabled /\ s2'[f].last = s2[f].last
       PROVE  \A f \in Factors :
                \/ s2'[f].enabled = s2[f].enabled /\ s2[f].last <= s2'[f].last
                \/ s2'[f].enabled > s2[f].enabled
  <2> SUFFICES ASSUME NEW f \in Factors PROVE s2[f].last <= s2[f].last
    BY <1>21
  <2> QED
    BY <1>2, SignInAssumption DEF FactorRows
<1>22. ASSUME NEW c \in Calls, Sign!StartEnrollment(c) PROVE Sign!IInv'
  <2>1. PICK f \in Factors : s2' = [s2 EXCEPT ![f].status = "pending"]
    BY <1>22 DEF Sign!StartEnrollment
  <2>2. /\ Sign!Goto(c, [at |-> "idle"])
        /\ s1' = s1 /\ s3' = s3 /\ s4' = s4 /\ s5' = s5
    BY <1>22, PlainPlaces DEF Sign!StartEnrollment, Sign!Done
  <2>3. /\ s6' \in [Calls -> LoginCalls] /\ s6'[c].at = "idle"
        /\ \A d \in Calls : d # c => s6'[d] = s6[d]
    BY <1>2, <2>2, LoginGoes, PlainPlaces
  <2>4. /\ s2' \in [Factors -> FactorRows]
        /\ \A g \in Factors : s2'[g].enabled = s2[g].enabled /\ s2'[g].last = s2[g].last
    BY <1>2, <2>1 DEF FactorRows
  <2>5. Sign!TypeOK'
    BY <1>2, <2>2, <2>3, <2>4, SignTypeOKNext
  <2>6. Spending /\ SessionsStay
    BY <1>2, <1>21, <2>2, <2>4, SpentStays DEF Spending, SessionsStay
  <2>7. \A d \in Calls : s6'[d] = s6[d] \/ Unproven(d)
    BY <2>3 DEF Unproven
  <2> QED
    BY <1>1, <1>4, <2>5, <2>6, <2>7, NothingIsProven
<1>23. ASSUME NEW fs, s2' = Sign!Disabled(fs)
       PROVE  /\ s2' \in [Factors -> FactorRows]
              /\ \A g \in Factors : s2'[g].enabled = s2[g].enabled /\ s2'[g].last = s2[g].last
  BY <1>2, <1>23 DEF Sign!Disabled, FactorRows
<1>24. ASSUME NEW c \in Calls, Sign!DisableOthers(c) PROVE Sign!IInv'
  <2> DEFINE to == [s6[c] EXCEPT !.at = "enable"]
  <2>1. /\ s6[c].at = "others" /\ Sign!Goto(c, to)
        /\ s1' = s1 /\ s3' = s3 /\ s4' = s4 /\ s5' = s5
    BY <1>24 DEF Sign!DisableOthers, Sign!At
  <2>2. to \in LoginCalls /\ to.at = "enable"
    BY <1>2, <2>1, LoginsHave
  <2> HIDE DEF to
  <2>3. /\ s6' \in [Calls -> LoginCalls] /\ s6'[c].at = "enable"
        /\ \A d \in Calls : d # c => s6'[d] = s6[d]
    BY <1>2, <2>1, <2>2, LoginGoes
  <2>4. /\ s2' \in [Factors -> FactorRows]
        /\ \A g \in Factors : s2'[g].enabled = s2[g].enabled /\ s2'[g].last = s2[g].last
    BY <1>23, <1>24 DEF Sign!DisableOthers
  <2>5. Sign!TypeOK'
    BY <1>2, <2>1, <2>3, <2>4, SignTypeOKNext
  <2>6. Spending /\ SessionsStay
    BY <1>2, <1>21, <2>1, <2>4, SpentStays DEF Spending, SessionsStay
  <2>7. \A d \in Calls : s6'[d] = s6[d] \/ Unproven(d)
    BY <2>3 DEF Unproven
  <2> QED
    BY <1>1, <1>4, <2>5, <2>6, <2>7, NothingIsProven
<1>25. ASSUME NEW c \in Calls, Sign!EnableFactor(c) PROVE Sign!IInv'
  <2> DEFINE f == s6[c].f  n == s6[c].n  e == s2[f].enabled + 1
             row == [status |-> "enabled", last |-> n, enabled |-> e]
  <2>1. /\ f \in Factors /\ n \in 1 .. MaxStep + 1
        /\ Sign!Goto(c, [at |-> "replace"])
        /\ s1' = s1 /\ s3' = s3 /\ s4' = s4 /\ s5' = s5
    BY <1>2, <1>25, LoginsHave DEF Sign!EnableFactor, Sign!At
  <2>2. s2' = [s2 EXCEPT ![f] = row]
    BY <1>2, <1>25, <2>1 DEF Sign!EnableFactor
  <2>3. s2[f].enabled \in Nat /\ e \in Nat /\ e > s2[f].enabled /\ n \in 0 .. MaxStep + 1
    BY <1>2, <2>1, SignInAssumption DEF FactorRows
  <2> HIDE DEF e, n
  <2>4. row \in FactorRows /\ row.enabled = e
    BY <2>3 DEF FactorRows
  <2> HIDE DEF row, f
  <2>5. /\ s2' \in [Factors -> FactorRows] /\ s2'[f].enabled = e
        /\ \A g \in Factors : g # f => s2'[g] = s2[g]
    BY <1>2, <2>1, <2>2, <2>4
  <2>6. \A g \in Factors :
          \/ s2'[g].enabled = s2[g].enabled /\ s2[g].last <= s2'[g].last
          \/ s2'[g].enabled > s2[g].enabled
    <3> SUFFICES ASSUME NEW g \in Factors, g # f PROVE s2[g].last <= s2[g].last
      BY <2>3, <2>5
    <3> QED
      BY <1>2, SignInAssumption DEF FactorRows
  <2>7. /\ s6' \in [Calls -> LoginCalls] /\ s6'[c].at = "replace"
        /\ \A d \in Calls : d # c => s6'[d] = s6[d]
    BY <1>2, <2>1, LoginGoes, PlainPlaces
  <2>8. Sign!TypeOK'
    BY <1>2, <2>1, <2>5, <2>7, SignTypeOKNext
  <2>9. Spending /\ SessionsStay
    BY <1>2, <2>1, <2>5, <2>6, SpentStays DEF Spending, SessionsStay
  <2>10. \A d \in Calls : s6'[d] = s6[d] \/ Unproven(d)
    BY <2>7 DEF Unproven
  <2> QED
    BY <1>1, <1>4, <2>8, <2>9, <2>10, NothingIsProven
<1>26. ASSUME s3' = Sign!Gone
       PROVE  /\ s3' \in Seq({"stored", "used", "gone"})
              /\ \A b \in DOMAIN s3 : b \in DOMAIN s3' /\ s3'[b] # "stored"
  <2>1. s3' = [b \in DOMAIN s3 |-> "gone"]
    BY <1>26 DEF Sign!Gone
  <2>2. s3' \in [DOMAIN s3 -> {"stored", "used", "gone"}]
    BY <2>1
  <2> QED
    BY <1>2, <2>1, <2>2, RowsAreRewritten
<1>27. ASSUME s2' = s2
       PROVE  /\ s2' \in [Factors -> FactorRows]
              /\ \A f \in Factors :
                   s2'[f].enabled = s2[f].enabled /\ s2'[f].last = s2[f].last
  BY <1>2, <1>27
<1>28. ASSUME NEW c \in Calls, Sign!DeleteRecoveryCodes(c) \/ Sign!InsertRecoveryCodes(c)
       PROVE  Sign!IInv'
  <2>1. /\ s1' = s1 /\ s2' = s2 /\ s4' = s4 /\ s5' = s5
        /\ \/ s3' = Sign!Gone /\ Sign!Goto(c, [at |-> "insert"])
           \/ s3' = Append(s3, "stored") /\ Sign!Goto(c, [at |-> "idle"])
    BY <1>28, PlainPlaces DEF Sign!DeleteRecoveryCodes, Sign!InsertRecoveryCodes, Sign!Done
  <2>2. /\ s6' \in [Calls -> LoginCalls] /\ s6'[c].at \in {"insert", "idle"}
        /\ \A d \in Calls : d # c => s6'[d] = s6[d]
    BY <1>2, <2>1, LoginGoes, PlainPlaces
  <2>3. /\ s3' \in Seq({"stored", "used", "gone"})
        /\ \A b \in DOMAIN s3 : b \in DOMAIN s3' /\ (s3[b] # "stored" => s3'[b] # "stored")
    <3>1. CASE s3' = Sign!Gone
      BY <1>26, <3>1
    <3>2. CASE s3' = Append(s3, "stored")
      BY <1>2, <3>2, RowIsAdded
    <3> QED
      BY <2>1, <3>1, <3>2
  <2>4. Sign!TypeOK'
    BY <1>2, <2>1, <2>2, <2>3, SignTypeOKNext
  <2>5. Spending /\ SessionsStay
    BY <1>2, <1>21, <1>27, <2>1, <2>3, SpentStays DEF Spending, SessionsStay
  <2>6. \A d \in Calls : s6'[d] = s6[d] \/ Unproven(d)
    BY <2>2 DEF Unproven
  <2> QED
    BY <1>1, <1>4, <2>4, <2>5, <2>6, NothingIsProven
\* Sessions end.
<1>29. ASSUME \/ s5' = Sign!Revoked
              \/ \E x \in DOMAIN s5 : s5' = [s5 EXCEPT ![x].live = FALSE]
       PROVE  s5' \in Seq(Sessions) /\ SessionsStay
  <2>1. \A x \in DOMAIN s5 : s5[x] \in Sessions
    BY <1>2, SequenceIsFunction
  <2>2. s5' \in [DOMAIN s5 -> Sessions]
    <3>1. CASE s5' = Sign!Revoked
      BY <2>1, <3>1 DEF Sign!Revoked, Sessions
    <3>2. ASSUME NEW x \in DOMAIN s5, s5' = [s5 EXCEPT ![x].live = FALSE]
          PROVE  s5' \in [DOMAIN s5 -> Sessions]
      <4>1. [s5[x] EXCEPT !.live = FALSE] \in Sessions
        BY <2>1 DEF Sessions
      <4>2. s5 \in [DOMAIN s5 -> Sessions]
        BY <1>2, <1>3, SequenceIsFunction
      <4> QED
        BY <3>2, <4>1, <4>2
    <3> QED
      BY <1>29, <3>1, <3>2
  <2>3. \A x \in DOMAIN s5 : s5'[x].proof = s5[x].proof /\ s5'[x].challenge = s5[x].challenge
    <3>1. CASE s5' = Sign!Revoked
      BY <2>1, <3>1 DEF Sign!Revoked, Sessions
    <3>2. ASSUME NEW x \in DOMAIN s5, s5' = [s5 EXCEPT ![x].live = FALSE], NEW y \in DOMAIN s5
          PROVE  s5'[y].proof = s5[y].proof /\ s5'[y].challenge = s5[y].challenge
      BY <2>1, <3>2 DEF Sessions
    <3> QED
      BY <1>29, <3>1, <3>2
  <2> QED
    BY <1>2, <2>2, <2>3, RowsAreRewritten DEF SessionsStay
<1>30. ASSUME NEW c \in Calls, Sign!DisableMfa(c) PROVE Sign!IInv'
  <2>1. /\ s2' = Sign!Disabled(Factors) /\ s3' = Sign!Gone /\ s5' = Sign!Revoked
        /\ Sign!Goto(c, [at |-> "idle"]) /\ s1' = s1 /\ s4' = s4
    BY <1>30, PlainPlaces DEF Sign!DisableMfa, Sign!Done
  <2>2. /\ s6' \in [Calls -> LoginCalls] /\ s6'[c].at = "idle"
        /\ \A d \in Calls : d # c => s6'[d] = s6[d]
    BY <1>2, <2>1, LoginGoes, PlainPlaces
  <2>3. s5' \in Seq(Sessions) /\ SessionsStay
    BY <1>29, <2>1
  <2>4. Sign!TypeOK'
    BY <1>2, <1>23, <1>26, <2>1, <2>2, <2>3, SignTypeOKNext
  <2>5. Spending
    BY <1>2, <1>21, <1>23, <1>26, <2>1, SpentStays DEF Spending
  <2>6. \A d \in Calls : s6'[d] = s6[d] \/ Unproven(d)
    BY <2>2 DEF Unproven
  <2> QED
    BY <1>1, <1>4, <2>3, <2>4, <2>5, <2>6, NothingIsProven
<1>31. ASSUME Sign!Logout \/ Sign!RevokeCredentials PROVE Sign!IInv'
  <2>1. s1' = s1 /\ s2' = s2 /\ s3' = s3 /\ s4' = s4 /\ s6' = s6
    BY <1>31 DEF Sign!Logout, Sign!RevokeCredentials
  <2>2. s5' \in Seq(Sessions) /\ SessionsStay
    BY <1>29, <1>31 DEF Sign!Logout, Sign!RevokeCredentials
  <2>3. Sign!TypeOK' /\ Spending
    BY <1>2, <2>1, <2>2, SignTypeOKNext, SpentUnchanged DEF Spending
  <2> QED
    BY <1>1, <1>4, <2>1, <2>2, <2>3, NothingIsProven
\* Time passes.
<1>32. ASSUME Sign!ChallengeExpires PROVE Sign!IInv'
  <2>1. PICK n \in DOMAIN s4 : s4[n] = "open" /\ s4' = [s4 EXCEPT ![n] = "expired"]
    BY <1>32 DEF Sign!ChallengeExpires
  <2>2. s1' = s1 /\ s2' = s2 /\ s3' = s3 /\ s5' = s5 /\ s6' = s6
    BY <1>32 DEF Sign!ChallengeExpires
  <2>3. /\ s4' \in Seq({"open", "expired", "used"}) /\ Len(s4') = Len(s4)
        /\ \A k \in DOMAIN s4 : k \in DOMAIN s4' /\ (s4[k] = "used" => s4'[k] = "used")
    BY <1>2, <2>1
  <2>4. Sign!TypeOK' /\ Spending /\ SessionsStay
    BY <1>2, <2>2, <2>3, SignTypeOKNext, SpentUnchanged DEF Spending, SessionsStay
  <2> QED
    BY <1>1, <1>4, <2>2, <2>4, NothingIsProven
<1>33. ASSUME Sign!Tick \/ UNCHANGED Sign!vars PROVE Sign!IInv'
  <2>1. Same /\ s6' = s6
    BY <1>33 DEF Sign!Tick, Sign!vars, Sign!rows
  <2>2. s1' \in 1 .. MaxStep
    BY <1>2, <1>33, SignInAssumption DEF Sign!Tick, Sign!vars
  <2>3. Sign!TypeOK' /\ Spending /\ SessionsStay
    BY <1>2, <2>1, <2>2, SignTypeOKNext, SpentUnchanged DEF Spending, SessionsStay
  <2> QED
    BY <1>1, <1>4, <2>1, <2>3, NothingIsProven
<1> QED
  BY <1>7, <1>8, <1>9, <1>10, <1>11, <1>12, <1>13, <1>14, <1>15, <1>16, <1>17, <1>18, <1>19,
     <1>20, <1>22, <1>24, <1>25, <1>28, <1>30, <1>31, <1>32, <1>33 DEF Sign!Next

\* Nobody has signed in at the start.
LEMMA SignStarts ==
  ASSUME Sign!Init
  PROVE  Sign!IInv
<1>1. /\ s1 = 1 /\ s4 = <<>> /\ s5 = <<>> /\ s6 = [c \in Calls |-> Sign!Idle]
      /\ s3 = <<>> \/ s3 = <<"stored">>
  BY DEF Sign!Init
<1>2. s2 \in [Factors -> FactorRows]
  BY SignInAssumption DEF Sign!Init, Sign!NoFactor, Sign!Enrolled, FactorRows
<1>3. s6 \in [Calls -> LoginCalls] /\ \A c \in Calls : s6[c].at = "idle"
  BY <1>1, PlainPlaces
<1>4. Sign!TypeOK
  <2>1. 1 \in 1 .. MaxStep /\ Len(<<>>) <= MaxChallenges
    BY SignInAssumption
  <2>2. /\ s3 \in Seq({"stored", "used", "gone"})
        /\ s4 \in Seq({"open", "expired", "used"}) /\ s5 \in Seq(Sessions)
    <3>1. \A S : <<>> \in Seq(S)
      OBVIOUS
    <3>2. <<"stored">> \in Seq({"stored", "used", "gone"})
      OBVIOUS
    <3> QED
      BY <1>1, <3>1, <3>2
  <2>3. s1 \in 1 .. MaxStep /\ Len(s4) <= MaxChallenges
    BY <1>1, <2>1
  <2> QED
    BY <1>2, <1>3, <2>2, <2>3, SignTypeOK
<1>5. DOMAIN s5 = {}
  BY <1>1
<1>6. Sign!CodesAreUsedOnce /\ Sign!ProofsAreSpent /\ Sign!ProofsAreApart
  BY <1>3, <1>5 DEF Sign!CodesAreUsedOnce, Sign!ProofsAreSpent, Sign!ProofsAreApart, Sign!Proven,
     Sign!At
<1> QED
  BY <1>4, <1>6 DEF Sign!IInv

\* What holds of sign-in in every state.
LEMMA SignInvHolds == Spec => [](part = "signin" => Sign!IInv)
<1>1. Init => (part = "signin" => Sign!IInv)
  BY SignStarts DEF Init
<1>2. (part = "signin" => Sign!IInv) /\ [Next]_vars => (part = "signin" => Sign!IInv)'
  BY PartStays, SignSteps, SigningInKept
<1> QED
  BY <1>1, <1>2, PTL DEF Spec

---------------------------------------------------------------------------
(* Device logins.                                                          *)

\* While devices log in, a step is one of theirs or changes nothing of theirs.
LEMMA DeviceSteps ==
  ASSUME part = "device", [Next]_vars
  PROVE  Device!Next \/ UNCHANGED Device!vars
BY DEF Next, vars, Device!vars, AccountAction, Administration, SigningIn, DeviceLoggingIn,
       Authorization, Governance, Locking, Mailing

---------------------------------------------------------------------------
(* What the server, the keyring and the processes have.                    *)

\* The rows of the server, and what a process may be doing.
DeviceRows ==
  [status : Device!Statuses, expires : Nat, interval : Device!Intervals, polled : Nat,
   user : {Nobody, "user"}, stamp : Nat]

Polls == [from : Calls \cup {Nobody}, code : s3, read : {"no", Nobody, "user"}]

Processes ==
  {Device!Idle} \cup [at : {"start"}, keep : BOOLEAN] \cup Device!Works \cup [at : {"logout"}]

\* The types of device logins in three parts: the server's, the polls', the processes'.
ServerTypes ==
  /\ s1 \in Nat
  /\ DOMAIN s2 \subseteq s3 /\ s3 \subseteq Codes
  /\ s2 \in [DOMAIN s2 -> DeviceRows]
  /\ s4 \in [usable : BOOLEAN, needsMfa : BOOLEAN, stamp : {0, 1}]
  /\ s5 \subseteq [code : s3, at : Nat]
  /\ s8 \in {Nobody} \cup {t.code : t \in s5}

ProcessTypes ==
  /\ s7 \in {Nobody} \cup Device!Requests
  /\ s9 \in {Nobody} \cup Calls
  /\ s10 \in [Calls -> Processes]
  /\ s11 \in [Codes -> Nat]
  /\ \A p \in Calls : (s10[p] # Device!Idle) <=> (s9 = p)

\* They are the types.
LEMMA DeviceTypes ==
  /\ Device!TypeOK <=> ServerTypes /\ s6 \subseteq Polls /\ ProcessTypes
  /\ Device!TypeOK' <=> ServerTypes' /\ s6' \subseteq Polls' /\ ProcessTypes'
BY DEF Device!TypeOK, ServerTypes, ProcessTypes, Polls, Processes, DeviceRows

\* What a process is at tells what it is.
LEMMA ProcessesAre ==
  ASSUME NEW w \in Processes
  PROVE  /\ w.at \in {"save", "wait", "send", "poll", "store", "clear"} => w \in Device!Works
         /\ w.at = "start" => w.keep \in BOOLEAN
         /\ w = Device!Idle <=> w.at = "idle"
BY DEF Processes, Device!Works, Device!Idle

\* The fields of a work.
LEMMA WorksHave ==
  ASSUME NEW w \in Device!Works
  PROVE  /\ w.at \in {"save", "wait", "send", "poll", "store", "clear"} /\ w.keep \in BOOLEAN
         /\ w.code \in s3 /\ w.expires \in Nat /\ w.interval \in Device!Intervals
         /\ w.next \in Nat
         /\ w \in Processes
BY DEF Device!Works, Processes

\* A work that is at another place.
LEMMA WorkGoes ==
  ASSUME ProcessTypes, NEW p \in Calls, s10[p] \in Device!Works,
         NEW at \in {"save", "wait", "send", "poll", "store", "clear"}, s3' = s3,
         Device!Moves(p, at)
  PROVE  /\ s10'[p] \in Device!Works /\ s10'[p].at = at /\ s10'[p].keep = s10[p].keep
         /\ s10'[p].code = s10[p].code /\ s10'[p].expires = s10[p].expires
         /\ s10'[p].interval = s10[p].interval /\ s10'[p].next = s10[p].next
         /\ \A r \in Calls : r # p => s10'[r] = s10[r]
         /\ s10' \in [Calls -> Processes']
<1>1. s10 \in [Calls -> Processes]
  BY DEF ProcessTypes
<1> DEFINE w == [s10[p] EXCEPT !.at = at]
<1>2. s10' = [s10 EXCEPT ![p] = w]
  BY DEF Device!Moves
<1>3. /\ w \in Device!Works /\ w.at = at /\ w.keep = s10[p].keep
      /\ w.code = s10[p].code /\ w.expires = s10[p].expires
      /\ w.interval = s10[p].interval /\ w.next = s10[p].next
  BY DEF Device!Works
<1> HIDE DEF w
<1>4. Processes' = Processes
  BY DEF Processes, Device!Works, Device!Idle
<1>5. w \in Processes
  BY <1>3 DEF Processes
<1> QED
  BY <1>1, <1>2, <1>3, <1>4, <1>5

\* A work whose next poll is an interval away.
LEMMA WorkIsPaced ==
  ASSUME ProcessTypes, s1 \in Nat, NEW p \in Calls, s10[p] \in Device!Works, s3' = s3,
         NEW at \in {"wait", "send"}, NEW interval \in Device!Intervals,
         s10' = [s10 EXCEPT ![p] = Device!Paced(s10[p], at, interval)]
  PROVE  /\ s10'[p] \in Device!Works /\ s10'[p].at = at /\ s10'[p].keep = s10[p].keep
         /\ s10'[p].code = s10[p].code /\ s10'[p].expires = s10[p].expires
         /\ s10'[p].interval = interval /\ s10'[p].next = s1 + interval
         /\ \A r \in Calls : r # p => s10'[r] = s10[r]
         /\ s10' \in [Calls -> Processes']
<1>1. s10 \in [Calls -> Processes]
  BY DEF ProcessTypes
<1> DEFINE next == s1 + interval
           w == [s10[p] EXCEPT !.at = at, !.interval = interval, !.next = next]
<1>2. s10' = [s10 EXCEPT ![p] = w]
  BY DEF Device!Paced
<1>3. next \in Nat
  BY DeviceAssumption DEF Device!Intervals
<1> HIDE DEF next
<1>4. /\ w \in Device!Works /\ w.at = at /\ w.keep = s10[p].keep
      /\ w.code = s10[p].code /\ w.expires = s10[p].expires
      /\ w.interval = interval /\ w.next = next
  BY <1>3 DEF Device!Works
<1> HIDE DEF w
<1>5. Processes' = Processes
  BY DEF Processes, Device!Works, Device!Idle
<1>6. w \in Processes
  BY <1>4 DEF Processes
<1> QED
  BY <1>1, <1>2, <1>4, <1>5, <1>6 DEF next

---------------------------------------------------------------------------
(* What holds of the server, of polls and of processes.                    *)

ServerHolds == ServerTypes /\ Device!OneTokenPerRequest /\ Device!ApprovalsHaveUsers

PollsHold == s6 \subseteq Polls /\ Device!PollsAreWaitedFor

ProcessesHold == ProcessTypes /\ Device!StoredAreIssued /\ Device!PacesAreKept

\* Together they are the invariant.
LEMMA DeviceParts ==
  /\ Device!IInv <=> ServerHolds /\ PollsHold /\ ProcessesHold
  /\ Device!IInv' <=> ServerHolds' /\ PollsHold' /\ ProcessesHold'
BY DeviceTypes DEF Device!IInv, ServerHolds, PollsHold, ProcessesHold

\* The server does not see what leaves its rows and tokens alone.
LEMMA ServerRests ==
  ASSUME ServerHolds, s2' = s2, s3' = s3, s5' = s5, s1' \in Nat,
         s4' \in [usable : BOOLEAN, needsMfa : BOOLEAN, stamp : {0, 1}],
         s8' \in {Nobody} \cup {t.code : t \in s5}
  PROVE  ServerHolds'
<1>1. ServerTypes'
  BY DEF ServerHolds, ServerTypes, DeviceRows, Device!Statuses, Device!Intervals
<1>2. Device!OneTokenPerRequest' /\ Device!ApprovalsHaveUsers'
  BY DEF ServerHolds, Device!OneTokenPerRequest, Device!ApprovalsHaveUsers
<1> QED
  BY <1>1, <1>2 DEF ServerHolds

\* Polls stay on their way while the processes that wait for them wait.
LEMMA PollsRest ==
  ASSUME PollsHold, s6' = s6, s3 \subseteq s3',
         \A p \in Calls : s10[p].at = "poll" => s10'[p] = s10[p]
  PROVE  PollsHold'
<1>1. s6' \subseteq Polls'
  BY DEF PollsHold, Polls
<1>2. \A q \in s6 : q.from # Nobody => q.from \in Calls
  BY DEF PollsHold, Polls
<1>3. Device!PollsAreWaitedFor'
  BY <1>2 DEF PollsHold, Device!PollsAreWaitedFor
<1> QED
  BY <1>1, <1>3 DEF PollsHold

\* And become nobody's when their process leaves.
LEMMA PollsAreOrphaned ==
  ASSUME PollsHold, NEW p \in Calls, s6' = Device!Orphaned(p), s3' = s3,
         \A r \in Calls : r # p => s10'[r] = s10[r]
  PROVE  PollsHold'
<1>1. \A q \in s6 : q \in Polls /\ (q.from # Nobody => q.from \in Calls)
  BY DEF PollsHold, Polls
<1>2. \A q \in s6' : \E o \in s6 :
        IF o.from = p THEN q = [o EXCEPT !.from = Nobody] ELSE q = o
  BY DEF Device!Orphaned
<1>3. ASSUME NEW q \in s6'
      PROVE  /\ q \in Polls
             /\ q.from # Nobody => q \in s6 /\ q.from # p
  <2>1. PICK o \in s6 : IF o.from = p THEN q = [o EXCEPT !.from = Nobody] ELSE q = o
    BY <1>2
  <2>2. o \in Polls
    BY <1>1
  <2>3. CASE o.from = p
    <3>1. q = [o EXCEPT !.from = Nobody]
      BY <2>1, <2>3
    <3>2. q \in Polls /\ q.from = Nobody
      BY <2>2, <3>1 DEF Polls
    <3> QED
      BY <3>2
  <2>4. CASE o.from # p
    BY <2>1, <2>2, <2>4
  <2> QED
    BY <2>3, <2>4
<1>4. Polls' = Polls
  BY DEF Polls
<1>5. \A q \in s6' : q.from # Nobody => s10'[q.from].at = "poll" /\ s10'[q.from].code = q.code
  BY <1>1, <1>3 DEF PollsHold, Device!PollsAreWaitedFor
<1>6. \A q, r \in s6' : q.from # Nobody /\ q.from = r.from => q = r
  BY <1>3 DEF PollsHold, Device!PollsAreWaitedFor
<1> QED
  BY <1>3, <1>4, <1>5, <1>6 DEF PollsHold, Device!PollsAreWaitedFor

\* One process at a time works on the keyring entry.
LEMMA OthersAreIdle ==
  ASSUME ProcessTypes, NEW p \in Calls, s9 \in {p, Nobody}
  PROVE  \A r \in Calls : r # p => s10[r] = Device!Idle
BY DeviceAssumption DEF ProcessTypes

\* Paces in the next state, of a request that is known now.
PacedNext(r) ==
  /\ s11'[r.code] <= r.next /\ r.next <= s1' + r.interval
  /\ r.code \in DOMAIN s2' => r.interval <= s2'[r.code].interval

\* (Arithmetic of that.)
LEMMA LaterIsLater ==
  /\ \A a, b, i, n \in Nat : a <= b /\ n <= a + i => n <= b + i
  /\ \A a, b, c \in Nat : a <= b /\ b <= c => a <= c
OBVIOUS

\* Paces are kept while time passes and the server's intervals grow.
LEMMA PacedStays ==
  ASSUME ServerTypes, s11 \in [Codes -> Nat], NEW r, r.code \in s3, r.interval \in Device!Intervals,
         r.next \in Nat, Device!IsPaced(r), s11'[r.code] = s11[r.code],
         s1' \in Nat, s1 <= s1',
         r.code \in DOMAIN s2' => /\ r.code \in DOMAIN s2
                                  /\ s2'[r.code].interval \in Device!Intervals
                                  /\ s2[r.code].interval <= s2'[r.code].interval
  PROVE  PacedNext(r)
<1>1. s11[r.code] \in Nat /\ r.interval \in Nat /\ s1 \in Nat
  BY DeviceAssumption DEF ServerTypes, Device!Intervals
<1>2. s11[r.code] <= r.next /\ r.next <= s1 + r.interval
      /\ (r.code \in DOMAIN s2 => r.interval <= s2[r.code].interval)
  BY DEF Device!IsPaced
<1>3. r.next <= s1' + r.interval
  BY <1>1, <1>2, LaterIsLater
<1>4. ASSUME r.code \in DOMAIN s2' PROVE r.interval <= s2'[r.code].interval
  <2>1. s2[r.code].interval \in Nat /\ s2'[r.code].interval \in Nat
    BY <1>4, DeviceAssumption DEF ServerTypes, DeviceRows, Device!Intervals
  <2>2. r.interval <= s2[r.code].interval /\ s2[r.code].interval <= s2'[r.code].interval
    BY <1>2, <1>4
  <2> QED
    BY <1>1, <2>1, <2>2, LaterIsLater
<1> QED
  BY <1>2, <1>3, <1>4 DEF PacedNext

\* A step of one process: what it must leave behind, the others being idle.
LEMMA ProcessActs ==
  ASSUME ProcessesHold, NEW p \in Calls, s9 \in {p, Nobody},
         \/ s10'[p] = Device!Idle /\ s9' = Nobody
         \/ s10'[p] # Device!Idle /\ s9' = p,
         s10' \in [Calls -> Processes'], \A r \in Calls : r # p => s10'[r] = s10[r],
         s7' \in {Nobody} \cup Device!Requests', s11' \in [Codes -> Nat],
         s10'[p].at = "store" => \E t \in s5' : t.code = s10'[p].code,
         s10'[p].at \in {"save", "wait", "send", "poll"} => PacedNext(s10'[p]),
         s7' # Nobody => PacedNext(s7'),
         s10'[p].at \in {"start", "save", "wait", "send", "poll"} /\ ~s10'[p].keep =>
           s7' = Nobody,
         \A c \in Codes \ s3' : s11'[c] = 0
  PROVE  ProcessesHold'
<1>1. \A r \in Calls : r # p => s10'[r] = Device!Idle /\ s10'[r].at = "idle"
  BY OthersAreIdle DEF ProcessesHold, Device!Idle
<1>2. Device!Idle' = Device!Idle
  BY DEF Device!Idle
<1>3. ProcessTypes'
  BY <1>1, <1>2, DeviceAssumption DEF ProcessTypes
<1>4. Device!StoredAreIssued'
  BY <1>1 DEF Device!StoredAreIssued
<1>5. Device!PacesAreKept'
  <2>1. \A r \in Calls : s10'[r].at \in {"save", "wait", "send", "poll"} => PacedNext(s10'[r])
    BY <1>1
  <2>2. \A r \in Calls :
          s10'[r].at \in {"start", "save", "wait", "send", "poll"} /\ ~s10'[r].keep => s7' = Nobody
    BY <1>1
  <2> QED
    BY <2>1, <2>2 DEF Device!PacesAreKept, Device!IsPaced, PacedNext
<1> QED
  BY <1>3, <1>4, <1>5 DEF ProcessesHold

\* A step of the server or the clock: processes rest, and intervals do not shrink.
LEMMA ProcessesRest ==
  ASSUME ServerHolds, ProcessesHold, s3' = s3, s5 \subseteq s5', s7' = s7, s9' = s9, s10' = s10,
         s11' = s11, s1' \in Nat, s1 <= s1',
         DOMAIN s2' = DOMAIN s2,
         \A c \in DOMAIN s2 : /\ s2'[c].interval \in Device!Intervals
                              /\ s2[c].interval <= s2'[c].interval
  PROVE  ProcessesHold'
<1>1. ProcessTypes' /\ Device!StoredAreIssued'
  BY DEF ProcessesHold, ProcessTypes, Device!StoredAreIssued, Processes, Device!Works,
         Device!Requests, Device!Idle
<1>2. ServerTypes /\ s11 \in [Codes -> Nat]
  BY DEF ServerHolds, ProcessesHold, ProcessTypes
<1>4. \A r : /\ r.code \in s3 /\ r.interval \in Device!Intervals /\ r.next \in Nat
             /\ Device!IsPaced(r)
             => PacedNext(r)
  BY <1>2, PacedStays
<1>5. \A p \in Calls : s10[p].at \in {"save", "wait", "send", "poll"} => PacedNext(s10[p])
  <2> SUFFICES ASSUME NEW p \in Calls, s10[p].at \in {"save", "wait", "send", "poll"}
               PROVE  PacedNext(s10[p])
    OBVIOUS
  <2>1. s10[p] \in Device!Works
    BY ProcessesAre DEF ProcessesHold, ProcessTypes
  <2>2. Device!IsPaced(s10[p])
    BY DEF ProcessesHold, Device!PacesAreKept
  <2> QED
    BY <1>4, <2>1, <2>2, WorksHave
<1>6. s7 # Nobody => PacedNext(s7)
  <2> SUFFICES ASSUME s7 # Nobody PROVE PacedNext(s7)
    OBVIOUS
  <2>1. s7.code \in s3 /\ s7.interval \in Device!Intervals /\ s7.next \in Nat
    BY DEF ProcessesHold, ProcessTypes, Device!Requests
  <2>2. Device!IsPaced(s7)
    BY DEF ProcessesHold, Device!PacesAreKept
  <2> QED
    BY <1>4, <2>1, <2>2
<1>7. Device!PacesAreKept'
  BY <1>5, <1>6 DEF ProcessesHold, Device!PacesAreKept, Device!IsPaced, PacedNext
<1> QED
  BY <1>1, <1>7 DEF ProcessesHold

\* Rows of the server that leave the intervals alone.
LEMMA IntervalsAre ==
  ASSUME ServerTypes
  PROVE  \A c \in DOMAIN s2 : /\ s2[c] \in DeviceRows
                              /\ s2[c].interval \in Device!Intervals
                              /\ s2[c].interval <= s2[c].interval
BY DeviceAssumption DEF ServerTypes, DeviceRows, Device!Intervals

---------------------------------------------------------------------------
(* The steps of the server, the user and the clock.                        *)

\* A decision touches a pending row only.
LEMMA DecisionsKeep ==
  ASSUME Device!IInv, NEW c \in Codes, NEW status \in {"approved", "denied"},
         Device!Decide(c, status)
  PROVE  Device!IInv'
<1>1. ServerHolds /\ PollsHold /\ ProcessesHold
  BY DeviceParts
<1>2. /\ s1' = s1 /\ s3' = s3 /\ s4' = s4 /\ s5' = s5 /\ s6' = s6 /\ s7' = s7 /\ s8' = s8
      /\ s9' = s9 /\ s10' = s10 /\ s11' = s11
      /\ c \in DOMAIN s2 /\ s2[c].status = "pending"
  BY DEF Device!Decide, Device!Live
<1> DEFINE stamp == IF Device!Fresh(s4.stamp, s1) THEN s4.stamp ELSE 0
           row == [s2[c] EXCEPT !.status = status, !.user = "user", !.stamp = stamp]
<1>3. s2' = [s2 EXCEPT ![c] = row]
  BY DEF Device!Decide
<1>4. s2[c] \in DeviceRows /\ s1 \in Nat /\ stamp \in Nat
  BY <1>1, <1>2 DEF ServerHolds, ServerTypes
<1> HIDE DEF stamp
<1>5. /\ row \in DeviceRows /\ row.status = status /\ row.user = "user"
      /\ row.interval = s2[c].interval
  BY <1>4 DEF DeviceRows, Device!Statuses
<1> HIDE DEF row
<1>6. /\ DOMAIN s2' = DOMAIN s2 /\ s2'[c] = row
      /\ \A d \in DOMAIN s2 : d # c => s2'[d] = s2[d]
  BY <1>2, <1>3
<1>7. s2' \in [DOMAIN s2' -> DeviceRows]
  BY <1>1, <1>3, <1>5, <1>6 DEF ServerHolds, ServerTypes
<1>8. DeviceRows' = DeviceRows
  BY DEF DeviceRows, Device!Statuses, Device!Intervals
<1>9. ServerTypes'
  BY <1>1, <1>2, <1>6, <1>7, <1>8 DEF ServerHolds, ServerTypes
<1>10. Device!OneTokenPerRequest'
  <2>1. \A t \in s5 : t.code # c
    BY <1>1, <1>2 DEF ServerHolds, Device!OneTokenPerRequest
  <2> QED
    BY <1>1, <1>2, <1>6, <2>1 DEF ServerHolds, Device!OneTokenPerRequest
<1>11. Device!ApprovalsHaveUsers'
  BY <1>1, <1>5, <1>6 DEF ServerHolds, Device!ApprovalsHaveUsers
<1>12. ServerHolds'
  BY <1>9, <1>10, <1>11 DEF ServerHolds
<1>13. PollsHold'
  BY <1>1, <1>2, PollsRest
<1>14. \A d \in DOMAIN s2 : /\ s2'[d].interval \in Device!Intervals
                            /\ s2[d].interval <= s2'[d].interval
  BY <1>1, <1>5, <1>6, IntervalsAre DEF ServerHolds
<1>15. ProcessesHold'
  <2>1. s1' \in Nat /\ s1 <= s1'
    BY <1>2, <1>4
  <2> QED
    BY <1>1, <1>2, <1>6, <1>14, <2>1, ProcessesRest
<1> QED
  BY <1>12, <1>13, <1>15, DeviceParts

\* The clock, the user and an unchanged state leave requests alone.
LEMMA TimeKeeps ==
  ASSUME Device!IInv, Device!Revoked \/ Device!Promoted \/ Device!Tick \/ UNCHANGED Device!vars
  PROVE  Device!IInv'
<1>1. ServerHolds /\ PollsHold /\ ProcessesHold
  BY DeviceParts
<1>2. /\ s2' = s2 /\ s3' = s3 /\ s5' = s5 /\ s6' = s6 /\ s7' = s7 /\ s8' = s8
      /\ s9' = s9 /\ s10' = s10 /\ s11' = s11
  BY DEF Device!Revoked, Device!Promoted, Device!Tick, Device!vars, Device!server
<1>3. s1 \in Nat
  BY <1>1 DEF ServerHolds, ServerTypes
<1>4. s1' \in Nat /\ s1 <= s1'
  BY <1>3 DEF Device!Revoked, Device!Promoted, Device!Tick, Device!vars
<1>5. s4' \in [usable : BOOLEAN, needsMfa : BOOLEAN, stamp : {0, 1}]
  BY <1>1 DEF ServerHolds, ServerTypes, Device!Revoked, Device!Promoted, Device!Tick, Device!vars
<1>6. ServerHolds'
  <2>1. s8' \in {Nobody} \cup {t.code : t \in s5}
    BY <1>1, <1>2 DEF ServerHolds, ServerTypes
  <2> QED
    BY <1>1, <1>2, <1>4, <1>5, <2>1, ServerRests
<1>7. PollsHold'
  BY <1>1, <1>2, PollsRest
<1>8. ProcessesHold'
  BY <1>1, <1>2, <1>4, ProcessesRest, IntervalsAre DEF ServerHolds
<1> QED
  BY <1>6, <1>7, <1>8, DeviceParts

\* poll's first read changes nothing but what the poll has read.
LEMMA ReadingKeeps ==
  ASSUME Device!IInv, NEW q \in s6, Device!ReadUser(q)
  PROVE  Device!IInv'
<1>1. ServerHolds /\ PollsHold /\ ProcessesHold
  BY DeviceParts
<1>2. /\ s1' = s1 /\ s2' = s2 /\ s3' = s3 /\ s4' = s4 /\ s5' = s5 /\ s7' = s7 /\ s8' = s8
      /\ s9' = s9 /\ s10' = s10 /\ s11' = s11
  BY DEF Device!ReadUser, Device!server
<1> DEFINE read == IF q.code \in DOMAIN s2 THEN s2[q.code].user ELSE Nobody
           n == [q EXCEPT !.read = read]
<1>3. s6' = (s6 \ {q}) \cup {n}
  BY DEF Device!ReadUser
<1>4. read \in {"no", Nobody, "user"}
  BY <1>1, IntervalsAre DEF ServerHolds, DeviceRows
<1>5. q \in Polls
  BY <1>1 DEF PollsHold
<1> HIDE DEF read
<1>6. n \in Polls /\ n.from = q.from /\ n.code = q.code
  BY <1>4, <1>5 DEF Polls
<1> HIDE DEF n
<1>7. s6' \subseteq Polls /\ Polls' = Polls
  BY <1>1, <1>2, <1>3, <1>6 DEF PollsHold, Polls
<1>8. Device!PollsAreWaitedFor'
  BY <1>1, <1>2, <1>3, <1>6 DEF PollsHold, Device!PollsAreWaitedFor
<1>9. ServerHolds'
  BY <1>1, <1>2, ServerRests DEF ServerHolds, ServerTypes
<1>10. ProcessesHold'
  <2>1. s1' \in Nat /\ s1 <= s1'
    BY <1>1, <1>2 DEF ServerHolds, ServerTypes
  <2> QED
    BY <1>1, <1>2, <2>1, ProcessesRest, IntervalsAre DEF ServerHolds
<1> QED
  BY <1>7, <1>8, <1>9, <1>10, DeviceParts DEF PollsHold

---------------------------------------------------------------------------
(* The steps of the processes.                                             *)

\* What an active process knows, and that the keyring entry is its own.
LEMMA ActiveProcess ==
  ASSUME ServerHolds, ProcessesHold, NEW p \in Calls, s10[p] # Device!Idle
  PROVE  /\ s9 = p /\ s10[p] \in Processes
         /\ s10[p].at \in {"save", "wait", "send", "poll", "store", "clear"} => s10[p] \in Device!Works
         /\ s10[p].at \in {"save", "wait", "send", "poll"} => Device!IsPaced(s10[p])
         /\ s10[p].at \in {"start", "save", "wait", "send", "poll"} /\ ~s10[p].keep => s7 = Nobody
         /\ s10[p].at = "store" => \E t \in s5 : t.code = s10[p].code
         /\ \A r \in Calls : r # p => s10[r] = Device!Idle
<1>1. s9 = p /\ s10[p] \in Processes
  BY DEF ProcessesHold, ProcessTypes
<1> QED
  BY <1>1, ProcessesAre, OthersAreIdle
     DEF ProcessesHold, Device!StoredAreIssued, Device!PacesAreKept

\* A process that is not idle is at some place.
LEMMA IdleIsNowhere ==
  ASSUME NEW p \in Calls, s10[p].at # "idle"
  PROVE  s10[p] # Device!Idle
BY DEF Device!Idle

\* The paces of this state are kept when neither the clock nor the rows move.
LEMMA PacedNow ==
  ASSUME NEW r, Device!IsPaced(r), s1' = s1, s2' = s2, s11' = s11
  PROVE  PacedNext(r)
BY DEF Device!IsPaced, PacedNext

\* What a process does with an unchanged server.
LEMMA ServerUnchanged ==
  ASSUME ServerHolds, s1' = s1, UNCHANGED Device!server, s4' = s4,
         s8' \in {Nobody} \cup {t.code : t \in s5}
  PROVE  /\ ServerHolds' /\ s2' = s2 /\ s3' = s3 /\ s5' = s5
         /\ Processes' = Processes /\ Device!Requests' = Device!Requests
<1>1. s2' = s2 /\ s3' = s3 /\ s5' = s5
  BY DEF Device!server
<1>2. ServerHolds'
  BY <1>1, ServerRests DEF ServerHolds, ServerTypes
<1> QED
  BY <1>1, <1>2 DEF Processes, Device!Works, Device!Requests, Device!Idle

\* A process that leaves leaves the rest as it was.
LEMMA LeavingKeeps ==
  ASSUME ServerHolds, PollsHold, ProcessesHold, NEW p \in Calls, s10[p] # Device!Idle,
         Device!Leave(p), s1' = s1, UNCHANGED Device!server, s4' = s4, s11' = s11,
         s8' \in {Nobody} \cup {t.code : t \in s5}, s7' \in {s7, Nobody},
         \/ s6' = Device!Orphaned(p)
         \/ s6' = s6 /\ s10[p].at # "poll"
  PROVE  Device!IInv'
<1>1. /\ ServerHolds' /\ s2' = s2 /\ s3' = s3 /\ s5' = s5
      /\ Processes' = Processes /\ Device!Requests' = Device!Requests
  BY ServerUnchanged
<1>2. s9 = p
  BY ActiveProcess
<1>3. /\ s10 \in [Calls -> Processes] /\ s7 \in {Nobody} \cup Device!Requests
      /\ s11 \in [Codes -> Nat] /\ \A c \in Codes \ s3 : s11[c] = 0
  BY DEF ProcessesHold, ProcessTypes, Device!PacesAreKept
<1>4. s10' = [s10 EXCEPT ![p] = Device!Idle] /\ s9' = Nobody
  BY <1>2 DEF Device!Leave
<1>5. /\ s10' \in [Calls -> Processes'] /\ s10'[p] = Device!Idle
      /\ \A r \in Calls : r # p => s10'[r] = s10[r]
  BY <1>1, <1>3, <1>4 DEF Processes
<1>6. s10'[p].at = "idle"
  BY <1>5 DEF Device!Idle
<1>7. PollsHold'
  <2>1. CASE s6' = Device!Orphaned(p)
    BY <1>1, <1>5, <2>1, PollsAreOrphaned
  <2>2. CASE s6' = s6 /\ s10[p].at # "poll"
    BY <1>1, <1>5, <2>2, PollsRest
  <2> QED
    BY <2>1, <2>2
<1>8. s7' # Nobody => PacedNext(s7')
  BY <1>1, PacedNow DEF ProcessesHold, Device!PacesAreKept
<1>9. ProcessesHold'
  BY <1>1, <1>2, <1>3, <1>4, <1>5, <1>6, <1>8, ProcessActs
<1> QED
  BY <1>1, <1>7, <1>9, DeviceParts

\* Steps that end with the command.
LEMMA EndingsKeep ==
  ASSUME Device!IInv, NEW p \in Calls,
         Device!ClearPending(p) \/ Device!Stop(p) \/ Device!DropCredential(p)
  PROVE  Device!IInv'
<1>1. ServerHolds /\ PollsHold /\ ProcessesHold
  BY DeviceParts
<1>2. s8 \in {Nobody} \cup {t.code : t \in s5}
  BY <1>1 DEF ServerHolds, ServerTypes
<1>3. s10[p] # Device!Idle
  BY IdleIsNowhere DEF Device!ClearPending, Device!Stop, Device!DropCredential
<1>4. /\ Device!Leave(p) /\ s1' = s1 /\ UNCHANGED Device!server /\ s4' = s4 /\ s11' = s11
      /\ s8' \in {s8, Nobody} /\ s7' \in {s7, Nobody}
      /\ s6' = Device!Orphaned(p) \/ (s6' = s6 /\ s10[p].at # "poll")
  BY DEF Device!ClearPending, Device!Stop, Device!DropCredential
<1> QED
  BY <1>1, <1>2, <1>3, <1>4, LeavingKeeps

\* Steps that begin with the lock: a login, or a logout.
LEMMA BeginningsKeep ==
  ASSUME Device!IInv, NEW p \in Calls,
         (\E keep \in BOOLEAN : Device!Begin(p, keep)) \/ Device!Logout(p)
  PROVE  Device!IInv'
<1>1. ServerHolds /\ PollsHold /\ ProcessesHold
  BY DeviceParts
<1>2. /\ s10[p] = Device!Idle /\ s9 = Nobody /\ s9' = p /\ s1' = s1 /\ UNCHANGED Device!server
      /\ s4' = s4 /\ s6' = s6 /\ s8' = s8 /\ s11' = s11
  BY DEF Device!Begin, Device!Logout
<1>3. /\ s10 \in [Calls -> Processes] /\ s7 \in {Nobody} \cup Device!Requests
      /\ s11 \in [Codes -> Nat] /\ \A c \in Codes \ s3 : s11[c] = 0
  BY <1>1 DEF ProcessesHold, ProcessTypes, Device!PacesAreKept
<1>4. /\ ServerHolds' /\ s2' = s2 /\ s3' = s3 /\ s5' = s5
      /\ Processes' = Processes /\ Device!Requests' = Device!Requests
  BY <1>1, <1>2, ServerUnchanged DEF ServerHolds, ServerTypes
<1>5. s10[p].at # "poll"
  BY <1>2 DEF Device!Idle
<1>6. s7 # Nobody => Device!IsPaced(s7)
  BY <1>1 DEF ProcessesHold, Device!PacesAreKept
\* What the process is at.
<1>7. PICK w : /\ s10' = [s10 EXCEPT ![p] = w]
               /\ w \in Processes
               /\ w.at \in {"start", "clear", "wait", "logout"}
               /\ w.at = "wait" => Device!IsPaced(w)
               /\ s7' \in {s7, Nobody}
               /\ w.at \in {"start", "wait"} /\ ~w.keep => s7' = Nobody
  <2>1. CASE Device!Logout(p)
    <3>1. [at |-> "logout"] \in Processes /\ [at |-> "logout"].at = "logout"
      BY DEF Processes
    <3> QED
      BY <2>1, <3>1 DEF Device!Logout
  <2>2. ASSUME NEW keep \in BOOLEAN, Device!Begin(p, keep), s7 = Nobody
        PROVE  \E w : /\ s10' = [s10 EXCEPT ![p] = w]
                      /\ w \in Processes
                      /\ w.at \in {"start", "clear", "wait", "logout"}
                      /\ w.at = "wait" => Device!IsPaced(w)
                      /\ s7' \in {s7, Nobody}
                      /\ w.at \in {"start", "wait"} /\ ~w.keep => s7' = Nobody
    <3> DEFINE n == [at |-> "start", keep |-> keep]
    <3>1. n \in Processes /\ n.at = "start"
      BY DEF Processes
    <3>2. s10' = [s10 EXCEPT ![p] = n] /\ s7' = s7
      BY <2>2 DEF Device!Begin
    <3> QED
      BY <2>2, <3>1, <3>2
  <2>3. ASSUME NEW keep \in BOOLEAN, Device!Begin(p, keep), s7 # Nobody
        PROVE  \E w : /\ s10' = [s10 EXCEPT ![p] = w]
                      /\ w \in Processes
                      /\ w.at \in {"start", "clear", "wait", "logout"}
                      /\ w.at = "wait" => Device!IsPaced(w)
                      /\ s7' \in {s7, Nobody}
                      /\ w.at \in {"start", "wait"} /\ ~w.keep => s7' = Nobody
    <3> DEFINE at == IF s7.expires <= s1 THEN "clear" ELSE "wait"
               n == [at |-> at, keep |-> TRUE, code |-> s7.code, expires |-> s7.expires,
                     interval |-> s7.interval, next |-> s7.next]
    <3>1. s7 \in Device!Requests
      BY <1>3, <2>3
    <3>2. at \in {"clear", "wait"}
      OBVIOUS
    <3>3. s10' = [s10 EXCEPT ![p] = n] /\ s7' = s7
      BY <2>3 DEF Device!Begin
    <3> HIDE DEF at
    <3>4. n \in Processes /\ n.at = at /\ n.keep = TRUE
      BY <3>1, <3>2 DEF Processes, Device!Works, Device!Requests
    <3>5. Device!IsPaced(n)
      BY <1>6, <2>3 DEF Device!IsPaced
    <3> QED
      BY <3>2, <3>3, <3>4, <3>5
  <2> QED
    BY <2>1, <2>2, <2>3
<1>8. /\ s10'[p] = w /\ s10' \in [Calls -> Processes']
      /\ \A r \in Calls : r # p => s10'[r] = s10[r]
  BY <1>3, <1>4, <1>7
<1>9. s10'[p] # Device!Idle
  BY <1>7, <1>8 DEF Device!Idle
<1>10. PacedNext(s7') \/ s7' = Nobody
  BY <1>2, <1>4, <1>6, <1>7, PacedNow
<1>11. s10'[p].at = "wait" => PacedNext(s10'[p])
  BY <1>2, <1>4, <1>7, <1>8, PacedNow
<1>12. ProcessesHold'
  BY <1>1, <1>2, <1>3, <1>4, <1>7, <1>8, <1>9, <1>10, <1>11, ProcessActs
<1>13. PollsHold'
  BY <1>1, <1>2, <1>4, <1>5, <1>8, PollsRest
<1> QED
  BY <1>4, <1>12, <1>13, DeviceParts

\* What the keyring keeps of a process that works on its request.
LEMMA CheckpointKeeps ==
  ASSUME ServerHolds, ProcessesHold, NEW p \in Calls, s10'[p] \in Device!Works, s3' = s3,
         s10'[p].keep = s10[p].keep, ~s10[p].keep => s7 = Nobody, PacedNext(s10'[p]),
         Device!Checkpoint(p)
  PROVE  /\ s7' \in {Nobody} \cup Device!Requests'
         /\ s7' # Nobody => PacedNext(s7')
         /\ ~s10'[p].keep => s7' = Nobody
<1>1. CASE s10[p].keep
  <2> DEFINE r == [code |-> s10'[p].code, expires |-> s10'[p].expires,
                   interval |-> s10'[p].interval, next |-> s10'[p].next]
  <2>1. s7' = r
    BY <1>1 DEF Device!Checkpoint
  <2>2. r \in Device!Requests /\ Device!Requests' = Device!Requests
    BY WorksHave DEF Device!Requests
  <2>3. PacedNext(r)
    BY DEF PacedNext
  <2> QED
    BY <1>1, <2>1, <2>2, <2>3
<1>2. CASE ~s10[p].keep
  BY <1>2 DEF Device!Checkpoint
<1> QED
  BY <1>1, <1>2

\* A process that goes on with its request, with an unchanged server.
LEMMA WorkingKeeps ==
  ASSUME ServerHolds, ProcessesHold, NEW p \in Calls, s10[p] \in Device!Works,
         s1' = s1, UNCHANGED Device!server, s4' = s4, s9' = s9,
         s8' \in {Nobody} \cup {t.code : t \in s5},
         s10'[p].at \in {"wait", "send", "poll", "clear"}, s10'[p] \in Device!Works,
         \A r \in Calls : r # p => s10'[r] = s10[r], s10' \in [Calls -> Processes'],
         s11' \in [Codes -> Nat], \A c \in Codes \ s3 : s11'[c] = 0,
         s10'[p].at # "clear" => PacedNext(s10'[p]),
         s7' \in {Nobody} \cup Device!Requests', s7' # Nobody => PacedNext(s7'),
         s10'[p].at # "clear" /\ ~s10'[p].keep => s7' = Nobody
  PROVE  ServerHolds' /\ ProcessesHold'
<1>1. /\ ServerHolds' /\ s2' = s2 /\ s3' = s3 /\ s5' = s5
  BY ServerUnchanged
<1>2. s10[p] # Device!Idle /\ s10'[p] # Device!Idle
  BY DEF Device!Works, Device!Idle
<1>3. s9 = p
  BY <1>2, ActiveProcess
<1>4. ProcessesHold'
  BY <1>1, <1>2, <1>3, ProcessActs
<1> QED
  BY <1>1, <1>4

\* The code is written down, and a token is stored.
LEMMA SavingKeeps ==
  ASSUME Device!IInv, NEW p \in Calls, Device!Save(p) \/ Device!StoreToken(p)
  PROVE  Device!IInv'
<1>1. ServerHolds /\ PollsHold /\ ProcessesHold
  BY DeviceParts
<1>2. /\ s10[p].at \in {"save", "store"} /\ s1' = s1 /\ UNCHANGED Device!server /\ s4' = s4
      /\ s6' = s6 /\ s9' = s9 /\ s11' = s11
  BY DEF Device!Save, Device!StoreToken
<1>3. s10[p] # Device!Idle
  BY <1>2, IdleIsNowhere
<1>4. s10[p] \in Device!Works
  BY <1>1, <1>2, <1>3, ActiveProcess
<1>5. /\ s11 \in [Codes -> Nat] /\ \A c \in Codes \ s3 : s11[c] = 0
      /\ ProcessTypes /\ s7 \in {Nobody} \cup Device!Requests
      /\ s7 # Nobody => Device!IsPaced(s7)
  BY <1>1 DEF ProcessesHold, ProcessTypes, Device!PacesAreKept
<1>6. s8 \in {Nobody} \cup {t.code : t \in s5}
  BY <1>1 DEF ServerHolds, ServerTypes
<1>7. s2' = s2 /\ s3' = s3 /\ Device!Requests' = Device!Requests
  BY <1>2 DEF Device!server, Device!Requests
<1>8. CASE Device!Save(p)
  <2>1. Device!Moves(p, "wait") /\ Device!Checkpoint(p) /\ s8' = s8 /\ s10[p].at = "save"
    BY <1>8 DEF Device!Save
  <2>2. /\ s10'[p] \in Device!Works /\ s10'[p].at = "wait" /\ s10'[p].keep = s10[p].keep
        /\ s10'[p].code = s10[p].code /\ s10'[p].interval = s10[p].interval
        /\ s10'[p].next = s10[p].next
        /\ \A r \in Calls : r # p => s10'[r] = s10[r]
        /\ s10' \in [Calls -> Processes']
    BY <1>4, <1>5, <1>7, <2>1, WorkGoes
  <2>3. PacedNext(s10'[p])
    <3>1. PacedNext(s10[p])
      BY <1>1, <1>2, <1>3, <1>7, <2>1, ActiveProcess, PacedNow
    <3> QED
      BY <2>2, <3>1 DEF PacedNext
  <2>4. ~s10[p].keep => s7 = Nobody
    BY <1>1, <1>3, <2>1, ActiveProcess
  <2>5. /\ s7' \in {Nobody} \cup Device!Requests'
        /\ s7' # Nobody => PacedNext(s7')
        /\ ~s10'[p].keep => s7' = Nobody
    BY <1>1, <1>7, <2>1, <2>2, <2>3, <2>4, CheckpointKeeps
  <2>6. /\ s8' \in {Nobody} \cup {t.code : t \in s5}
        /\ s11' \in [Codes -> Nat] /\ \A c \in Codes \ s3 : s11'[c] = 0
    BY <1>2, <1>5, <1>6, <2>1
  <2>7. ServerHolds' /\ ProcessesHold'
    BY <1>1, <1>2, <1>4, <1>7, <2>2, <2>3, <2>5, <2>6, WorkingKeeps
  <2>8. PollsHold'
    BY <1>1, <1>2, <1>7, <2>1, <2>2, PollsRest
  <2> QED
    BY <2>7, <2>8, DeviceParts
<1>9. CASE Device!StoreToken(p)
  <2>1. /\ Device!Moves(p, "clear") /\ s8' \in {s8, s10[p].code} /\ s7' = s7
        /\ s10[p].at = "store"
    BY <1>9 DEF Device!StoreToken
  <2>2. /\ s10'[p] \in Device!Works /\ s10'[p].at = "clear"
        /\ \A r \in Calls : r # p => s10'[r] = s10[r]
        /\ s10' \in [Calls -> Processes']
    BY <1>4, <1>5, <1>7, <2>1, WorkGoes
  <2>3. s8' \in {Nobody} \cup {t.code : t \in s5}
    BY <1>1, <1>3, <1>6, <2>1, ActiveProcess
  <2>4. s7' # Nobody => PacedNext(s7')
    BY <1>2, <1>5, <1>7, <2>1, PacedNow
  <2>5. ServerHolds' /\ ProcessesHold'
    BY <1>1, <1>2, <1>4, <1>5, <1>7, <2>1, <2>2, <2>3, <2>4, WorkingKeeps
  <2>6. PollsHold'
    BY <1>1, <1>2, <1>7, <2>1, <2>2, PollsRest
  <2> QED
    BY <2>5, <2>6, DeviceParts
<1> QED
  BY <1>8, <1>9

\* The deadline of a request passes.
LEMMA GivingUpKeeps ==
  ASSUME Device!IInv, NEW p \in Calls, Device!GiveUp(p)
  PROVE  Device!IInv'
<1>1. ServerHolds /\ PollsHold /\ ProcessesHold
  BY DeviceParts
<1>2. /\ s10[p].at \in {"wait", "send", "poll"} /\ s1' = s1 /\ UNCHANGED Device!server /\ s4' = s4
      /\ s9' = s9 /\ s11' = s11 /\ s7' = s7 /\ s8' = s8
      /\ s6' = Device!Orphaned(p) /\ Device!Moves(p, "clear")
  BY DEF Device!GiveUp
<1>3. s10[p] # Device!Idle
  BY <1>2, IdleIsNowhere
<1>4. s10[p] \in Device!Works
  BY <1>1, <1>2, <1>3, ActiveProcess
<1>5. /\ s11 \in [Codes -> Nat] /\ \A c \in Codes \ s3 : s11[c] = 0
      /\ ProcessTypes /\ s7 \in {Nobody} \cup Device!Requests
      /\ s7 # Nobody => Device!IsPaced(s7)
  BY <1>1 DEF ProcessesHold, ProcessTypes, Device!PacesAreKept
<1>6. s8' \in {Nobody} \cup {t.code : t \in s5}
  BY <1>1, <1>2 DEF ServerHolds, ServerTypes
<1>7. s2' = s2 /\ s3' = s3 /\ Device!Requests' = Device!Requests
  BY <1>2 DEF Device!server, Device!Requests
<1>8. /\ s10'[p] \in Device!Works /\ s10'[p].at = "clear"
      /\ \A r \in Calls : r # p => s10'[r] = s10[r]
      /\ s10' \in [Calls -> Processes']
  BY <1>2, <1>4, <1>5, <1>7, WorkGoes
<1>9. s7' # Nobody => PacedNext(s7')
  BY <1>2, <1>5, <1>7, PacedNow
<1>10. ServerHolds' /\ ProcessesHold'
  BY <1>1, <1>2, <1>4, <1>5, <1>6, <1>7, <1>8, <1>9, WorkingKeeps
<1>11. PollsHold'
  BY <1>1, <1>2, <1>7, <1>8, PollsAreOrphaned
<1> QED
  BY <1>10, <1>11, DeviceParts

\* A poll is sent: it is the only one its process waits for.
LEMMA SendingKeeps ==
  ASSUME Device!IInv, NEW p \in Calls, Device!SendPoll(p)
  PROVE  Device!IInv'
<1>1. ServerHolds /\ PollsHold /\ ProcessesHold
  BY DeviceParts
<1> DEFINE n == [from |-> p, code |-> s10[p].code, read |-> "no"]
<1>2. /\ s10[p].at = "send" /\ s1' = s1 /\ UNCHANGED Device!server /\ s4' = s4
      /\ s9' = s9 /\ s11' = s11 /\ s7' = s7 /\ s8' = s8
      /\ s6' = s6 \cup {n} /\ Device!Moves(p, "poll")
  BY DEF Device!SendPoll
<1>3. s10[p] # Device!Idle
  BY <1>2, IdleIsNowhere
<1>4. s10[p] \in Device!Works
  BY <1>1, <1>2, <1>3, ActiveProcess
<1>5. /\ s11 \in [Codes -> Nat] /\ \A c \in Codes \ s3 : s11[c] = 0
      /\ ProcessTypes /\ s7 \in {Nobody} \cup Device!Requests
      /\ s7 # Nobody => Device!IsPaced(s7)
  BY <1>1 DEF ProcessesHold, ProcessTypes, Device!PacesAreKept
<1>6. s8' \in {Nobody} \cup {t.code : t \in s5}
  BY <1>1, <1>2 DEF ServerHolds, ServerTypes
<1>7. s2' = s2 /\ s3' = s3 /\ Device!Requests' = Device!Requests
  BY <1>2 DEF Device!server, Device!Requests
<1>8. /\ s10'[p] \in Device!Works /\ s10'[p].at = "poll" /\ s10'[p].keep = s10[p].keep
      /\ s10'[p].code = s10[p].code /\ s10'[p].interval = s10[p].interval
      /\ s10'[p].next = s10[p].next
      /\ \A r \in Calls : r # p => s10'[r] = s10[r]
      /\ s10' \in [Calls -> Processes']
  BY <1>2, <1>4, <1>5, <1>7, WorkGoes
<1>9. s7' # Nobody => PacedNext(s7')
  BY <1>2, <1>5, <1>7, PacedNow
<1>10. PacedNext(s10'[p])
  <2>1. PacedNext(s10[p])
    BY <1>1, <1>2, <1>3, <1>7, ActiveProcess, PacedNow
  <2> QED
    BY <1>8, <2>1 DEF PacedNext
<1>11. ~s10'[p].keep => s7' = Nobody
  BY <1>1, <1>2, <1>3, <1>8, ActiveProcess
<1>12. ServerHolds' /\ ProcessesHold'
  BY <1>1, <1>2, <1>4, <1>5, <1>6, <1>7, <1>8, <1>9, <1>10, <1>11, WorkingKeeps
<1>13. PollsHold'
  <2>1. n \in Polls /\ n.from = p /\ n.code = s10[p].code
    BY <1>4 DEF Polls, Device!Works
  <2> HIDE DEF n
  <2>2. s6' \subseteq Polls'
    BY <1>1, <1>2, <1>7, <2>1 DEF PollsHold, Polls
  <2>3. \A q \in s6 : q.from # p /\ (q.from # Nobody => q.from \in Calls)
    <3>1. p # Nobody
      BY DeviceAssumption
    <3> QED
      BY <1>1, <1>2, <3>1 DEF PollsHold, Polls, Device!PollsAreWaitedFor
  <2>4. Device!PollsAreWaitedFor'
    BY <1>1, <1>2, <1>8, <2>1, <2>3 DEF PollsHold, Device!PollsAreWaitedFor
  <2> QED
    BY <2>2, <2>4 DEF PollsHold
<1> QED
  BY <1>12, <1>13, DeviceParts

\* A poll is put off before it is sent.
LEMMA PreparingKeeps ==
  ASSUME Device!IInv, NEW p \in Calls, Device!PreparePoll(p)
  PROVE  Device!IInv'
<1>1. ServerHolds /\ PollsHold /\ ProcessesHold
  BY DeviceParts
<1>2. /\ s10[p].at = "wait" /\ s1' = s1 /\ UNCHANGED Device!server /\ s4' = s4
      /\ s9' = s9 /\ s8' = s8 /\ s6' = s6 /\ s10[p].next <= s1
      /\ s11' = [s11 EXCEPT ![s10[p].code] = s1 + s10[p].interval]
      /\ s10' = [s10 EXCEPT ![p] = Device!Paced(s10[p], "send", s10[p].interval)]
      /\ Device!Checkpoint(p)
  BY DEF Device!PreparePoll, Device!PutOff
<1>3. s10[p] # Device!Idle
  BY <1>2, IdleIsNowhere
<1>4. s10[p] \in Device!Works
  BY <1>1, <1>2, <1>3, ActiveProcess
<1>5. /\ s11 \in [Codes -> Nat] /\ \A c \in Codes \ s3 : s11[c] = 0
      /\ ProcessTypes
  BY <1>1 DEF ProcessesHold, ProcessTypes, Device!PacesAreKept
<1>6. s8' \in {Nobody} \cup {t.code : t \in s5} /\ s1 \in Nat /\ s3 \subseteq Codes
  BY <1>1, <1>2 DEF ServerHolds, ServerTypes
<1>7. s2' = s2 /\ s3' = s3 /\ Device!Requests' = Device!Requests
  BY <1>2 DEF Device!server, Device!Requests
<1>8. s10[p].interval \in Device!Intervals /\ s10[p].code \in s3
  BY <1>4, WorksHave
<1>9. /\ s10'[p] \in Device!Works /\ s10'[p].at = "send" /\ s10'[p].keep = s10[p].keep
      /\ s10'[p].code = s10[p].code /\ s10'[p].interval = s10[p].interval
      /\ s10'[p].next = s1 + s10[p].interval
      /\ \A r \in Calls : r # p => s10'[r] = s10[r]
      /\ s10' \in [Calls -> Processes']
  BY <1>2, <1>4, <1>5, <1>6, <1>7, <1>8, WorkIsPaced
<1>10. s1 + s10[p].interval \in Nat
  BY <1>6, <1>8, DeviceAssumption DEF Device!Intervals
<1>11. /\ s11' \in [Codes -> Nat] /\ \A c \in Codes \ s3 : s11'[c] = 0
       /\ s11'[s10[p].code] = s1 + s10[p].interval
  BY <1>2, <1>5, <1>6, <1>8, <1>10
<1>12. PacedNext(s10'[p])
  <2>1. Device!IsPaced(s10[p])
    BY <1>1, <1>2, <1>3, ActiveProcess
  <2>2. s11'[s10'[p].code] <= s10'[p].next /\ s10'[p].next <= s1' + s10'[p].interval
    BY <1>2, <1>9, <1>10, <1>11
  <2> QED
    BY <1>7, <1>9, <2>1, <2>2 DEF Device!IsPaced, PacedNext
<1>13. ~s10[p].keep => s7 = Nobody
  BY <1>1, <1>2, <1>3, ActiveProcess
<1>14. /\ s7' \in {Nobody} \cup Device!Requests'
       /\ s7' # Nobody => PacedNext(s7')
       /\ ~s10'[p].keep => s7' = Nobody
  BY <1>1, <1>2, <1>7, <1>9, <1>12, <1>13, CheckpointKeeps
<1>15. ServerHolds' /\ ProcessesHold'
  BY <1>1, <1>2, <1>4, <1>6, <1>7, <1>9, <1>11, <1>12, <1>14, WorkingKeeps
<1>16. PollsHold'
  BY <1>1, <1>2, <1>7, <1>9, PollsRest
<1> QED
  BY <1>15, <1>16, DeviceParts

\* A code is made, or the server is full and the command ends.
LEMMA StartingKeeps ==
  ASSUME Device!IInv, NEW p \in Calls, NEW c \in Codes, Device!Start(p, c)
  PROVE  Device!IInv'
<1>1. ServerHolds /\ PollsHold /\ ProcessesHold
  BY DeviceParts
<1>2. /\ s10[p].at = "start" /\ c \in Codes \ s3 /\ s1' = s1 /\ s4' = s4 /\ s6' = s6
      /\ s7' = s7 /\ s8' = s8 /\ s11' = s11
  BY DEF Device!Start
<1>3. s10[p] # Device!Idle
  BY <1>2, IdleIsNowhere
<1>4. ServerTypes /\ ProcessTypes /\ s1 \in Nat /\ s8 \in {Nobody} \cup {t.code : t \in s5}
  BY <1>1 DEF ServerHolds, ServerTypes, ProcessesHold
<1>5. CASE ~Device!Admits
  <2>1. Device!Leave(p) /\ UNCHANGED Device!server
    BY <1>5 DEF Device!Start
  <2> QED
    BY <1>1, <1>2, <1>3, <1>4, <2>1, LeavingKeeps
<1>6. CASE Device!Admits
  <2> DEFINE deadline == s1 + Lifetime
             next == s1 + Interval
             w == [at |-> "save", keep |-> s10[p].keep, code |-> c, expires |-> deadline,
                   interval |-> Interval, next |-> next]
             row == [status |-> "pending", expires |-> deadline, interval |-> Interval,
                     polled |-> 0, user |-> Nobody, stamp |-> 0]
             live == Device!Live(s1)
  <2>1. /\ s2' = [d \in live \cup {c} |-> IF d = c THEN row ELSE s2[d]]
        /\ s3' = s3 \cup {c} /\ s5' = s5 /\ s10' = [s10 EXCEPT ![p] = w] /\ s9' = s9
    BY <1>6 DEF Device!Start, Device!CreateRequest, Device!NewRow
  <2>2. deadline \in Nat /\ next \in Nat /\ Interval \in Device!Intervals
    BY <1>4, DeviceAssumption DEF Device!Intervals
  <2>3. live \subseteq DOMAIN s2
    BY DEF Device!Live
  <2> HIDE DEF deadline, live
  <2>4. row \in DeviceRows /\ row.status = "pending" /\ row.interval = Interval
    BY <2>2 DEF DeviceRows, Device!Statuses
  <2> HIDE DEF row
  <2>5. /\ DOMAIN s2' = live \cup {c} /\ s2'[c] = row
        /\ \A d \in live : d # c /\ s2'[d] = s2[d]
    BY <1>2, <1>4, <2>1, <2>3 DEF ServerTypes
  <2>6. DeviceRows' = DeviceRows
    BY DEF DeviceRows, Device!Statuses, Device!Intervals
  <2>7. s2' \in [DOMAIN s2' -> DeviceRows]
    <3>1. \A d \in live \cup {c} : (IF d = c THEN row ELSE s2[d]) \in DeviceRows
      BY <1>4, <2>3, <2>4 DEF ServerTypes
    <3> QED
      BY <2>1, <3>1
  <2>8. ServerTypes'
    <3>1. s5' \subseteq [code : s3', at : Nat]
      BY <1>4, <2>1 DEF ServerTypes
    <3> QED
      BY <1>2, <1>4, <2>1, <2>3, <2>5, <2>6, <2>7, <3>1 DEF ServerTypes
  <2>9. Device!OneTokenPerRequest' /\ Device!ApprovalsHaveUsers'
    <3>1. \A t \in s5 : t.code # c
      BY <1>2, <1>4 DEF ServerTypes
    <3>2. Device!OneTokenPerRequest'
      BY <1>1, <2>1, <2>3, <2>5, <3>1 DEF ServerHolds, Device!OneTokenPerRequest
    <3>3. Device!ApprovalsHaveUsers'
      BY <1>1, <2>3, <2>4, <2>5 DEF ServerHolds, Device!ApprovalsHaveUsers
    <3> QED
      BY <3>2, <3>3
  <2>10. ServerHolds'
    BY <2>8, <2>9 DEF ServerHolds
  <2>11. /\ s10 \in [Calls -> Processes] /\ s7 \in {Nobody} \cup Device!Requests
         /\ s11 \in [Codes -> Nat] /\ \A d \in Codes \ s3 : s11[d] = 0
         /\ s7 # Nobody => Device!IsPaced(s7)
    BY <1>1 DEF ProcessesHold, ProcessTypes, Device!PacesAreKept
  <2>12. /\ s9 = p /\ s10[p].keep \in BOOLEAN
         /\ ~s10[p].keep => s7 = Nobody
    <3>1. s10[p].keep \in BOOLEAN
      BY <1>2, <2>11, ProcessesAre
    <3> QED
      BY <1>1, <1>2, <1>3, <3>1, ActiveProcess
  <2>13. /\ w \in Device!Works' /\ w.at = "save" /\ w.keep = s10[p].keep
         /\ w.code = c /\ w.interval = Interval /\ w.next = next
    BY <2>1, <2>2, <2>12 DEF Device!Works, Device!Intervals
  <2> HIDE DEF w, next
  <2>14. Processes \subseteq Processes' /\ Device!Requests \subseteq Device!Requests'
    BY <2>1 DEF Processes, Device!Works, Device!Requests, Device!Idle, Device!Intervals
  <2>15. w \in Processes' /\ w # Device!Idle
    BY <2>13 DEF Processes, Device!Idle
  <2>16. /\ s10'[p] = w /\ s10' \in [Calls -> Processes']
         /\ \A r \in Calls : r # p => s10'[r] = s10[r]
    BY <2>1, <2>11, <2>14, <2>15
  <2>17. PacedNext(w)
    <3>1. s11'[c] <= next /\ next <= s1' + Interval
      BY <1>2, <2>2, <2>11, DeviceAssumption DEF next
    <3>2. Interval <= row.interval
      BY <2>4, DeviceAssumption
    <3> QED
      BY <2>5, <2>13, <3>1, <3>2 DEF PacedNext
  <2>18. s7' # Nobody => PacedNext(s7')
    <3> SUFFICES ASSUME s7 # Nobody PROVE PacedNext(s7)
      BY <1>2
    <3>1. /\ s7.code \in s3 /\ s7.interval \in Device!Intervals /\ s7.next \in Nat
          /\ Device!IsPaced(s7)
      BY <2>11 DEF Device!Requests
    <3>2. s7.code \in DOMAIN s2' => /\ s7.code \in DOMAIN s2
                                    /\ s2'[s7.code].interval \in Device!Intervals
                                    /\ s2[s7.code].interval <= s2'[s7.code].interval
      BY <1>2, <1>4, <2>3, <2>5, <3>1, IntervalsAre
    <3>3. s1' \in Nat /\ s1 <= s1'
      BY <1>2, <1>4
    <3> QED
      BY <1>2, <1>4, <2>11, <3>1, <3>2, <3>3, PacedStays
  <2>19. ProcessesHold'
    <3>1. s7' \in {Nobody} \cup Device!Requests' /\ s11' \in [Codes -> Nat]
      BY <1>2, <2>11, <2>14
    <3>2. \A d \in Codes \ s3' : s11'[d] = 0
      BY <1>2, <2>1, <2>11
    <3>3. s10'[p] # Device!Idle /\ s9' = p /\ s10'[p].at = "save"
      BY <2>1, <2>12, <2>13, <2>15, <2>16
    <3>4. ~s10'[p].keep => s7' = Nobody
      BY <1>2, <2>12, <2>13, <2>16
    <3> QED
      BY <1>1, <2>12, <2>16, <2>17, <2>18, <3>1, <3>2, <3>3, <3>4, ProcessActs
  <2>20. PollsHold'
    BY <1>1, <1>2, <2>1, <2>16, PollsRest
  <2> QED
    BY <2>10, <2>19, <2>20, DeviceParts
<1> QED
  BY <1>5, <1>6

---------------------------------------------------------------------------
(* A poll is answered.                                                     *)

Answers == {"invalid", "pending", "expired", "denied", "slow_down", "authorized"}

\* What an answer says of the row.
LEMMA AnswersTell ==
  ASSUME ServerHolds, NEW q \in Polls, q.code \in DOMAIN s2, NEW a, a = Device!Answer(q)
  PROVE  /\ a \in Answers
         /\ a = "authorized" => /\ s2[q.code].status = "approved" /\ Device!Stands(q.code)
                                /\ s1 < s2[q.code].expires
         /\ s2[q.code].status = "consumed" => a = "invalid"
         /\ s2[q.code].status = "approved" /\ a = "denied" => ~Device!Stands(q.code)
<1>1. s2[q.code] \in DeviceRows
  BY IntervalsAre DEF ServerHolds
<1>2. s2[q.code].status \in Device!Statuses /\ s2[q.code].expires \in Nat /\ s1 \in Nat
  BY <1>1 DEF DeviceRows, ServerHolds, ServerTypes
<1>3. s2[q.code].status = "approved" => s2[q.code].user = "user"
  BY DEF ServerHolds, Device!ApprovalsHaveUsers
<1>4. "user" # Nobody
  BY DeviceAssumption
<1>5. a \in Answers
  BY DEF Device!Answer, Answers
<1>6. ASSUME a = "authorized"
      PROVE  /\ s2[q.code].status = "approved" /\ Device!Stands(q.code)
             /\ s1 < s2[q.code].expires
  <2>1. /\ ~Device!NotKnownTo(q) /\ s2[q.code].status # "consumed"
        /\ q.code \in Device!Live(s1) /\ s2[q.code].status # "denied"
        /\ s2[q.code].status # "pending" /\ Device!Stands(q.code)
    BY <1>6 DEF Device!Answer
  <2> QED
    BY <1>2, <2>1 DEF Device!Live, Device!Statuses
<1>7. ASSUME s2[q.code].status = "consumed" PROVE a = "invalid"
  BY <1>7 DEF Device!Answer, Device!NotKnownTo
<1>8. ASSUME s2[q.code].status = "approved", a = "denied" PROVE ~Device!Stands(q.code)
  <2>1. q.read = Nobody \/ ~Device!Stands(q.code)
    BY <1>8 DEF Device!Answer
  <2>2. s2[q.code].user = q.read
    BY <1>8 DEF Device!Answer, Device!NotKnownTo
  <2> QED
    BY <1>3, <1>4, <1>8, <2>1, <2>2
<1> QED
  BY <1>5, <1>6, <1>7, <1>8

\* An interval that was too short grows, up to the longest.
LEMMA SlowerIsLonger ==
  ASSUME ServerTypes, NEW c \in DOMAIN s2
  PROVE  /\ Device!Slower(c) \in Device!Intervals
         /\ s2[c].interval <= Device!Slower(c)
<1>1. s2[c].interval \in Device!Intervals
  BY IntervalsAre
<1> QED
  BY <1>1, DeviceAssumption DEF Device!Slower, Device!Intervals

\* What the row is after the answer.
LEMMA RowsAreAnswered ==
  ASSUME ServerHolds, NEW q \in Polls, q.code \in DOMAIN s2, NEW a, a = Device!Answer(q),
         NEW row, row = Device!RowAfter(q, a)
  PROVE  /\ row \in DeviceRows /\ row.user = s2[q.code].user
         /\ row.expires = s2[q.code].expires
         /\ row.interval \in Device!Intervals /\ s2[q.code].interval <= row.interval
         /\ row.status = IF a = "authorized" THEN "consumed"
                         ELSE IF a = "denied" THEN "denied" ELSE s2[q.code].status
<1> DEFINE status == IF a = "authorized" THEN "consumed"
                     ELSE IF a = "denied" THEN "denied" ELSE s2[q.code].status
           interval == IF a = "slow_down" THEN Device!Slower(q.code) ELSE s2[q.code].interval
           new == [s2[q.code] EXCEPT !.polled = s1, !.status = status, !.interval = interval]
<1>1. /\ s2[q.code] \in DeviceRows /\ s1 \in Nat
      /\ s2[q.code].interval \in Device!Intervals
      /\ s2[q.code].interval <= s2[q.code].interval
  BY IntervalsAre DEF ServerHolds, ServerTypes
<1>2. row = IF Device!Noted(q, a) THEN new ELSE s2[q.code]
  BY DEF Device!RowAfter, Device!RowWith
<1>3. ~Device!Noted(q, a) => status = s2[q.code].status
  BY DEF Device!Noted
<1>4. status \in Device!Statuses
  BY <1>1 DEF DeviceRows, Device!Statuses
<1>5. interval \in Device!Intervals /\ s2[q.code].interval <= interval
  BY <1>1, SlowerIsLonger DEF ServerHolds
<1> HIDE DEF status, interval
<1>6. /\ new \in DeviceRows /\ new.user = s2[q.code].user /\ new.expires = s2[q.code].expires
      /\ new.interval = interval /\ new.status = status
  BY <1>1, <1>4, <1>5 DEF DeviceRows
<1> HIDE DEF new
<1>7. row.status = status
  BY <1>2, <1>3, <1>6
<1>8. /\ row \in DeviceRows /\ row.user = s2[q.code].user /\ row.expires = s2[q.code].expires
      /\ row.interval \in Device!Intervals /\ s2[q.code].interval <= row.interval
  BY <1>1, <1>2, <1>5, <1>6
<1> QED
  BY <1>7, <1>8 DEF status

\* The server after an answer.
LEMMA AnswersKeepRows ==
  ASSUME ServerHolds, NEW q \in s6, q \in Polls, Device!ServePoll(q)
  PROVE  /\ ServerHolds' /\ DOMAIN s2' = DOMAIN s2 /\ s5 \subseteq s5'
         /\ \A c \in DOMAIN s2 : /\ s2'[c].interval \in Device!Intervals
                                 /\ s2[c].interval <= s2'[c].interval
         /\ Device!Answer(q) = "authorized" => \E t \in s5' : t.code = q.code
         /\ Device!Answer(q) \in Answers
         /\ Device!Answer(q) \in {"pending", "slow_down"} => q.code \in DOMAIN s2
<1>1. PICK a : a = Device!Answer(q)
  OBVIOUS
<1>2. /\ s2' = IF q.code \in DOMAIN s2 THEN [s2 EXCEPT ![q.code] = Device!RowAfter(q, a)] ELSE s2
      /\ s5' = IF a = "authorized" THEN s5 \cup {[code |-> q.code, at |-> s1]} ELSE s5
      /\ s1' = s1 /\ s3' = s3 /\ s4' = s4 /\ s8' = s8
  BY <1>1 DEF Device!ServePoll
<1>3. ServerTypes
  BY DEF ServerHolds
<1>4. CASE q.code \notin DOMAIN s2
  <2>1. a = "invalid"
    BY <1>1, <1>4 DEF Device!Answer
  <2>2. s2' = s2 /\ s5' = s5
    BY <1>2, <1>4, <2>1
  <2>3. ServerHolds'
    BY <1>2, <1>3, <2>2, ServerRests DEF ServerTypes
  <2> QED
    BY <1>1, <1>3, <2>1, <2>2, <2>3, IntervalsAre DEF Answers
<1>5. CASE q.code \in DOMAIN s2
  <2>1. PICK row : row = Device!RowAfter(q, a)
    OBVIOUS
  <2>2. /\ row \in DeviceRows /\ row.user = s2[q.code].user
        /\ row.expires = s2[q.code].expires
        /\ row.interval \in Device!Intervals /\ s2[q.code].interval <= row.interval
        /\ row.status = IF a = "authorized" THEN "consumed"
                        ELSE IF a = "denied" THEN "denied" ELSE s2[q.code].status
    BY <1>1, <1>5, <2>1, RowsAreAnswered
  <2>3. /\ a \in Answers
        /\ a = "authorized" => /\ s2[q.code].status = "approved" /\ Device!Stands(q.code)
                               /\ s1 < s2[q.code].expires
        /\ s2[q.code].status = "consumed" => a = "invalid"
    BY <1>1, <1>5, AnswersTell
  <2>4. /\ DOMAIN s2' = DOMAIN s2 /\ s2'[q.code] = row
        /\ \A c \in DOMAIN s2 : c # q.code => s2'[c] = s2[c]
    BY <1>2, <1>3, <1>5, <2>1 DEF ServerTypes
  <2>5. s2' \in [DOMAIN s2' -> DeviceRows]
    BY <1>2, <1>3, <1>5, <2>1, <2>2, <2>4 DEF ServerTypes
  <2>6. q.code \in s3 /\ s1 \in Nat
    BY <1>3 DEF Polls, ServerTypes
  <2>7. ServerTypes'
    <3>1. DeviceRows' = DeviceRows
      BY DEF DeviceRows, Device!Statuses, Device!Intervals
    <3>2. s5' \subseteq [code : s3, at : Nat] /\ s5 \subseteq s5'
      BY <1>2, <1>3, <2>6 DEF ServerTypes
    <3>3. s8' \in {Nobody} \cup {t.code : t \in s5'}
      BY <1>2, <1>3, <3>2 DEF ServerTypes
    <3> QED
      BY <1>2, <1>3, <2>4, <2>5, <3>1, <3>2, <3>3 DEF ServerTypes
  <2>8. Device!OneTokenPerRequest'
    <3>1. CASE a = "authorized"
      <4> DEFINE new == [code |-> q.code, at |-> s1]
      <4>1. \A t \in s5 : t.code # q.code
        BY <1>5, <2>3, <3>1 DEF ServerHolds, Device!OneTokenPerRequest
      <4>2. s5' = s5 \cup {new} /\ new.code = q.code /\ new.at = s1
        BY <1>2, <3>1
      <4> HIDE DEF new
      <4>3. s2'[q.code].status = "consumed" /\ s1 < s2'[q.code].expires
        BY <2>2, <2>3, <2>4, <3>1
      <4>4. \A t, u \in s5' : t.code = u.code => t = u
        BY <4>1, <4>2 DEF ServerHolds, Device!OneTokenPerRequest
      <4>5. \A t \in s5' : t.code \in DOMAIN s2' =>
              s2'[t.code].status = "consumed" /\ t.at < s2'[t.code].expires
        BY <2>4, <4>1, <4>2, <4>3 DEF ServerHolds, Device!OneTokenPerRequest
      <4> QED
        BY <4>4, <4>5 DEF Device!OneTokenPerRequest
    <3>2. CASE a # "authorized"
      <4>1. s5' = s5
        BY <1>2, <3>2
      <4>2. s2[q.code].status = "consumed" => s2'[q.code].status = "consumed"
        BY <2>2, <2>3, <2>4, <3>2
      <4>3. \A t \in s5 : t.code \in DOMAIN s2 =>
              s2[t.code].status = "consumed" /\ t.at < s2[t.code].expires
        BY DEF ServerHolds, Device!OneTokenPerRequest
      <4>4. \A t \in s5' : t.code \in DOMAIN s2' =>
              s2'[t.code].status = "consumed" /\ t.at < s2'[t.code].expires
        BY <2>2, <2>4, <4>1, <4>2, <4>3
      <4> QED
        BY <4>1, <4>4 DEF ServerHolds, Device!OneTokenPerRequest
    <3> QED
      BY <3>1, <3>2
  <2>9. Device!ApprovalsHaveUsers'
    <3>1. row.status = "approved" => row.user = "user"
      BY <1>5, <2>2 DEF ServerHolds, Device!ApprovalsHaveUsers
    <3> QED
      BY <2>4, <3>1 DEF ServerHolds, Device!ApprovalsHaveUsers
  <2>10. \A c \in DOMAIN s2 : /\ s2'[c].interval \in Device!Intervals
                              /\ s2[c].interval <= s2'[c].interval
    BY <1>3, <2>2, <2>4, IntervalsAre
  <2>11. s5 \subseteq s5' /\ (a = "authorized" => \E t \in s5' : t.code = q.code)
    <3>1. [code |-> q.code, at |-> s1].code = q.code
      OBVIOUS
    <3>2. a = "authorized" => [code |-> q.code, at |-> s1] \in s5'
      BY <1>2
    <3> QED
      BY <1>2, <3>1, <3>2
  <2> QED
    BY <1>1, <1>5, <2>3, <2>4, <2>7, <2>8, <2>9, <2>10, <2>11 DEF ServerHolds
<1> QED
  BY <1>4, <1>5

\* An answered poll leaves the rest of the polls as they were.
LEMMA AnswersEndPolls ==
  ASSUME PollsHold, NEW q \in s6, s6' = s6 \ {q}, s3' = s3,
         \A r \in Calls : r # q.from => s10'[r] = s10[r]
  PROVE  PollsHold'
<1>1. \A r \in s6 : r # q /\ r.from # Nobody => r.from # q.from /\ r.from \in Calls
  BY DEF PollsHold, Polls, Device!PollsAreWaitedFor
<1>2. s6' \subseteq Polls'
  BY DEF PollsHold, Polls
<1>3. Device!PollsAreWaitedFor'
  BY <1>1 DEF PollsHold, Device!PollsAreWaitedFor
<1> QED
  BY <1>2, <1>3 DEF PollsHold

\* A redeemed, refused or early poll: the row and whoever waits go on together.
LEMMA AnsweringKeeps ==
  ASSUME Device!IInv, NEW q \in s6, Device!ServePoll(q)
  PROVE  Device!IInv'
<1>1. ServerHolds /\ PollsHold /\ ProcessesHold
  BY DeviceParts
<1>2. q \in Polls
  BY <1>1 DEF PollsHold
<1>3. PICK a : a = Device!Answer(q)
  OBVIOUS
<1>4. /\ ServerHolds' /\ DOMAIN s2' = DOMAIN s2 /\ s5 \subseteq s5'
      /\ \A c \in DOMAIN s2 : /\ s2'[c].interval \in Device!Intervals
                              /\ s2[c].interval <= s2'[c].interval
      /\ a = "authorized" => \E t \in s5' : t.code = q.code
      /\ a \in Answers
      /\ a \in {"pending", "slow_down"} => q.code \in DOMAIN s2
  BY <1>1, <1>2, <1>3, AnswersKeepRows
<1>5. /\ s1' = s1 /\ s3' = s3 /\ s4' = s4 /\ s6' = s6 \ {q} /\ s8' = s8 /\ s9' = s9 /\ s11' = s11
  BY DEF Device!ServePoll
<1>6. ServerTypes /\ ProcessTypes /\ s1 \in Nat /\ s1 <= s1
  BY <1>1 DEF ServerHolds, ServerTypes, ProcessesHold
<1>7. CASE q.from = Nobody
  <2>1. s7' = s7 /\ s10' = s10
    BY <1>7 DEF Device!ServePoll
  <2>2. ProcessesHold'
    BY <1>1, <1>4, <1>5, <1>6, <2>1, ProcessesRest
  <2>3. PollsHold'
    BY <1>1, <1>5, <2>1, AnswersEndPolls
  <2> QED
    BY <1>4, <2>2, <2>3, DeviceParts
<1>8. CASE q.from # Nobody
  <2>1. PICK p : p = q.from
    OBVIOUS
  <2>2. p \in Calls /\ s10[p].at = "poll" /\ s10[p].code = q.code
    BY <1>1, <1>2, <1>8, <2>1 DEF PollsHold, Polls, Device!PollsAreWaitedFor
  <2>3. s10[p] # Device!Idle
    BY <2>2, IdleIsNowhere
  <2>4. /\ s9 = p /\ s10[p] \in Device!Works /\ Device!IsPaced(s10[p])
        /\ ~s10[p].keep => s7 = Nobody
    BY <1>1, <2>2, <2>3, ActiveProcess
  <2>5. /\ s7 \in {Nobody} \cup Device!Requests /\ s11 \in [Codes -> Nat]
        /\ \A c \in Codes \ s3 : s11[c] = 0
        /\ s7 # Nobody => Device!IsPaced(s7)
    BY <1>1 DEF ProcessesHold, ProcessTypes, Device!PacesAreKept
  <2>6. Device!Requests' = Device!Requests
    BY <1>5 DEF Device!Requests
  \* The checkpoint of before, if it stays.
  <2>7. s7 # Nobody => PacedNext(s7)
    <3> SUFFICES ASSUME s7 # Nobody PROVE PacedNext(s7)
      OBVIOUS
    <3>1. /\ s7.code \in s3 /\ s7.interval \in Device!Intervals /\ s7.next \in Nat
          /\ Device!IsPaced(s7)
      BY <2>5 DEF Device!Requests
    <3> QED
      BY <1>4, <1>5, <1>6, <2>5, <3>1, PacedStays
  <2>8. \A r \in Calls : r # p => s10'[r] = s10[r]
    <3>1. PICK i : Device!Receive(p, a, i)
      BY <1>3, <1>8, <2>1 DEF Device!ServePoll
    <3>2. \E w : s10' = [s10 EXCEPT ![p] = w]
      <4>1. CASE a \in {"pending", "slow_down"}
        BY <3>1, <4>1 DEF Device!Receive
      <4>2. CASE a \notin {"pending", "slow_down"}
        BY <3>1, <4>2 DEF Device!Receive, Device!Moves
      <4> QED
        BY <4>1, <4>2
    <3>3. s10 \in [Calls -> Processes]
      BY <1>6 DEF ProcessTypes
    <3> QED
      BY <3>2, <3>3
  <2>9. PollsHold'
    BY <1>1, <1>5, <2>1, <2>8, AnswersEndPolls
  <2>10. CASE a \in {"pending", "slow_down"}
    <3>1. PICK i : i = s2'[q.code].interval
      OBVIOUS
    <3>2. /\ s10' = [s10 EXCEPT ![p] = Device!Paced(s10[p], "wait", i)]
          /\ Device!Checkpoint(p)
      BY <1>3, <1>8, <2>1, <2>10, <3>1 DEF Device!ServePoll, Device!Receive
    <3>3. i \in Device!Intervals /\ i \in Nat
      BY <1>4, <2>10, <3>1, DeviceAssumption DEF Device!Intervals
    <3>4. /\ s10'[p] \in Device!Works /\ s10'[p].at = "wait" /\ s10'[p].keep = s10[p].keep
          /\ s10'[p].code = s10[p].code /\ s10'[p].interval = i
          /\ s10'[p].next = s1 + i
          /\ s10' \in [Calls -> Processes']
      BY <1>5, <1>6, <2>2, <2>4, <3>2, <3>3, WorkIsPaced
    <3>5. PacedNext(s10'[p])
      <4>1. PICK n, j, k : n = s10[p].next /\ j = s10[p].interval /\ k = s2[q.code].interval
        OBVIOUS
      <4>2. /\ n \in Nat /\ j \in Nat /\ k \in Nat /\ s11[q.code] \in Nat
            /\ j <= k /\ k <= i /\ s11[q.code] <= n /\ n <= s1 + j
        <5>1. n \in Nat /\ j \in Nat /\ q.code \in Codes
          BY <1>6, <2>2, <2>4, <4>1, WorksHave, DeviceAssumption DEF Device!Intervals, ServerTypes
        <5>2. k \in Nat /\ k <= i
          BY <1>4, <1>6, <2>10, <3>1, <4>1, IntervalsAre, DeviceAssumption DEF Device!Intervals
        <5>3. j <= k /\ s11[q.code] <= n /\ n <= s1 + j
          BY <1>4, <2>2, <2>4, <2>10, <4>1 DEF Device!IsPaced
        <5> QED
          BY <2>5, <5>1, <5>2, <5>3
      <4>3. s11[q.code] <= s1 + i /\ s1 + i <= s1 + i
        BY <1>6, <3>3, <4>2
      <4>4. s11'[s10'[p].code] <= s10'[p].next /\ s10'[p].next <= s1' + s10'[p].interval
        BY <1>5, <2>2, <3>4, <4>3
      <4>5. s10'[p].interval <= s2'[s10'[p].code].interval
        BY <2>2, <3>1, <3>3, <3>4
      <4> QED
        BY <4>4, <4>5 DEF PacedNext
    <3>6. /\ s7' \in {Nobody} \cup Device!Requests'
          /\ s7' # Nobody => PacedNext(s7')
          /\ ~s10'[p].keep => s7' = Nobody
      BY <1>1, <1>5, <2>2, <2>4, <3>2, <3>4, <3>5, CheckpointKeeps
    <3>7. ProcessesHold'
      <4>1. s10'[p] # Device!Idle /\ s9' = p
        BY <1>5, <2>4, <3>4 DEF Device!Idle
      <4>2. s11' \in [Codes -> Nat] /\ \A c \in Codes \ s3' : s11'[c] = 0
        BY <1>5, <2>5
      <4> QED
        BY <1>1, <2>2, <2>4, <2>8, <3>4, <3>5, <3>6, <4>1, <4>2, ProcessActs
    <3> QED
      BY <1>4, <2>9, <3>7, DeviceParts
  <2>11. CASE a \notin {"pending", "slow_down"}
    <3>1. PICK at \in {"store", "clear"} : at = IF a = "authorized" THEN "store" ELSE "clear"
      OBVIOUS
    <3>2. Device!Moves(p, at) /\ s7' = s7
      BY <1>3, <1>8, <2>1, <2>11, <3>1 DEF Device!ServePoll, Device!Receive
    <3>3. /\ s10'[p] \in Device!Works /\ s10'[p].at = at
          /\ s10'[p].code = s10[p].code /\ s10' \in [Calls -> Processes']
      BY <1>5, <1>6, <2>2, <2>4, <3>2, WorkGoes
    <3>4. ProcessesHold'
      <4>1. s10'[p] # Device!Idle /\ s9' = p
        BY <1>5, <2>4, <3>3 DEF Device!Idle
      <4>2. s11' \in [Codes -> Nat] /\ \A c \in Codes \ s3' : s11'[c] = 0
        BY <1>5, <2>5
      <4>3. s10'[p].at = "store" => \E t \in s5' : t.code = s10'[p].code
        BY <1>4, <2>2, <3>1, <3>3
      <4>4. s10'[p].at \notin {"start", "save", "wait", "send", "poll"}
        BY <3>3
      <4>5. s7' \in {Nobody} \cup Device!Requests' /\ (s7' # Nobody => PacedNext(s7'))
        BY <2>5, <2>6, <2>7, <3>2
      <4> QED
        BY <1>1, <2>2, <2>4, <2>8, <3>3, <4>1, <4>2, <4>3, <4>4, <4>5, ProcessActs
    <3> QED
      BY <1>4, <2>9, <3>4, DeviceParts
  <2> QED
    BY <2>10, <2>11
<1> QED
  BY <1>7, <1>8

\* Every step keeps the invariant.
LEMMA DeviceKept ==
  ASSUME Device!IInv, Device!Next \/ UNCHANGED Device!vars
  PROVE  Device!IInv'
<1>1. ASSUME NEW p \in Calls, NEW c \in Codes, Device!Start(p, c) PROVE Device!IInv'
  BY <1>1, StartingKeeps
<1>2. ASSUME NEW p \in Calls, Device!Save(p) \/ Device!StoreToken(p) PROVE Device!IInv'
  BY <1>2, SavingKeeps
<1>3. ASSUME NEW p \in Calls, Device!PreparePoll(p) PROVE Device!IInv'
  BY <1>3, PreparingKeeps
<1>4. ASSUME NEW p \in Calls, Device!SendPoll(p) PROVE Device!IInv'
  BY <1>4, SendingKeeps
<1>5. ASSUME NEW p \in Calls,
             Device!ClearPending(p) \/ Device!Stop(p) \/ Device!DropCredential(p)
      PROVE  Device!IInv'
  BY <1>5, EndingsKeep
<1>6. ASSUME NEW p \in Calls, Device!GiveUp(p) PROVE Device!IInv'
  BY <1>6, GivingUpKeeps
<1>7. ASSUME NEW p \in Calls,
             (\E keep \in BOOLEAN : Device!Begin(p, keep)) \/ Device!Logout(p)
      PROVE  Device!IInv'
  BY <1>7, BeginningsKeep
<1>8. ASSUME NEW c \in Codes, NEW status \in {"approved", "denied"}, Device!Decide(c, status)
      PROVE  Device!IInv'
  BY <1>8, DecisionsKeep
<1>9. ASSUME NEW q \in s6, Device!ReadUser(q) PROVE Device!IInv'
  BY <1>9, ReadingKeeps
<1>10. ASSUME NEW q \in s6, Device!ServePoll(q) PROVE Device!IInv'
  BY <1>10, AnsweringKeeps
<1>11. ASSUME Device!Revoked \/ Device!Promoted \/ Device!Tick \/ UNCHANGED Device!vars
       PROVE  Device!IInv'
  BY <1>11, TimeKeeps
<1> QED
  BY <1>1, <1>2, <1>3, <1>4, <1>5, <1>6, <1>7, <1>8, <1>9, <1>10, <1>11
     DEF Device!Next, Device!Step

\* Nobody has asked for a device login at the start.
LEMMA DeviceStarts ==
  ASSUME Device!Init
  PROVE  Device!IInv
<1>1. /\ s1 = 1 /\ s2 = [c \in {} |-> Device!NewRow] /\ s3 = {} /\ s5 = {} /\ s6 = {}
      /\ s7 = Nobody /\ s8 = Nobody /\ s9 = Nobody
      /\ s10 = [p \in Calls |-> Device!Idle] /\ s11 = [c \in Codes |-> 0]
      /\ s4 \in [usable : {TRUE}, needsMfa : BOOLEAN, stamp : {0, 1}]
  BY DEF Device!Init
<1>2. ServerTypes
  BY <1>1 DEF ServerTypes
<1>3. \A p \in Calls : p # Nobody /\ s10[p] = Device!Idle /\ s10[p].at = "idle"
  BY <1>1, DeviceAssumption DEF Device!Idle
<1>4. ProcessTypes
  BY <1>1, <1>3 DEF ProcessTypes, Processes
<1>5. DOMAIN s2 = {}
  BY <1>1
<1>6. ServerHolds
  BY <1>1, <1>2, <1>5 DEF ServerHolds, Device!OneTokenPerRequest, Device!ApprovalsHaveUsers
<1>7. PollsHold
  BY <1>1 DEF PollsHold, Device!PollsAreWaitedFor
<1>8. ProcessesHold
  BY <1>1, <1>3, <1>4 DEF ProcessesHold, Device!StoredAreIssued, Device!PacesAreKept
<1> QED
  BY <1>6, <1>7, <1>8, DeviceParts

\* What holds of device logins in every state.
LEMMA DeviceInvHolds == Spec => [](part = "device" => Device!IInv)
<1>1. Init => (part = "device" => Device!IInv)
  BY DeviceStarts DEF Init
<1>2. (part = "device" => Device!IInv) /\ [Next]_vars => (part = "device" => Device!IInv)'
  BY PartStays, DeviceSteps, DeviceKept
<1> QED
  BY <1>1, <1>2, PTL DEF Spec

---------------------------------------------------------------------------
(* What the steps may never do.                                            *)

\* A row that loses its approval is redeemed or denied as its approver stands.
LEMMA ApprovalsHonoured ==
  ASSUME Device!IInv, Device!Next \/ UNCHANGED Device!vars
  PROVE  Device!ApprovalsAreHonouredStep
<1>1. ServerHolds /\ PollsHold
  BY DeviceParts
<1>2. ServerTypes
  BY <1>1 DEF ServerHolds
<1> DEFINE Honoured == \A c \in DOMAIN s2 \cap DOMAIN s2' :
             s2[c].status = "approved" /\ s2'[c].status # "approved" =>
               s2'[c].status = IF Device!Stands(c) THEN "consumed" ELSE "denied"
<1>3. ASSUME NEW p \in Calls, NEW c \in Codes, Device!Start(p, c) PROVE Honoured
  <2>1. CASE Device!Admits
    <3>1. s2' = [d \in Device!Live(s1) \cup {c} |-> IF d = c THEN Device!NewRow ELSE s2[d]]
      BY <1>3, <2>1 DEF Device!Start, Device!CreateRequest
    <3>2. c \notin DOMAIN s2
      BY <1>2, <1>3 DEF Device!Start, ServerTypes
    <3> QED
      BY <3>1, <3>2
  <2>2. CASE ~Device!Admits
    BY <1>3, <2>2 DEF Device!Start, Device!server
  <2> QED
    BY <2>1, <2>2
<1>4. ASSUME NEW c \in Codes, NEW status \in {"approved", "denied"}, Device!Decide(c, status)
      PROVE  Honoured
  <2>1. s2[c].status = "pending" /\ \A d \in DOMAIN s2 : d # c => s2'[d] = s2[d]
    BY <1>2, <1>4 DEF Device!Decide, ServerTypes
  <2> QED
    BY <2>1
<1>5. ASSUME NEW q \in s6, Device!ServePoll(q) PROVE Honoured
  <2>1. CASE q.code \notin DOMAIN s2
    BY <1>5, <2>1 DEF Device!ServePoll
  <2>2. CASE q.code \in DOMAIN s2
    <3>1. PICK a : a = Device!Answer(q)
      OBVIOUS
    <3>2. PICK row : row = Device!RowAfter(q, a)
      OBVIOUS
    <3>3. s2' = [s2 EXCEPT ![q.code] = row]
      BY <1>5, <2>2, <3>1, <3>2 DEF Device!ServePoll
    <3>4. q \in Polls
      BY <1>1 DEF PollsHold
    <3>5. row.status = IF a = "authorized" THEN "consumed"
                       ELSE IF a = "denied" THEN "denied" ELSE s2[q.code].status
      BY <1>1, <2>2, <3>1, <3>2, <3>4, RowsAreAnswered
    <3>6. /\ a = "authorized" => Device!Stands(q.code)
          /\ s2[q.code].status = "approved" /\ a = "denied" => ~Device!Stands(q.code)
      BY <1>1, <2>2, <3>1, <3>4, AnswersTell
    <3>7. s2[q.code].status = "approved" /\ row.status # "approved" =>
            row.status = IF Device!Stands(q.code) THEN "consumed" ELSE "denied"
      BY <3>5, <3>6
    <3>8. s2'[q.code] = row /\ \A d \in DOMAIN s2 : d # q.code => s2'[d] = s2[d]
      BY <1>2, <2>2, <3>3 DEF ServerTypes
    <3> HIDE DEF Honoured
    <3>9. \A c \in DOMAIN s2 : s2[c].status = "approved" /\ s2'[c].status # "approved" =>
            s2'[c].status = IF Device!Stands(c) THEN "consumed" ELSE "denied"
      BY <3>7, <3>8
    <3> QED
      BY <3>9 DEF Honoured
  <2> QED
    BY <2>1, <2>2
<1>6. ASSUME s2' = s2 PROVE Honoured
  BY <1>6
<1> HIDE DEF Honoured
<1>7. Honoured
  BY <1>3, <1>4, <1>5, <1>6
     DEF Device!Next, Device!Step, Device!Begin, Device!Save, Device!PreparePoll, Device!SendPoll,
         Device!StoreToken, Device!ClearPending, Device!GiveUp, Device!Stop, Device!Logout,
         Device!DropCredential, Device!ReadUser, Device!Revoked, Device!Promoted, Device!Tick,
         Device!vars, Device!server
<1> QED
  BY <1>7 DEF Honoured, Device!ApprovalsAreHonouredStep

\* A poll is prepared an interval after the one before.
LEMMA PollsPaced ==
  ASSUME Device!IInv, Device!Next \/ UNCHANGED Device!vars
  PROVE  Device!PollsArePacedStep
<1>1. ServerHolds /\ PollsHold /\ ProcessesHold
  BY DeviceParts
<1> SUFFICES ASSUME NEW r \in Calls, s10[r].at = "wait", s10'[r].at = "send"
             PROVE  s11[s10[r].code] <= s1
  BY DEF Device!PollsArePacedStep
<1>2. s10[r] # Device!Idle
  BY IdleIsNowhere
<1>3. s9 = r /\ s10[r] \in Device!Works /\ Device!IsPaced(s10[r])
      /\ \A p \in Calls : p # r => s10[p] = Device!Idle
  BY <1>1, <1>2, ActiveProcess
<1>4. s10 \in [Calls -> Processes] /\ s11 \in [Codes -> Nat]
  BY <1>1 DEF ProcessesHold, ProcessTypes
<1>5. CASE Device!PreparePoll(r)
  <2>1. s11[s10[r].code] <= s10[r].next /\ s10[r].next <= s1
    BY <1>3, <1>5 DEF Device!IsPaced, Device!PreparePoll
  <2>2. s11[s10[r].code] \in Nat /\ s10[r].next \in Nat /\ s1 \in Nat
    BY <1>1, <1>3, <1>4, WorksHave DEF ServerHolds, ServerTypes
  <2> QED
    BY <2>1, <2>2, LaterIsLater
\* Nothing else takes a process from waiting to sending.
<1>6. \A p \in Calls : \A w : s10' = [s10 EXCEPT ![p] = w] => w = s10'[p] /\ (p # r => s10'[r] = s10[r])
  BY <1>4
<1>7. ASSUME s10' = s10 PROVE FALSE
  BY <1>7
<1>8. ASSUME NEW p \in Calls,
             \/ \E c \in Codes : Device!Start(p, c)
             \/ Device!Save(p) \/ Device!SendPoll(p) \/ Device!StoreToken(p)
             \/ Device!ClearPending(p) \/ Device!GiveUp(p) \/ Device!DropCredential(p)
             \/ Device!Stop(p) \/ Device!Logout(p) \/ \E keep \in BOOLEAN : Device!Begin(p, keep)
             \/ Device!PreparePoll(p) /\ p # r
      PROVE  FALSE
  <2>1. p = r
    <3>1. ASSUME p # r PROVE s10[p] = Device!Idle /\ s10[p].at = "idle" /\ s9 # Nobody
      BY <1>3, <3>1, DeviceAssumption DEF Device!Idle
    <3> QED
      BY <1>8, <3>1
         DEF Device!Start, Device!Save, Device!SendPoll, Device!StoreToken, Device!ClearPending,
             Device!GiveUp, Device!DropCredential, Device!Stop, Device!Logout, Device!Begin,
             Device!PreparePoll
  <2>2. CASE Device!GiveUp(p)
    <3>1. s10'[p].at = "clear"
      BY <1>4, <1>3, <2>1, <2>2 DEF Device!GiveUp, Device!Moves, Device!Works
    <3> QED
      BY <2>1, <3>1
  <2>3. CASE Device!Stop(p)
    <3>1. s10'[p] = Device!Idle
      BY <1>4, <2>3 DEF Device!Stop, Device!Leave
    <3> QED
      BY <2>1, <3>1 DEF Device!Idle
  <2> QED
    BY <1>2, <1>8, <2>1, <2>2, <2>3
       DEF Device!Start, Device!Save, Device!SendPoll, Device!StoreToken, Device!ClearPending,
           Device!DropCredential, Device!Logout, Device!Begin
<1>9. ASSUME NEW q \in s6, Device!ServePoll(q) PROVE FALSE
  <2>1. q.from = Nobody \/ (q.from \in Calls /\ s10[q.from].at = "poll")
    BY <1>1 DEF PollsHold, Polls, Device!PollsAreWaitedFor
  <2>2. q.from # r
    BY <2>1, DeviceAssumption
  <2>3. CASE q.from = Nobody
    BY <1>9, <2>3 DEF Device!ServePoll
  <2>4. CASE q.from \in Calls
    <3>1. s10[q.from].at = "idle"
      BY <1>3, <2>2, <2>4 DEF Device!Idle
    <3> QED
      BY <2>1, <2>4, <3>1, DeviceAssumption
  <2> QED
    BY <2>1, <2>3, <2>4
<1> QED
  BY <1>5, <1>7, <1>8, <1>9
     DEF Device!Next, Device!Step, Device!Decide, Device!ReadUser, Device!Revoked, Device!Promoted,
         Device!Tick, Device!vars

---------------------------------------------------------------------------
\* No two sessions rest on the same challenge, recovery code or one-time code, and no
\* two tokens on the same device request, whatever the number of clients, factors,
\* challenges, processes and polls.
THEOREM CodesStayUsedOnce == Spec => []CodesAreUsedOnce
<1>1. (part = "signin" => Sign!IInv) /\ (part = "device" => Device!IInv) => CodesAreUsedOnce
  BY DEF CodesAreUsedOnce, Sign!IInv, Device!IInv
<1> QED
  BY <1>1, SignInvHolds, DeviceInvHolds, PTL

\* An approval ends as its approver stands, never in a denial by a poll that raced with
\* it; and two polls of a request are its interval apart, however often processes stop
\* and others resume what the keyring holds.
THEOREM ApprovalsStayHonoured == Spec => ApprovalsAreHonoured
<1>1. (part = "device" => Device!IInv) /\ [Next]_vars =>
        (part = "device" => Device!ApprovalsAreHonouredStep /\ Device!PollsArePacedStep)
  BY DeviceSteps, ApprovalsHonoured, PollsPaced
<1> QED
  BY <1>1, DeviceInvHolds, PTL DEF Spec, ApprovalsAreHonoured

---------------------------------------------------------------------------
(* The types of all of them.                                               *)

\* A transaction takes eight locks at most.
LEMMA LocksAreFew ==
  ASSUME Lock!TypeOK, LockKinds \subseteq Lock!AllKinds, NEW c \in Calls, s2[c] # Lock!Idle
  PROVE  Len(Lock!Locks(c)) \in 1 .. 8
<1>1. s2[c].kind \in Lock!AllKinds
  BY DEF Lock!TypeOK
<1>2. CASE s2[c].kind # "adopt"
  BY <1>1, <1>2, OrdersAreOrdered DEF Lock!Locks, Ordered
<1>3. CASE s2[c].kind = "adopt"
  <2>1. PICK k, a : k = s2[c].kind /\ a = s2[c].actor
    OBVIOUS
  <2>2. Lock!Locks(c) = Lock!Order(k, a, s2[c].other) /\ k = "adopt"
    BY <1>3, <2>1 DEF Lock!Locks
  <2>3. Lock!Locks(c) =
        <<Lock!Team, Lock!TeamMember(a), Lock!User(a), Lock!Org, Lock!Member(a)>>
    BY <2>2, Zenon DEF Lock!Order
  <2>4. \A x1, x2, x3, x4, x5 : Len(<<x1, x2, x3, x4, x5>>) \in 1 .. 8
    OBVIOUS
  <2> QED
    BY <2>3, <2>4
<1> QED
  BY <1>2, <1>3

\* Adoptions, too, keep the types of locks.
LEMMA LockTypes ==
  ASSUME LockKinds \subseteq Lock!AllKinds
  PROVE  Spec => [](part = "locks" => Lock!TypeOK)
<1>1. Init => (part = "locks" => Lock!TypeOK)
  BY DEF Init, Lock!Init, Lock!TypeOK
<1>2. ASSUME Lock!TypeOK, Lock!Next \/ UNCHANGED Lock!vars PROVE Lock!TypeOK'
  <2>1. ASSUME NEW c \in Calls, Lock!Begin(c) PROVE Lock!TypeOK'
    <3>1. PICK kind \in LockKinds, a \in Twins, x \in Twins :
            s2' = [s2 EXCEPT ![c] = [kind |-> kind, actor |-> a, other |-> x]]
      BY <2>1 DEF Lock!Begin
    <3> QED
      BY <1>2, <2>1, <3>1 DEF Lock!Begin, Lock!TypeOK
  <2>2. ASSUME NEW c \in Calls, Lock!Acquire(c) PROVE Lock!TypeOK'
    <3>1. s1' = s1 /\ s2' = s2 /\ s3' = [s3 EXCEPT ![c] = @ + 1]
      BY <2>2 DEF Lock!Acquire
    <3>2. PICK n : n = Len(Lock!Locks(c))
      OBVIOUS
    <3>3. s3[c] < n /\ n \in 1 .. 8 /\ s3[c] \in 0 .. 8
      BY <1>2, <2>2, <3>2, LocksAreFew DEF Lock!Acquire, Lock!Asks, Lock!TypeOK
    <3>4. s3[c] + 1 \in 0 .. 8
      BY <3>3
    <3> QED
      BY <1>2, <3>1, <3>4 DEF Lock!TypeOK
  <2>3. ASSUME NEW c \in Calls, Lock!End(c) PROVE Lock!TypeOK'
    <3>1. s1' \in BOOLEAN
      BY <1>2, <2>3 DEF Lock!End, Lock!TypeOK
    <3> QED
      BY <1>2, <2>3, <3>1 DEF Lock!End, Lock!TypeOK
  <2>4. CASE UNCHANGED Lock!vars
    BY <1>2, <2>4 DEF Lock!vars, Lock!TypeOK
  <2> QED
    BY <1>2, <2>1, <2>2, <2>3, <2>4 DEF Lock!Next
<1>3. (part = "locks" => Lock!TypeOK) /\ [Next]_vars => (part = "locks" => Lock!TypeOK)'
  BY <1>2, PartStays, LockSteps
<1> QED
  BY <1>1, <1>3, PTL DEF Spec

\* Every protocol keeps its variables in their types.
THEOREM PeopleTypes ==
  ASSUME LockKinds \subseteq Lock!AllKinds
  PROVE  Spec => []TypesOK
<1>1. /\ AccountInv /\ TenancyInv /\ (part = "oauth" => Auth!IInv)
      /\ (part = "signin" => Sign!IInv) /\ (part = "device" => Device!IInv)
      /\ (part = "locks" => Lock!TypeOK)
      => TypesOK
  BY DEF AccountInv, TenancyInv, TypesOK, Link!IInv, Admin!IInv, Mail!IInv, Auth!IInv, Sign!IInv,
         Device!IInv, Org!IInv
<1> QED
  BY <1>1, AccountInvHolds, TenancyInvHolds, AuthInvHolds, SignInvHolds, DeviceInvHolds, LockTypes, PTL

===============================================================================
