---------------------------- MODULE TenancyLocks ----------------------------
(***************************************************************************)
(* The row locks that the transactions of the organization store, the team *)
(* store and the architecture grant store take, in the order of their      *)
(* SELECT ... FOR UPDATE statements, on one organization and one team      *)
(* (apps/api/src/organizations, teams, architectures).  A transaction      *)
(* keeps its locks until it ends.  Not modelled: locks that a foreign key  *)
(* takes, the database's own detection of a deadlock (it aborts one of the *)
(* transactions, whose request fails).                                     *)
(***************************************************************************)
EXTENDS Naturals, Sequences

CONSTANTS
  Users,
  Calls,
  Kinds       \* the transactions that run

AllKinds == {"manage", "join", "grant", "teamGrant", "team", "revoke", "joinTeam", "adopt", "found"}

VARIABLES
  owned,      \* the team belongs to the organization
  tx,         \* the transaction of each call
  held        \* how many of its locks it has taken

vars == <<owned, tx, held>>

Idle == [kind |-> "idle"]

Org == <<"organization">>
Team == <<"team">>
Invitation(u) == <<"invitation", u>>            \* of the organization, to u
Member(u) == <<"member", u>>                    \* of the organization
User(u) == <<"user", u>>
TeamMember(u) == <<"teamMember", u>>
TeamInvitation(u) == <<"teamInvitation", u>>

TypeOK ==
  /\ owned \in BOOLEAN
  /\ tx \in [Calls -> {Idle} \cup [kind : Kinds, actor : Users, other : Users]]
  /\ held \in [Calls -> 0 .. 8]

Init ==
  /\ owned \in BOOLEAN
  /\ tx = [c \in Calls |-> Idle]
  /\ held = [c \in Calls |-> 0]

---------------------------------------------------------------------------
\* assertOrganizationRole: the organization is locked, then the membership joined
\* with its user, and then the row that the caller changes.
AssertOrganizationRole(a, row) == <<Org, Member(a), User(a), row>>

\* lockTeamOwnerAuthority, and then the row that the caller changes: a team under an
\* organization locks its parent.
LockTeamOwnerAuthority(a, row) ==
  IF owned THEN <<Team, Org, Member(a), User(a), TeamMember(a), row>>
           ELSE <<Team, User(a), TeamMember(a), row>>

\* Faulty: the invitation is locked before its team.
JoinTeamByInvitation(a) ==
  IF owned THEN <<TeamInvitation(a), Team, Org, Member(a), User(a)>>
           ELSE <<TeamInvitation(a), Team, User(a)>>

JoinTeam(a) ==
  IF owned THEN <<Team, TeamInvitation(a), Org, Member(a), User(a)>>
           ELSE <<Team, TeamInvitation(a), User(a)>>

\* manage: membership, policy, archive, invitation, child team; join: accept
\* an invitation; grant, teamGrant: architecture grants of an account or a team.
Order(kind, a, x) ==
  CASE kind = "manage"   -> AssertOrganizationRole(a, Member(x))
    [] kind = "join"     -> <<Org, Invitation(a), User(a), Member(a)>>
    [] kind = "grant"    -> <<Org, Member(a), User(a)>>
    [] kind = "teamGrant" -> <<Team, Org, Member(a), User(a), TeamMember(a)>>
    [] kind = "team"     -> LockTeamOwnerAuthority(a, TeamMember(x))
    [] kind = "revoke"   -> LockTeamOwnerAuthority(a, TeamInvitation(x))
    [] kind = "joinTeam" -> JoinTeam(a)
    [] kind = "adopt"    -> <<Team, TeamMember(a), User(a), Org, Member(a)>>
    [] kind = "found"    -> <<User(a)>>

Locks(c) == Order(tx[c].kind, tx[c].actor, tx[c].other)
Holds(c, lock) == \E i \in 1 .. held[c] : Locks(c)[i] = lock
Wanted(c) == Locks(c)[held[c] + 1]
IsBlocked(c, d) == d # c /\ Holds(d, Wanted(c))
Asks(c) == tx[c] # Idle /\ held[c] < Len(Locks(c))

---------------------------------------------------------------------------
Begin(c) ==
  /\ tx[c] = Idle
  /\ \E kind \in Kinds, a, x \in Users :
       /\ kind = "adopt" => ~owned
       /\ tx' = [tx EXCEPT ![c] = [kind |-> kind, actor |-> a, other |-> x]]
  /\ UNCHANGED <<owned, held>>

\* A lock the transaction already holds is taken at once.
Acquire(c) ==
  /\ Asks(c)
  /\ ~\E d \in Calls : IsBlocked(c, d)
  /\ held' = [held EXCEPT ![c] = @ + 1]
  /\ UNCHANGED <<owned, tx>>

\* It commits or rolls back; either way its locks are released.  A check that
\* fails ends it before it has taken all of them.
End(c) ==
  /\ tx[c] # Idle
  /\ \/ owned' = (owned \/ tx[c].kind = "adopt") /\ ~Asks(c)
     \/ owned' = owned
  /\ tx' = [tx EXCEPT ![c] = Idle]
  /\ held' = [held EXCEPT ![c] = 0]

Next == \E c \in Calls : Begin(c) \/ Acquire(c) \/ End(c)

Spec == Init /\ [][Next]_vars

---------------------------------------------------------------------------
\* Locks are released at the end, and taken from the first to the last.
LocksInOrder ==
  \A c \in Calls : held[c] <= IF tx[c] = Idle THEN 0 ELSE Len(Locks(c))

\* Two transactions never hold the same row.
LocksExclude ==
  \A c, d \in Calls, i, j \in 1 .. 8 :
    i <= held[c] /\ j <= held[d] /\ Locks(c)[i] = Locks(d)[j] => c = d

\* What is true of transactions and their locks whatever comes next.
IInv == TypeOK /\ LocksInOrder /\ LocksExclude

---------------------------------------------------------------------------
(***************************************************************************)
(* Properties                                                              *)
(***************************************************************************)
\* The stores lock their rows in one order ("This gives all store callers one
\* lock order", postgres-organization-store.ts): transactions never wait for
\* each other in a circle.
NoCircularWait ==
  ~\E S \in (SUBSET Calls) \ {{}} :
      \A c \in S : Asks(c) /\ \E d \in S : tx[d] # Idle /\ IsBlocked(c, d)

=============================================================================
