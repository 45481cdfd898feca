---------------------------- MODULE AccountAdmin ----------------------------
(***************************************************************************)
(* Administrators change the status and the roles of accounts              *)
(* (apps/api/src/auth/service.ts: performAdminUserAction,                  *)
(* updateAdminUserRoles; postgres-auth-store.ts).  A request reads its     *)
(* target, decides, and commits in a transaction that serializes with the  *)
(* others by one advisory lock.  The confirmation of an address            *)
(* (confirmEmailVerification) consumes its link, reads the account and     *)
(* writes the status it read back, without that lock.                      *)
(***************************************************************************)
EXTENDS Naturals

CONSTANTS
  Users,
  FirstOwner,  \* the owner who set the instance up
  Unverified,  \* accounts that have not confirmed their address yet
  Calls        \* concurrent requests of administrators

VARIABLES
  status, role,  \* per account
  call,          \* what each request has read and decided
  confirm,       \* per account, where its confirmation is, with the status it will write
  overwritten    \* a confirmation wrote back a status that had changed

vars == <<status, role, call, confirm, overwritten>>

Statuses == {"pending", "active", "disabled", "deleted"}
Roles == {"owner", "admin", "user"}
Decisions == {"active", "disabled", "deleted"}
Idle == [kind |-> "idle"]

TypeOK ==
  /\ status \in [Users -> Statuses] /\ role \in [Users -> Roles]
  /\ call \in [Calls -> {Idle}
       \cup [kind : {"status"}, target : Users, to : Decisions, seen : Roles, before : Statuses]
       \cup [kind : {"role"}, target : Users, to : Roles, seen : Roles, before : Statuses]]
  /\ confirm \in [Users -> Statuses \cup {"unverified", "refused", "verified"}]
  /\ overwritten \in BOOLEAN

\* Others have registered; none of them has been approved yet.
Init ==
  /\ FirstOwner \notin Unverified
  /\ status = [u \in Users |-> IF u = FirstOwner THEN "active" ELSE "pending"]
  /\ role = [u \in Users |-> IF u = FirstOwner THEN "owner" ELSE "user"]
  /\ call = [c \in Calls |-> Idle]
  /\ confirm = [u \in Users |-> IF u \in Unverified THEN "unverified" ELSE "verified"]
  /\ overwritten = FALSE

\* An administrator can sign in: the account is active and its address confirmed.
IsAdmin(u) == status[u] = "active" /\ confirm[u] = "verified" /\ role[u] \in {"owner", "admin"}
ActiveOwners(st, ro) == {u \in Users : st[u] = "active" /\ ro[u] = "owner"}

---------------------------------------------------------------------------
\* Faulty: the statuses of accounts do not matter.
MayActOnDeleted(actor, u, to) ==
  /\ to = "active" \/ actor # u
  /\ role[u] = "owner" => role[actor] = "owner"

\* adminUserActionBlockedReason
MayAct(actor, u, to) ==
  /\ status[u] = "deleted" => to = "deleted"
  /\ to = "active" \/ actor # u
  /\ role[u] = "owner" => role[actor] = "owner"

\* adminUserRoleUpdateBlockedReason
MayAssign(actor, u, r) ==
  /\ status[u] # "deleted" /\ actor # u
  /\ {role[u], r} \cap {"owner", "admin"} # {} => role[actor] = "owner"

\* performAdminUserAction up to the store's transaction.
DecideStatus(c) ==
  \E actor, u \in Users, to \in Decisions :
    /\ call[c] = Idle /\ IsAdmin(actor) /\ MayAct(actor, u, to)
    /\ call' = [call EXCEPT ![c] = [kind |-> "status", target |-> u, to |-> to, seen |-> role[u],
                                     before |-> status[u]]]
    /\ UNCHANGED <<status, role, confirm, overwritten>>

\* updateAdminUserRoles up to the store's transaction.
DecideRole(c) ==
  \E actor, u \in Users, r \in Roles :
    /\ call[c] = Idle /\ IsAdmin(actor) /\ MayAssign(actor, u, r)
    /\ status[u] = "active" /\ role[u] = "owner" /\ r # "owner" =>
         ActiveOwners(status, role) \ {u} # {}
    /\ call' = [call EXCEPT ![c] = [kind |-> "role", target |-> u, to |-> r, seen |-> role[u],
                                     before |-> status[u]]]
    /\ UNCHANGED <<status, role, confirm, overwritten>>

\* Faulty: the role that the request read decides whether owners are counted.
LastOwnerAsRead(c) ==
  LET u == call[c].target IN
  /\ status[u] = "active" /\ call[c].seen = "owner" /\ call[c].to # "active"
  /\ ActiveOwners(status, role) \subseteq {u}

\* The transaction would leave no active owner.
LastOwner(c) ==
  LET u == call[c].target IN
  /\ status[u] = "active" /\ role[u] = "owner" /\ call[c].to # "active"
  /\ ActiveOwners(status, role) \subseteq {u}

\* applyAdminUserStatusChange: the status the target has by now is not asked for.
ApplyAdminUserStatusChange(c) ==
  /\ call[c] # Idle /\ call[c].kind = "status"
  /\ \/ LastOwner(c) /\ UNCHANGED status
     \/ ~LastOwner(c) /\ status' = [status EXCEPT ![call[c].target] = call[c].to]
  /\ call' = [call EXCEPT ![c] = Idle]
  /\ UNCHANGED <<role, confirm, overwritten>>

\* updateUserRolesAtomically: undone when it would leave no active owner.
UpdateUserRoles(c) ==
  /\ call[c] # Idle /\ call[c].kind = "role"
  /\ LET assigned == [role EXCEPT ![call[c].target] = call[c].to] IN
     role' = IF call[c].to # "owner" /\ ActiveOwners(status, assigned) = {} THEN role ELSE assigned
  /\ call' = [call EXCEPT ![c] = Idle]
  /\ UNCHANGED <<status, confirm, overwritten>>

---------------------------------------------------------------------------
\* A link is consumed and the account read; disabled and deleted ones are refused.
ConsumeLink(u) ==
  /\ confirm[u] = "unverified"
  /\ confirm' = [confirm EXCEPT ![u] = IF status[u] \in {"disabled", "deleted"} THEN "refused" ELSE status[u]]
  /\ UNCHANGED <<status, role, call, overwritten>>

\* updateUserStatus writes the status that was read, beside emailVerifiedAt.
WriteBack(u) ==
  /\ confirm[u] \in Statuses
  /\ status' = [status EXCEPT ![u] = confirm[u]]
  /\ overwritten' = (overwritten \/ status[u] # confirm[u])
  /\ confirm' = [confirm EXCEPT ![u] = "verified"]
  /\ UNCHANGED <<role, call>>

Next ==
  \/ \E c \in Calls :
       DecideStatus(c) \/ DecideRole(c) \/ ApplyAdminUserStatusChange(c) \/ UpdateUserRoles(c)
  \/ \E u \in Users : ConsumeLink(u) \/ WriteBack(u)

Spec == Init /\ [][Next]_vars

---------------------------------------------------------------------------
\* At least one active owner is preserved (apps/api/README.md:142).
ActiveOwnerIsPreserved == ActiveOwners(status, role) # {}

\* It is, whatever administrators do to each other at the same time, unless a
\* confirmation wrote back a status that an administrator had changed.
AdministratorsKeepAnOwner == overwritten \/ ActiveOwnerIsPreserved

\* Who read a deleted account decided to leave it deleted.
DeletedIsLeftDeleted ==
  \A c \in Calls :
    call[c] # Idle /\ call[c].kind = "status" /\ call[c].before = "deleted" => call[c].to = "deleted"

\* What is true of the accounts whatever comes next.
IInv == TypeOK /\ AdministratorsKeepAnOwner /\ DeletedIsLeftDeleted

DeletedComesBackByOldReadingsOnlyStep ==
  \A u \in Users : status[u] = "deleted" /\ status'[u] # "deleted" =>
     overwritten' \/ \E c \in Calls : call[c] # Idle /\ call[c].target = u /\ call[c].before # "deleted"

\* Only a request that had read the account before it was deleted, or a
\* confirmation, brings it back.
DeletedComesBackByOldReadingsOnly == [][DeletedComesBackByOldReadingsOnlyStep]_vars
=============================================================================
