------------------------------ MODULE MCPeople -------------------------------
(***************************************************************************)
(* The protocols about people: changes of an account and the outbox that   *)
(* announces them, administration, sign-in with second factors, device     *)
(* logins, connector authorization, organizations and teams. They share no *)
(* row, so a behaviour of any of them is a behaviour in which the others   *)
(* rest: part, chosen at the start, names the one that moves.              *)
(***************************************************************************)
EXTENDS Naturals, FiniteSets, TLC

CONSTANTS
  Calls,       \* requests that run at the same time
  Twins,       \* two users, authorization requests or links
  Third,       \* another link
  Emails, FirstEmail, MaxPassword,               \* AccountActions
  Accounts, FirstOwner, Unverified,              \* AccountAdmin
  Factors, MaxStep, MaxChallenges, MaxSessions, MaxConfirmations,   \* SignIn
  Nobody, Codes, MaxRows, Lifetime, Interval, MaxInterval, MfaWindow,
  MaxTime, MaxPolls, MaxStops,                   \* DeviceLogin
  Intents, MaxAttempts,                          \* NotificationOutbox
  MaxActive, MaxEpoch, MaxPairs,                 \* OAuthGrants
  Teams, Policies, LockKinds                     \* Tenancy, TenancyLocks

\* Organizations have finitely many accounts, and a policy is a record of limits and
\* switches.
ASSUME TenancyAssumption ==
  /\ IsFiniteSet(Twins) /\ IsFiniteSet(Teams)
  /\ Policies \subseteq
       [members : Nat, teams : Nat, create : BOOLEAN, adopt : BOOLEAN, closed : BOOLEAN]

\* Connections are capped, and credentials and tokens change a number of times.
ASSUME ConnectionAssumption == MaxActive \in Nat /\ MaxEpoch \in Nat /\ MaxPairs \in Nat \ {0}

\* An account has a first address and a password, an instance has an owner, and
\* messages are tried a number of times.
ASSUME AccountAssumption ==
  /\ FirstEmail \in Emails /\ MaxPassword \in Nat \ {0}
  /\ FirstOwner \in Accounts
  /\ MaxAttempts \in Nat \ {0}

\* One-time codes have a time step, and an account some open challenges.
ASSUME SignInAssumption == MaxStep \in Nat \ {0} /\ MaxChallenges \in Nat

\* Nobody is a process or a user, and intervals and lifetimes are spans of time.
ASSUME DeviceAssumption ==
  /\ Nobody \notin Calls \cup {"user", "no"}
  /\ Lifetime \in Nat /\ Interval \in Nat /\ MaxInterval \in Nat /\ Interval <= MaxInterval

VARIABLES
  part,   \* the protocol that moves
  s1, s2, s3, s4, s5, s6, s7, s8, s9, s10, s11, s12   \* its variables, in their order there

vars == <<part, s1, s2, s3, s4, s5, s6, s7, s8, s9, s10, s11, s12>>

\* A narrow and a wide policy of the organization.
TwoPolicies ==
  {[members |-> 1, teams |-> 1, create |-> FALSE, adopt |-> TRUE, closed |-> TRUE],
   [members |-> 2, teams |-> 2, create |-> TRUE, adopt |-> TRUE, closed |-> FALSE]}

Symmetry == Permutations(Calls) \cup Permutations(Twins)

Link == INSTANCE AccountActions WITH
  account <- s1, token <- s2, call <- s3, taken <- s4, Tokens <- Twins \cup {Third}

Admin == INSTANCE AccountAdmin WITH
  status <- s1, role <- s2, call <- s3, confirm <- s4, overwritten <- s5,
  Users <- Accounts

Sign == INSTANCE SignIn WITH
  time <- s1, factor <- s2, recovery <- s3, challenge <- s4, session <- s5, call <- s6,
  MaxTime <- MaxStep

Device == INSTANCE DeviceLogin WITH
  now <- s1, rows <- s2, made <- s3, approver <- s4, tokens <- s5, polls <- s6,
  saved <- s7, credential <- s8, lock <- s9, cli <- s10, paced <- s11, stops <- s12,
  Procs <- Calls, None <- Nobody, MaxCalls <- MaxPolls

Auth == INSTANCE OAuthGrants WITH
  account <- s1, request <- s2, code <- s3, grant <- s4, pairs <- s5, used <- s6,
  consent <- s7, misused <- s8, call <- s9, Requests <- Twins

Org == INSTANCE Tenancy WITH
  active <- s1, org <- s2, member <- s3, invited <- s4, team <- s5, teamRole <- s6,
  teamInvited <- s7, Users <- Twins

Lock == INSTANCE TenancyLocks WITH
  owned <- s1, tx <- s2, held <- s3, Users <- Twins, Kinds <- LockKinds

Mail == INSTANCE NotificationOutbox WITH
  outbox <- s1, token <- s2, account <- s3, delivery <- s4, accepted <- s5,
  Workers <- Calls

Init ==
  \/ part = "actions" /\ Link!Init
      /\ s5 = 0 /\ s6 = 0 /\ s7 = 0 /\ s8 = 0 /\ s9 = 0 /\ s10 = 0 /\ s11 = 0 /\ s12 = 0
  \/ part = "admin" /\ Admin!Init
      /\ s6 = 0 /\ s7 = 0 /\ s8 = 0 /\ s9 = 0 /\ s10 = 0 /\ s11 = 0 /\ s12 = 0
  \/ part = "signin" /\ Sign!Init
      /\ s7 = 0 /\ s8 = 0 /\ s9 = 0 /\ s10 = 0 /\ s11 = 0 /\ s12 = 0
  \/ part = "device" /\ Device!Init
  \/ part = "oauth" /\ Auth!Init
      /\ s10 = 0 /\ s11 = 0 /\ s12 = 0
  \/ part = "tenancy" /\ Org!Init
      /\ s8 = 0 /\ s9 = 0 /\ s10 = 0 /\ s11 = 0 /\ s12 = 0
  \/ part = "locks" /\ Lock!Init
      /\ s4 = 0 /\ s5 = 0 /\ s6 = 0 /\ s7 = 0 /\ s8 = 0 /\ s9 = 0 /\ s10 = 0 /\ s11 = 0 /\ s12 = 0
  \/ part = "outbox" /\ Mail!Init
      /\ s6 = 0 /\ s7 = 0 /\ s8 = 0 /\ s9 = 0 /\ s10 = 0 /\ s11 = 0 /\ s12 = 0

AccountAction == part = "actions" /\ Link!Next /\ UNCHANGED <<part, s5, s6, s7, s8, s9, s10, s11, s12>>
Administration == part = "admin" /\ Admin!Next /\ UNCHANGED <<part, s6, s7, s8, s9, s10, s11, s12>>
SigningIn == part = "signin" /\ Sign!Next /\ UNCHANGED <<part, s7, s8, s9, s10, s11, s12>>
DeviceLoggingIn == part = "device" /\ Device!Next /\ UNCHANGED part
Authorization == part = "oauth" /\ Auth!Next /\ UNCHANGED <<part, s10, s11, s12>>
Governance == part = "tenancy" /\ Org!Next /\ UNCHANGED <<part, s8, s9, s10, s11, s12>>
Locking == part = "locks" /\ Lock!Next /\ UNCHANGED <<part, s4, s5, s6, s7, s8, s9, s10, s11, s12>>
Mailing == part = "outbox" /\ Mail!Next /\ UNCHANGED <<part, s6, s7, s8, s9, s10, s11, s12>>

Next ==
  \/ AccountAction \/ Administration \/ SigningIn \/ DeviceLoggingIn \/ Authorization
  \/ Governance \/ Locking \/ Mailing

Spec == Init /\ [][Next]_vars

\* Every protocol keeps its variables in their types.
TypesOK ==
  /\ part = "actions" => Link!TypeOK
  /\ part = "admin" => Admin!TypeOK
  /\ part = "signin" => Sign!TypeOK
  /\ part = "device" => Device!TypeOK
  /\ part = "oauth" => Auth!TypeOK
  /\ part = "tenancy" => Org!TypeOK
  /\ part = "locks" => Lock!TypeOK
  /\ part = "outbox" => Mail!TypeOK

\* One message of a purpose is on its way to an account, its payload is kept exactly
\* while it may be sent, and what is stored as delivered was accepted by the provider.
MailIsAccountedFor ==
  part = "outbox" =>
    /\ Mail!OneIntentOnItsWay
    /\ Mail!PayloadIsKeptWhileNeeded
    /\ Mail!DeliveredWasAccepted

\* A live link belongs to the account as it is now, one change of address is open at a
\* time, and concurrent administrators leave an active owner.
AccountsAreConsistent ==
  /\ part = "actions" =>
       /\ Link!LinksMatchTheAccount
       /\ Link!OneAddressChange
  /\ part = "admin" => Admin!AdministratorsKeepAnOwner

\* Each change of an account starts from what its request saw, only a reading older
\* than the deletion brings an account back, and a settled message is never reopened by
\* a late worker.
LateWritersAreRefused ==
  [][/\ part = "actions" => Link!ChangesAreOrderedStep
     /\ part = "admin" => Admin!DeletedComesBackByOldReadingsOnlyStep
     /\ part = "outbox" => Mail!SettledStaysStep]_vars

\* Codes and connections rest on the credentials of now and stay below their cap,
\* refresh tokens never fork, and a replayed code or token ends its connection.
ConnectionsAreCurrent ==
  part = "oauth" =>
    /\ Auth!ConnectionCapHolds
    /\ Auth!AuthorityIsCurrent
    /\ Auth!OneRefreshTokenIsUnused
    /\ Auth!MisuseEndsTheGrant

\* Organizations and teams keep a member with the role owner, whose account may be disabled.
OwnerRoleIsHeld ==
  part = "tenancy" => Org!OwnerRoleIsHeld

\* Members and teams grow within the policy of the day, and an archived organization is
\* frozen with its teams.
PolicyGovernsGrowth ==
  [][part = "tenancy" =>
       /\ Org!ArchivedIsFrozenStep
       /\ Org!GrowthRespectsThePolicyStep]_vars

\* No two sessions rest on the same challenge, recovery code or one-time code, and no
\* two tokens on the same device request.
CodesAreUsedOnce ==
  /\ part = "signin" => Sign!CodesAreUsedOnce
  /\ part = "device" => Device!OneTokenPerRequest

\* An approved device request is redeemed while its approver stands and denied once he
\* does not, whatever polls it raced with; and polls are the interval apart, however
\* often the login is interrupted and resumed.
ApprovalsAreHonoured ==
  [][part = "device" =>
       /\ Device!ApprovalsAreHonouredStep
       /\ Device!PollsArePacedStep]_vars

\* Transactions never wait for each other in a circle.
NoCircularWait ==
  part = "locks" => Lock!NoCircularWait

==============================================================================
