----------------------------- MODULE OAuthGrants -----------------------------
(***************************************************************************)
(* Connections of one account to a connector (apps/api/src/oauth/service.ts*)
(* decide, token, revoke, revokeConnection; postgres-store.ts).  A request *)
(* for authorization is approved in a session and yields a code, the code  *)
(* is exchanged for a connection (a grant) with its first pair of tokens,  *)
(* and a refresh token is exchanged for the next pair.  Requests of the    *)
(* service run concurrently; each transaction of the store is one step.    *)
(* A code and a grant are named by the request they come from.  Not        *)
(* modelled: scopes, MFA assurance, access tokens of their own, and the    *)
(* deletion of rows long expired or revoked (cleanup).                     *)
(***************************************************************************)
EXTENDS Naturals, FiniteSets

CONSTANTS
  Requests,    \* authorization requests
  Calls,       \* concurrent requests of the service
  MaxActive,   \* maxConnectionsPerUser
  MaxEpoch,    \* times the credentials are revoked
  MaxPairs     \* token pairs of one grant

VARIABLES
  account,     \* [active, epoch, signedIn]; epoch counts the revocations
  request,     \* oauth_authorization_requests.status
  code,        \* oauth_authorization_codes
  grant,       \* oauth_grants: no row, active, or revoked or expired
  pairs,       \* token pairs inserted for the grant
  used,        \* refresh tokens of the grant with a used_at
  consent,     \* the epoch of the session that approved the request
  misused,     \* grants of which a used code or token was presented again
  call

vars == <<account, request, code, grant, pairs, used, consent, misused, call>>

Idle == [at |-> "idle"]

TypeOK ==
  /\ account \in [active : BOOLEAN, epoch : 0 .. MaxEpoch, signedIn : BOOLEAN]
  /\ request \in [Requests -> {"none", "pending", "approved", "denied", "expired"}]
  /\ code \in [Requests -> {"none", "live", "consumed", "revoked"}]
  /\ grant \in [Requests -> {"none", "active", "ended"}]
  /\ pairs \in [Requests -> 0 .. MaxPairs]
  /\ used \in [Requests -> SUBSET (1 .. MaxPairs)]
  /\ consent \in [Requests -> 0 .. MaxEpoch]
  /\ misused \subseteq Requests
  /\ call \in [Calls -> {Idle}
       \cup [at : {"decide"}, r : Requests, session : 0 .. MaxEpoch]
       \cup [at : {"recheck", "revoke"}, r : Requests]
       \cup [at : {"rotate"}, r : Requests, token : 1 .. MaxPairs]]

Init ==
  /\ account = [active |-> TRUE, epoch |-> 0, signedIn |-> TRUE]
  /\ request = [r \in Requests |-> "none"]
  /\ code = [r \in Requests |-> "none"]
  /\ grant = [r \in Requests |-> "none"]
  /\ pairs = [r \in Requests |-> 0]
  /\ used = [r \in Requests |-> {}]
  /\ consent = [r \in Requests |-> 0]
  /\ misused = {}
  /\ call = [c \in Calls |-> Idle]

CountActiveGrants == Cardinality({r \in Requests : grant[r] = "active"})

Goes(c, to) == call' = [call EXCEPT ![c] = to]
EndGrant(r) == grant' = [grant EXCEPT ![r] = IF @ = "active" THEN "ended" ELSE @]

---------------------------------------------------------------------------
\* Authorization and consent.
CreateRequest(r) ==
  /\ request[r] = "none"
  /\ request' = [request EXCEPT ![r] = "pending"]
  /\ UNCHANGED <<account, code, grant, pairs, used, consent, misused, call>>

Expire(r) ==
  /\ request[r] = "pending"
  /\ request' = [request EXCEPT ![r] = "expired"]
  /\ UNCHANGED <<account, code, grant, pairs, used, consent, misused, call>>

\* The route knows the session; the decision is committed later.
BeginDecide(c, r) ==
  /\ call[c] = Idle
  /\ account.signedIn
  /\ request[r] = "pending"
  /\ Goes(c, [at |-> "decide", r |-> r, session |-> account.epoch])
  /\ UNCHANGED <<account, request, code, grant, pairs, used, consent, misused>>

\* Faulty: the session is not read again under the account's lock.
SessionAsRead(session) == account.active

SessionHolds(session) == account.active /\ account.signedIn /\ account.epoch = session

Decide(c) ==
  LET r == call[c].r IN
  /\ call[c].at = "decide"
  /\ Goes(c, Idle)
  /\ \/ /\ SessionHolds(call[c].session) /\ request[r] = "pending"
        /\ CountActiveGrants < MaxActive
        /\ request' = [request EXCEPT ![r] = "approved"]
        /\ code' = [code EXCEPT ![r] = "live"]
        /\ consent' = [consent EXCEPT ![r] = call[c].session]
     \/ /\ SessionHolds(call[c].session) /\ request[r] = "pending"
        /\ request' = [request EXCEPT ![r] = "denied"]
        /\ UNCHANGED <<code, consent>>
     \/ /\ \/ ~SessionHolds(call[c].session)
           \/ request[r] # "pending"
           \/ CountActiveGrants >= MaxActive
        /\ UNCHANGED <<request, code, consent>>
  /\ UNCHANGED <<account, grant, pairs, used, misused>>

---------------------------------------------------------------------------
\* Exchange of a code: every presentation consumes it, and only a matching
\* one of a usable account below its limit makes a connection.
\* (Faulty: the limit is left to the consent.)
RoomAtConsent == TRUE

RoomLeft == CountActiveGrants < MaxActive

Redeem(c, r) ==
  /\ call[c] = Idle
  /\ code[r] = "live"
  /\ code' = [code EXCEPT ![r] = "consumed"]
  /\ \/ /\ account.active /\ RoomLeft
        /\ grant' = [grant EXCEPT ![r] = "active"]
        /\ pairs' = [pairs EXCEPT ![r] = 1]
        /\ Goes(c, [at |-> "recheck", r |-> r])
     \/ UNCHANGED <<grant, pairs, call>>    \* a mismatch, a limit, an account
  /\ UNCHANGED <<account, request, used, consent, misused>>

\* Faulty: a consumed code is refused and nothing else.
ReplayRefused(c, r) ==
  /\ call[c] = Idle
  /\ code[r] = "consumed"
  /\ misused' = misused \cup {r}
  /\ UNCHANGED <<account, request, code, grant, pairs, used, consent, call>>

Replay(c, r) ==
  /\ call[c] = Idle
  /\ code[r] = "consumed"
  /\ misused' = misused \cup {r}
  /\ EndGrant(r)
  /\ UNCHANGED <<account, request, code, pairs, used, consent, call>>

\* The account is read once more before the tokens are returned.
Recheck(c) ==
  /\ call[c].at = "recheck"
  /\ IF account.active THEN UNCHANGED grant ELSE EndGrant(call[c].r)
  /\ Goes(c, Idle)
  /\ UNCHANGED <<account, request, code, pairs, used, consent, misused>>

---------------------------------------------------------------------------
\* Exchange of a refresh token: read, then rotated in a transaction; a token
\* that was used before ends the connection in a statement of its own.
Returned(r) == pairs[r] > 0 /\ \A c \in Calls : call[c].at = "recheck" => call[c].r # r

FindRefresh(c, r, k) ==
  /\ call[c] = Idle
  /\ Returned(r) /\ k <= pairs[r]
  /\ \/ /\ k \in used[r]
        /\ misused' = misused \cup {r}
        /\ Goes(c, [at |-> "revoke", r |-> r])
     \/ /\ k \notin used[r] /\ grant[r] = "active" /\ account.active
        /\ pairs[r] < MaxPairs
        /\ Goes(c, [at |-> "rotate", r |-> r, token |-> k])
        /\ UNCHANGED misused
  /\ UNCHANGED <<account, request, code, grant, pairs, used, consent>>

\* Faulty: the rotation trusts the read.
UnusedAsRead(r, k) == TRUE

Unused(r, k) == k \notin used[r]

Rotate(c) ==
  LET r == call[c].r  k == call[c].token IN
  /\ call[c].at = "rotate"
  /\ \/ /\ ~Unused(r, k)
        /\ misused' = misused \cup {r}
        /\ Goes(c, [at |-> "revoke", r |-> r])
        /\ UNCHANGED <<pairs, used>>
     \/ /\ Unused(r, k) /\ grant[r] = "active"
        /\ used' = [used EXCEPT ![r] = @ \cup {k}]
        /\ pairs' = [pairs EXCEPT ![r] = @ + 1]
        /\ Goes(c, Idle)
        /\ UNCHANGED misused
     \/ /\ Unused(r, k) /\ grant[r] # "active"
        /\ Goes(c, Idle)
        /\ UNCHANGED <<pairs, used, misused>>
  /\ UNCHANGED <<account, request, code, grant, consent>>

HandleRefreshReuse(c) ==
  /\ call[c].at = "revoke"
  /\ EndGrant(call[c].r)
  /\ Goes(c, Idle)
  /\ UNCHANGED <<account, request, code, pairs, used, consent, misused>>

\* The client, the account's owner, or the connection's end of life.
RevokeGrant(r) ==
  /\ grant[r] = "active"
  /\ EndGrant(r)
  /\ UNCHANGED <<account, request, code, pairs, used, consent, misused, call>>

---------------------------------------------------------------------------
\* The account.  Faulty: a code that waits for its exchange is forgotten.
RevokeGrantsOnly ==
  /\ grant' = [r \in Requests |-> IF grant[r] = "active" THEN "ended" ELSE grant[r]]
  /\ UNCHANGED code

RevokeConnectorAuthority ==
  /\ grant' = [r \in Requests |-> IF grant[r] = "active" THEN "ended" ELSE grant[r]]
  /\ code' = [r \in Requests |-> IF code[r] = "live" THEN "revoked" ELSE code[r]]

\* A change of the password, the address, the roles or MFA, or a disablement,
\* ends the sessions and the connections in its own transaction.
RevokeCredentials ==
  /\ account.active /\ account.epoch < MaxEpoch
  /\ \E active \in BOOLEAN :
       account' = [active |-> active, epoch |-> account.epoch + 1, signedIn |-> FALSE]
  /\ RevokeConnectorAuthority
  /\ UNCHANGED <<request, pairs, used, consent, misused, call>>

Enable ==
  /\ ~account.active
  /\ account' = [account EXCEPT !.active = TRUE]
  /\ UNCHANGED <<request, code, grant, pairs, used, consent, misused, call>>

SignIn ==
  /\ account.active /\ ~account.signedIn
  /\ account' = [account EXCEPT !.signedIn = TRUE]
  /\ UNCHANGED <<request, code, grant, pairs, used, consent, misused, call>>

---------------------------------------------------------------------------
Next ==
  \/ \E r \in Requests : CreateRequest(r) \/ Expire(r) \/ RevokeGrant(r)
  \/ \E c \in Calls :
       \/ Decide(c) \/ Recheck(c) \/ Rotate(c) \/ HandleRefreshReuse(c)
       \/ \E r \in Requests :
            \/ BeginDecide(c, r) \/ Redeem(c, r) \/ Replay(c, r)
            \/ \E k \in 1 .. MaxPairs : FindRefresh(c, r, k)
  \/ RevokeCredentials \/ Enable \/ SignIn

Spec == Init /\ [][Next]_vars

---------------------------------------------------------------------------
(***************************************************************************)
(* Properties                                                              *)
(***************************************************************************)
\* "grant issuance serializes per account so the connection cap holds under
\* concurrent redemption": more codes may be approved than there is room for,
\* but never more connections exist.
ConnectionCapHolds == CountActiveGrants <= MaxActive

\* Each consent "either commits before [a revocation of the credentials], and
\* its code or grant is revoked here, or runs after it": what can still be
\* exchanged or used was approved in a session begun since the last revocation,
\* and its account may use it.
AuthorityIsCurrent ==
  \A r \in Requests :
    (code[r] = "live" \/ grant[r] = "active") => consent[r] = account.epoch /\ account.active

\* Of the refresh tokens of a connection one is unused, whatever requests
\* present the same token at once: a lineage of tokens never forks.
OneRefreshTokenIsUnused ==
  \A r \in Requests : pairs[r] > 0 => Cardinality((1 .. pairs[r]) \ used[r]) = 1

\* A code or a refresh token that is presented a second time ends the
\* connection it belongs to, at the latest when that request returns.
MisuseEndsTheGrant ==
  \A r \in misused :
    grant[r] = "active" => \E c \in Calls : call[c].at = "revoke" /\ call[c].r = r

\* A code comes from a decision, and pairs and misuse from a code that was consumed.
ConnectionsComeFromCodes ==
  \A r \in Requests :
    /\ request[r] \in {"none", "pending"} => code[r] = "none"
    /\ pairs[r] > 0 \/ r \in misused => code[r] = "consumed"

\* The pairs of a connection are used in their order.
NewestTokenIsUnused ==
  \A r \in Requests : IF pairs[r] = 0 THEN used[r] = {} ELSE used[r] = 1 .. pairs[r] - 1

\* What rotates was found in the connection, and the newest pair only below the bound.
RotationsAreOfPairs ==
  \A c \in Calls : call[c].at = "rotate" =>
    /\ call[c].token <= pairs[call[c].r]
    /\ call[c].token = pairs[call[c].r] => pairs[call[c].r] < MaxPairs

\* What is true of the connections whatever comes next.
IInv ==
  /\ TypeOK /\ ConnectionCapHolds /\ AuthorityIsCurrent /\ MisuseEndsTheGrant
  /\ ConnectionsComeFromCodes /\ NewestTokenIsUnused /\ RotationsAreOfPairs

=============================================================================
