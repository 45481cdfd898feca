------------------------------- MODULE SignIn -------------------------------
(***************************************************************************)
(* Signing in to one account, with a second factor, and the enrolment of   *)
(* that factor (apps/api/src/auth/service.ts: login, verifyMfaChallenge,   *)
(* startTotpEnrollment, confirmTotpEnrollment, disableTotpMfa; the rows of *)
(* postgres-auth-store.ts).  Only disabling is a transaction of several    *)
(* statements: everything else is a row of single statements with other    *)
(* requests between them, and a request may die after each.                *)
(* A refused request writes nothing, so that refusals for other reasons,   *)
(* as the status of the account or a rate limit, are requests that never   *)
(* go on.  Not modelled: hashing, the names of factors.  A one-time code   *)
(* fits one factor, so that the loop over factors ends with its claim.     *)
(***************************************************************************)
EXTENDS Naturals, Sequences

CONSTANTS
  Calls,        \* concurrent requests
  Factors,      \* rows of mfa_factors that may be made
  MaxTime,      \* last time step of the one-time codes
  MaxChallenges, MaxSessions,
  MaxConfirmations   \* how often one factor is confirmed

VARIABLES
  time,       \* the current time step
  factor,     \* mfa_factors
  recovery,   \* mfa_recovery_codes, one for each confirmation that stored some
  challenge,  \* mfa_challenges
  session,    \* auth_sessions
  call        \* what each request has read and is about to do

vars == <<time, factor, recovery, challenge, session, call>>

Idle == [at |-> "idle"]
ByPassword == <<"password">>
NoFactor == [status |-> "none", last |-> 0, enabled |-> 0]
Enrolled == [status |-> "enabled", last |-> 0, enabled |-> 1]

\* What a session may rest on: a one-time code of a factor, as often as that was enabled,
\* or a recovery code.
Proofs == ({"code"} \X Factors \X Nat \X Nat) \cup ({"recovery"} \X Nat)

TypeOK ==
  /\ time \in 1 .. MaxTime
  /\ factor \in [Factors -> [status : {"none", "pending", "enabled", "disabled"},
                             last : 0 .. MaxTime + 1, enabled : Nat]]
  /\ recovery \in Seq({"stored", "used", "gone"})
  /\ challenge \in Seq({"open", "expired", "used"}) /\ Len(challenge) <= MaxChallenges
  /\ session \in Seq([live : BOOLEAN, proof : {ByPassword} \cup Proofs, challenge : Nat])
  /\ call \in [Calls ->
       [at : {"idle", "login", "enter", "challenge", "manage", "replace", "insert"}]
       \cup [at : {"prove"}, challenge : Nat]
       \cup [at : {"claim"}, challenge : Nat, f : Factors, n : 1 .. MaxTime + 1]
       \cup [at : {"proved", "verified"}, challenge : Nat, proof : Proofs]
       \cup [at : {"actor"}, verified : BOOLEAN]
       \cup [at : {"others", "enable"}, f : Factors, n : 1 .. MaxTime + 1]]

Init ==
  /\ time = 1
  /\ \/ factor = [f \in Factors |-> NoFactor] /\ recovery = <<>>
     \/ \E f \in Factors : /\ factor = [g \in Factors |-> IF g = f THEN Enrolled ELSE NoFactor]
                           /\ recovery = <<"stored">>
  /\ challenge = <<>> /\ session = <<>>
  /\ call = [c \in Calls |-> Idle]

rows == <<factor, recovery, challenge, session>>
Enabled == {f \in Factors : factor[f].status = "enabled"}
Goto(c, r) == call' = [call EXCEPT ![c] = r]
Done(c) == Goto(c, Idle)
At(c, at) == call[c].at = at
AddSession(proof, n) ==
  /\ Len(session) < MaxSessions
  /\ session' = Append(session, [live |-> TRUE, proof |-> proof, challenge |-> n])

---------------------------------------------------------------------------
\* login: the password has been compared with the account that was read.
ReadAccount(c) ==
  /\ At(c, "idle")
  /\ Goto(c, [at |-> "login"])
  /\ UNCHANGED <<time, rows>>

CountFactors(c) ==
  /\ At(c, "login")
  /\ Goto(c, [at |-> IF Enabled = {} THEN "enter" ELSE "challenge"])
  /\ UNCHANGED <<time, rows>>

CreateSession(c) ==
  /\ At(c, "enter")
  /\ AddSession(ByPassword, 0)
  /\ Done(c)
  /\ UNCHANGED <<time, factor, recovery, challenge>>

CreateChallenge(c) ==
  /\ At(c, "challenge")
  /\ Len(challenge) < MaxChallenges
  /\ challenge' = Append(challenge, "open")
  /\ Done(c)
  /\ UNCHANGED <<time, factor, recovery, session>>

---------------------------------------------------------------------------
\* verifyMfaChallenge: an open challenge of a usable account.
FindChallenge(c) ==
  /\ At(c, "idle")
  /\ \E n \in DOMAIN challenge :
       challenge[n] = "open" /\ Goto(c, [at |-> "prove", challenge |-> n])
  /\ UNCHANGED <<time, rows>>

Window == {n \in time - 1 .. time + 1 : n > 0}

\* verifyTotpForUser: an enabled factor whose code of step n was not used.
ListFactors(c) ==
  /\ At(c, "prove")
  /\ \E f \in Enabled, n \in Window :
       /\ n > factor[f].last
       /\ Goto(c, [at |-> "claim", challenge |-> call[c].challenge, f |-> f, n |-> n])
  /\ UNCHANGED <<time, rows>>

\* Faulty: trusts the counter that was listed.
NotUsedAsListed(f, n) == TRUE

NotUsed(f, n) == factor[f].last < n

\* updateMfaTotpFactorCounter: one conditional statement.
ClaimCounter(c) ==
  /\ At(c, "claim")
  /\ LET f == call[c].f
         n == call[c].n
     IN  IF NotUsed(f, n)
           THEN /\ factor' = [factor EXCEPT ![f].last = n]
                /\ Goto(c, [at |-> "proved", challenge |-> call[c].challenge,
                            proof |-> <<"code", f, factor[f].enabled, n>>])
           ELSE Done(c) /\ UNCHANGED factor
  /\ UNCHANGED <<time, recovery, challenge, session>>

\* Faulty: marks the code, whether it was used or not.
ConsumableAny(b) == recovery[b] # "gone"

Consumable(b) == recovery[b] = "stored"

\* consumeMfaRecoveryCode.
ConsumeRecoveryCode(c) ==
  /\ At(c, "prove")
  /\ \E b \in DOMAIN recovery :
       /\ Consumable(b)
       /\ recovery' = [recovery EXCEPT ![b] = "used"]
       /\ Goto(c, [at |-> "proved", challenge |-> call[c].challenge, proof |-> <<"recovery", b>>])
  /\ UNCHANGED <<time, factor, challenge, session>>

\* Faulty: the challenge was open when it was found.
MarkableOnceFound(n) == TRUE

Markable(n) == challenge[n] # "used"

\* markMfaChallengeUsed: of two requests that proved, one may go on; the time of the
\* challenge may have run out since it was found.
ClaimChallenge(c) ==
  /\ At(c, "proved")
  /\ LET n == call[c].challenge
     IN  IF Markable(n)
           THEN /\ challenge' = [challenge EXCEPT ![n] = "used"]
                /\ Goto(c, [call[c] EXCEPT !.at = "verified"])
           ELSE Done(c) /\ UNCHANGED challenge
  /\ UNCHANGED <<time, factor, recovery, session>>

CreateVerifiedSession(c) ==
  /\ At(c, "verified")
  /\ AddSession(call[c].proof, call[c].challenge)
  /\ Done(c)
  /\ UNCHANGED <<time, factor, recovery, challenge>>

---------------------------------------------------------------------------
\* A request is authenticated by a live session of a usable account.
Authenticate(c) ==
  /\ At(c, "idle")
  /\ \E s \in DOMAIN session :
       session[s].live /\ Goto(c, [at |-> "actor", verified |-> session[s].proof # ByPassword])
  /\ UNCHANGED <<time, rows>>

\* assertCanUseMfaManagementSession.
MayManage(c) ==
  /\ At(c, "actor")
  /\ Enabled = {} \/ call[c].verified
  /\ Goto(c, [at |-> "manage"])
  /\ UNCHANGED <<time, rows>>

\* createMfaTotpFactor.
StartEnrollment(c) ==
  /\ At(c, "manage")
  /\ \E f \in Factors :
       factor[f] = NoFactor /\ factor' = [factor EXCEPT ![f].status = "pending"]
  /\ Done(c)
  /\ UNCHANGED <<time, recovery, challenge, session>>

\* confirmTotpEnrollment finds a pending factor and checks the code of a step.
FindPending(c) ==
  /\ At(c, "manage")
  /\ \E f \in Factors, n \in Window :
       /\ factor[f].status = "pending"
       /\ Goto(c, [at |-> "others", f |-> f, n |-> n])
  /\ UNCHANGED <<time, rows>>

Disabled(fs) ==
  [f \in Factors |-> IF f \in fs /\ factor[f].status \in {"pending", "enabled"}
                     THEN [factor[f] EXCEPT !.status = "disabled"] ELSE factor[f]]

DisableOthers(c) ==
  /\ At(c, "others")
  /\ factor' = Disabled(Factors \ {call[c].f})
  /\ Goto(c, [call[c] EXCEPT !.at = "enable"])
  /\ UNCHANGED <<time, recovery, challenge, session>>

\* enableMfaTotpFactor asks for no status: it also enables what a concurrent
\* request has enabled or disabled, and sets its counter.
EnableFactor(c) ==
  /\ At(c, "enable") /\ factor[call[c].f].enabled < MaxConfirmations
  /\ factor' = [factor EXCEPT ![call[c].f] =
                  [status |-> "enabled", last |-> call[c].n, enabled |-> @.enabled + 1]]
  /\ Goto(c, [at |-> "replace"])
  /\ UNCHANGED <<time, recovery, challenge, session>>

Gone == [b \in DOMAIN recovery |-> "gone"]

\* replaceMfaRecoveryCodes: two statements.
DeleteRecoveryCodes(c) ==
  /\ At(c, "replace")
  /\ recovery' = Gone
  /\ Goto(c, [at |-> "insert"])
  /\ UNCHANGED <<time, factor, challenge, session>>

InsertRecoveryCodes(c) ==
  /\ At(c, "insert")
  /\ recovery' = Append(recovery, "stored")
  /\ Done(c)
  /\ UNCHANGED <<time, factor, challenge, session>>

\* revokeCredentials, as far as sessions go.
Revoked == [s \in DOMAIN session |-> [session[s] EXCEPT !.live = FALSE]]

\* disableMfaAndRevokeCredentials: one transaction.
DisableMfa(c) ==
  /\ At(c, "manage")
  /\ factor' = Disabled(Factors)
  /\ recovery' = Gone
  /\ session' = Revoked
  /\ Done(c)
  /\ UNCHANGED <<time, challenge>>

---------------------------------------------------------------------------
Logout ==
  /\ \E s \in DOMAIN session :
       session[s].live /\ session' = [session EXCEPT ![s].live = FALSE]
  /\ UNCHANGED <<time, factor, recovery, challenge, call>>

\* Passwords, roles and status are changed (AccountActions, AccountAdmin).
RevokeCredentials ==
  /\ \E s \in DOMAIN session : session[s].live
  /\ session' = Revoked
  /\ UNCHANGED <<time, factor, recovery, challenge, call>>

\* A challenge expires.
ChallengeExpires ==
  /\ \E n \in DOMAIN challenge :
       challenge[n] = "open" /\ challenge' = [challenge EXCEPT ![n] = "expired"]
  /\ UNCHANGED <<time, factor, recovery, session, call>>

Tick ==
  /\ time < MaxTime /\ time' = time + 1
  /\ UNCHANGED <<rows, call>>

\* The request fails or its process dies.
Die(c) ==
  /\ call[c] # Idle
  /\ Done(c)
  /\ UNCHANGED <<time, rows>>

Next ==
  \/ \E c \in Calls :
       \/ ReadAccount(c) \/ CountFactors(c) \/ CreateSession(c) \/ CreateChallenge(c)
       \/ FindChallenge(c) \/ ListFactors(c) \/ ClaimCounter(c) \/ ConsumeRecoveryCode(c)
       \/ ClaimChallenge(c) \/ CreateVerifiedSession(c)
       \/ Authenticate(c) \/ MayManage(c) \/ StartEnrollment(c) \/ FindPending(c)
       \/ DisableOthers(c) \/ EnableFactor(c) \/ DeleteRecoveryCodes(c) \/ InsertRecoveryCodes(c)
       \/ DisableMfa(c) \/ Die(c)
  \/ Logout \/ RevokeCredentials \/ ChallengeExpires \/ Tick

Spec == Init /\ [][Next]_vars

---------------------------------------------------------------------------
\* Two sessions never rest on the same challenge, recovery code or one-time code
\* of a factor, however many requests present it at the same time.  Confirming a
\* factor again sets its counter back: codes count from each time it is enabled.
CodesAreUsedOnce ==
  \A s, t \in DOMAIN session :
    s # t /\ session[s].proof # ByPassword =>
      session[s].proof # session[t].proof /\ session[s].challenge # session[t].challenge

\* A proof that was accepted is not accepted again: its time step has passed for the
\* factor, or its row is used or gone.
Spent(proof) ==
  \/ /\ proof[1] = "code"
     /\ proof[3] <= factor[proof[2]].enabled
     /\ proof[3] = factor[proof[2]].enabled => proof[4] <= factor[proof[2]].last
  \/ /\ proof[1] = "recovery"
     /\ proof[2] \in DOMAIN recovery /\ recovery[proof[2]] # "stored"

Proven(c) == call[c].at \in {"proved", "verified"}

\* What requests and sessions hold is spent, and a challenge that was claimed is used.
ProofsAreSpent ==
  /\ \A c \in Calls :
       /\ Proven(c) => Spent(call[c].proof)
       /\ At(c, "verified") => challenge[call[c].challenge] = "used"
       /\ call[c].at \in {"prove", "claim"} \/ Proven(c) => call[c].challenge \in DOMAIN challenge
  /\ \A s \in DOMAIN session :
       IF session[s].proof = ByPassword THEN session[s].challenge = 0
       ELSE /\ Spent(session[s].proof)
            /\ session[s].challenge \in DOMAIN challenge
            /\ challenge[session[s].challenge] = "used"

\* No two requests, and no request and session, hold the same proof or claimed challenge.
ProofsAreApart ==
  /\ \A c, d \in Calls : c # d /\ Proven(c) /\ Proven(d) => call[c].proof # call[d].proof
  /\ \A c, d \in Calls :
       c # d /\ At(c, "verified") /\ At(d, "verified") => call[c].challenge # call[d].challenge
  /\ \A c \in Calls, s \in DOMAIN session :
       /\ Proven(c) => call[c].proof # session[s].proof
       /\ At(c, "verified") => call[c].challenge # session[s].challenge

\* What is true of signing in whatever comes next.
IInv == TypeOK /\ CodesAreUsedOnce /\ ProofsAreSpent /\ ProofsAreApart
==============================================================================
