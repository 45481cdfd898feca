--------------------------- MODULE AccountActions ---------------------------
(***************************************************************************)
(* One account, its password and address, and the links that change them   *)
(* (apps/api/src/auth/service.ts: requestPasswordReset ... confirmEmail-   *)
(* Change, assertCanManageAccount, sendAuthActionToken; postgres-auth-     *)
(* store.ts).  A request reads the account, verifies a password outside    *)
(* any transaction and then commits under a lock of the account's row;     *)
(* meanwhile other requests commit and links are followed.                 *)
(***************************************************************************)
EXTENDS Naturals

CONSTANTS
  Emails,      \* addresses the account may have
  FirstEmail,  \* the address it was created with
  Tokens,      \* links that may be issued
  Calls,       \* concurrent requests
  MaxPassword  \* passwords the account may have in turn

VARIABLES
  account,     \* the rows of the user and of its password credential
  token,       \* auth_action_tokens of the two purposes that need a password
  call,        \* what each request has read and is about to commit
  taken        \* addresses of other accounts

vars == <<account, token, call, taken>>

Purposes == {"password_reset", "email_change"}
Kinds == Purposes \cup {"password_change"}
Idle == [kind |-> "idle"]
Unissued == [state |-> "unissued"]

Snapshot == [email : Emails, password : 1 .. MaxPassword]

TypeOK ==
  /\ account \in [active : BOOLEAN, email : Emails, password : 1 .. MaxPassword]
  /\ token \in [Tokens -> {Unissued} \cup
       [state : {"live", "dead"}, purpose : Purposes, to : Emails, asked : Snapshot]]
  /\ call \in [Calls -> {Idle} \cup [kind : Kinds, seen : Snapshot, to : Emails]]
  /\ taken \in SUBSET (Emails \ {account.email})

Init ==
  /\ account = [active |-> TRUE, email |-> FirstEmail, password |-> 1]
  /\ token = [t \in Tokens |-> Unissued]
  /\ call = [c \in Calls |-> Idle]
  /\ taken = {}

Seen == [email |-> account.email, password |-> account.password]
Live(t) == token[t].state = "live"
Done(c) == call' = [call EXCEPT ![c] = Idle]

---------------------------------------------------------------------------
\* A request reads a usable account; all but a reset verify its password.
Read(c, kind, to) ==
  /\ call[c] = Idle
  /\ account.active
  /\ call' = [call EXCEPT ![c] = [kind |-> kind, seen |-> Seen, to |-> to]]
  /\ UNCHANGED <<account, token, taken>>

RequestPasswordReset(c) == Read(c, "password_reset", account.email)

RequestEmailChange(c) ==
  \E to \in Emails \ (taken \cup {account.email}) : Read(c, "email_change", to)

ChangePassword(c) == Read(c, "password_change", account.email)

\* Faulty: the commit trusts what the request read.
AsReadAlready(seen) == account.active

\* Under the lock the account is still active, and has the address and the
\* password that the request read.
AsRead(seen) == account.active /\ seen = Seen

\* Faulty: outstanding changes of the address survive a change of the password.
InvalidatedResets(purposes) ==
  [t \in Tokens |-> IF Live(t) /\ (token[t].purpose = "password_reset" \/ purposes # Purposes)
                    THEN [token[t] EXCEPT !.state = "dead"] ELSE token[t]]

\* invalidateSecurityActionTokens: every outstanding link of the purposes.
Invalidated(purposes) ==
  [t \in Tokens |-> IF Live(t) /\ token[t].purpose \in purposes
                    THEN [token[t] EXCEPT !.state = "dead"] ELSE token[t]]

\* Faulty: the new link stands beside the earlier ones.
IssueBeside(c) ==
  /\ call[c] # Idle /\ call[c].kind \in Purposes
  /\ \/ ~AsRead(call[c].seen) /\ UNCHANGED token
     \/ \E t \in Tokens :
          /\ AsRead(call[c].seen)
          /\ token[t] = Unissued
          /\ token' = [token EXCEPT ![t] = [state |-> "live", purpose |-> call[c].kind,
                                           to |-> call[c].to, asked |-> call[c].seen]]
  /\ Done(c)
  /\ UNCHANGED <<account, taken>>

\* createAuthActionToken: an earlier request for a change of address is
\* superseded, outstanding reset links are kept.
Issue(c) ==
  /\ call[c] # Idle /\ call[c].kind \in Purposes
  /\ \/ ~AsRead(call[c].seen) /\ UNCHANGED token
     \/ \E t \in Tokens :
          /\ AsRead(call[c].seen)
          /\ token[t] = Unissued
          /\ token' = [IF call[c].kind = "email_change"
                       THEN Invalidated({"email_change"}) ELSE token
                       EXCEPT ![t] = [state |-> "live", purpose |-> call[c].kind, to |-> call[c].to,
                                      asked |-> call[c].seen]]
  /\ Done(c)
  /\ UNCHANGED <<account, taken>>

\* A request for a reset whose predecessor's mail is still queued gets that
\* link; and a request may die, or find no notification sink.
Drop(c) ==
  /\ call[c] # Idle /\ Done(c)
  /\ UNCHANGED <<account, token, taken>>

\* changePasswordAndRevokeCredentials
CommitPassword(c) ==
  /\ call[c] # Idle /\ call[c].kind = "password_change"
  /\ AsRead(call[c].seen) /\ account.password < MaxPassword
  /\ account' = [account EXCEPT !.password = @ + 1]
  /\ token' = Invalidated(Purposes)
  /\ Done(c)
  /\ UNCHANGED taken

---------------------------------------------------------------------------
\* completePasswordReset: the link was sent to the address of the account.
CompletePasswordReset(t) ==
  /\ Live(t) /\ token[t].purpose = "password_reset"
  /\ account.active /\ token[t].to = account.email /\ account.password < MaxPassword
  /\ account' = [account EXCEPT !.password = @ + 1]
  /\ token' = Invalidated(Purposes)
  /\ UNCHANGED <<call, taken>>

\* completeEmailChangeAndRevokeCredentials: an address that another account
\* has taken meanwhile is refused and the link stays.
CompleteEmailChange(t) ==
  /\ Live(t) /\ token[t].purpose = "email_change"
  /\ account.active /\ token[t].to \notin taken
  /\ account' = [account EXCEPT !.email = token[t].to]
  /\ token' = Invalidated(Purposes)
  /\ UNCHANGED <<call, taken>>

Expire(t) ==
  /\ Live(t)
  /\ token' = [token EXCEPT ![t].state = "dead"]
  /\ UNCHANGED <<account, call, taken>>

\* An administrator disables the account or activates it (AccountAdmin).
SetActive ==
  /\ account' = [account EXCEPT !.active = ~@]
  /\ UNCHANGED <<token, call, taken>>

\* Another account takes an address, or gives it up.
OthersMove ==
  /\ \E e \in Emails \ {account.email} :
       taken' = IF e \in taken THEN taken \ {e} ELSE taken \cup {e}
  /\ UNCHANGED <<account, token, call>>

Next ==
  \/ \E c \in Calls :
       \/ RequestPasswordReset(c) \/ RequestEmailChange(c) \/ ChangePassword(c)
       \/ Issue(c) \/ CommitPassword(c) \/ Drop(c)
  \/ \E t \in Tokens : CompletePasswordReset(t) \/ CompleteEmailChange(t) \/ Expire(t)
  \/ SetActive \/ OthersMove

Spec == Init /\ [][Next]_vars

---------------------------------------------------------------------------
\* A link that still works was asked for with the password and the address
\* that the account has now: neither a change that overtook the request nor
\* one that came after the link leaves it working.
LinksMatchTheAccount == \A t \in Tokens : Live(t) => token[t].asked = Seen

\* One outstanding link at most changes the address.
OneAddressChange ==
  \A t, u \in Tokens :
    Live(t) /\ Live(u) /\ token[t].purpose = "email_change" /\ token[u].purpose = "email_change"
      => t = u

\* What is true of the account and its links whatever comes next.
IInv == TypeOK /\ LinksMatchTheAccount /\ OneAddressChange

ChangesAreOrderedStep ==
  Seen' # Seen =>
     \/ \E c \in Calls : call[c] # Idle /\ call'[c] = Idle /\ call[c].seen = Seen
     \/ \E t \in Tokens : Live(t) /\ ~(token'[t].state = "live") /\ token[t].asked = Seen

\* The password and the address change one at a time, each from the state that
\* was read when it was asked for: no second answer to one reading.
ChangesAreOrdered == [][ChangesAreOrderedStep]_vars
=============================================================================
