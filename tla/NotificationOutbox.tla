------------------------- MODULE NotificationOutbox -------------------------
(***************************************************************************)
(* Delivery of account e-mails                                             *)
(* (apps/api/src/auth/notification-outbox.ts and the outbox part of        *)
(* auth/postgres-auth-store.ts), for one account and one purpose.  A       *)
(* request stores an intent together with its token; workers lease         *)
(* intents, check the recipient, send, and store the outcome under the     *)
(* lease.  The provider takes no part in any transaction.                  *)
(*                                                                         *)
(* A delivery of this module is one element of a worker's batch: the code  *)
(* leases up to ten intents in one transaction and delivers them           *)
(* concurrently.  The attempt stands for the lease it draws.               *)
(***************************************************************************)
EXTENDS Naturals, FiniteSets

CONSTANTS
  Intents,      \* intents this instance may store, 1 .. n
  Workers,      \* concurrent deliveries
  MaxAttempts   \* AUTH_NOTIFICATION_MAX_ATTEMPTS, 5 in the code

VARIABLES
  outbox,    \* rows of auth_notification_outbox
  token,     \* per intent, its action token
  account,   \* the account: address and whether it may receive this mail
  delivery,  \* what each worker is doing
  accepted   \* intents whose message the provider accepted at least once

vars == <<outbox, token, account, delivery, accepted>>

Addresses == {"first", "second"}
Active == {"pending", "leased"}
Settled == {"delivered", "invalid", "expired", "failed"}
Outcomes == {"delivered", "invalid", "expired", "retry"}
Idle == [at |-> "idle"]

TypeOK ==
  /\ outbox \in [Intents -> [status : {"absent", "gone"} \cup Active \cup Settled,
                             attempts : 0 .. MaxAttempts, due : BOOLEAN, live : BOOLEAN,
                             payload : BOOLEAN]]
  /\ token \in [Intents -> [used : BOOLEAN, expired : BOOLEAN, address : Addresses]]
  /\ account \in [address : Addresses, eligible : BOOLEAN]
  /\ delivery \in [Workers -> {Idle} \cup
       [at : {"check", "send", "finish"}, i : Intents, attempt : 1 .. MaxAttempts,
        outcome : Outcomes \cup {"none"}]]
  /\ accepted \subseteq Intents

Init ==
  /\ outbox = [i \in Intents |-> [status |-> "absent", attempts |-> 0, due |-> FALSE,
                                  live |-> FALSE, payload |-> FALSE]]
  /\ token = [i \in Intents |-> [used |-> FALSE, expired |-> FALSE, address |-> "first"]]
  /\ account = [address |-> "first", eligible |-> TRUE]
  /\ delivery = [w \in Workers |-> Idle]
  /\ accepted = {}

ActiveIntents == {i \in Intents : outbox[i].status \in Active}
Usable(i) == ~token[i].used /\ ~token[i].expired

\* Faulty: the payload outlives the outcome.
SettleOnly(row, status) == [row EXCEPT !.status = status, !.live = FALSE]

\* A settled row keeps neither payload nor lease.
Settle(row, status) == [row EXCEPT !.status = status, !.payload = FALSE, !.live = FALSE]

---------------------------------------------------------------------------
(* Admission, under the lock of the account.                               *)

\* The oldest active intent that still serves the request.
Serving == {i \in ActiveIntents : Usable(i) /\ token[i].address = account.address}

\* Faulty: leaves the intents that are being delivered.
RetiredPending == [i \in Intents |->
  IF outbox[i].status = "pending" THEN Settle(outbox[i], IF token[i].expired THEN "expired" ELSE "invalid")
  ELSE outbox[i]]

Retired == [i \in Intents |->
  IF i \in ActiveIntents THEN Settle(outbox[i], IF token[i].expired THEN "expired" ELSE "invalid")
  ELSE outbox[i]]

\* A new intent, unless one that is active serves the request; any other active
\* intent is retired.
Request(i) ==
  /\ outbox[i].status = "absent" /\ \A j \in 1 .. i - 1 : outbox[j].status # "absent"
  /\ account.eligible /\ Serving = {}
  /\ outbox' = [Retired EXCEPT ![i] = [status |-> "pending", attempts |-> 0, due |-> TRUE,
                                       live |-> FALSE, payload |-> TRUE]]
  /\ token' = [token EXCEPT ![i].address = account.address]
  /\ UNCHANGED <<account, delivery, accepted>>

---------------------------------------------------------------------------
(* Delivery.                                                               *)

\* Faulty: a lease that ran out is nobody's.
ClaimablePending(i) == outbox[i].status = "pending" /\ outbox[i].due

Claimable(i) ==
  \/ outbox[i].status = "pending" /\ outbox[i].due
  \/ outbox[i].status = "leased" /\ ~outbox[i].live

\* claimAuthNotifications on a row that can still be delivered.
Claim(w, i) ==
  /\ delivery[w] = Idle /\ Claimable(i)
  /\ ~token[i].expired /\ outbox[i].attempts < MaxAttempts
  /\ outbox' = [outbox EXCEPT ![i].status = "leased", ![i].live = TRUE, ![i].due = FALSE,
                              ![i].attempts = @ + 1]
  /\ delivery' = [delivery EXCEPT ![w] =
       [at |-> "check", i |-> i, attempt |-> outbox[i].attempts + 1, outcome |-> "none"]]
  /\ UNCHANGED <<token, account, accepted>>

\* claimAuthNotifications on a row that cannot.
GiveUp(w, i) ==
  /\ delivery[w] = Idle /\ Claimable(i)
  /\ token[i].expired \/ outbox[i].attempts = MaxAttempts
  /\ outbox' = [outbox EXCEPT ![i] = Settle(outbox[i], IF token[i].expired THEN "expired" ELSE "failed")]
  /\ UNCHANGED <<token, account, delivery, accepted>>

\* Faulty: the attempt is not compared.
LeasedAtAll(d) == outbox[d.i].status = "leased" \/ outbox[d.i].status \in Settled

HoldsLease(d) ==
  outbox[d.i].status = "leased" /\ outbox[d.i].attempts = d.attempt /\ outbox[d.i].live

Goes(w, place, outcome) ==
  delivery' = [delivery EXCEPT ![w].at = place, ![w].outcome = outcome]

\* authNotificationRecipient.
CheckRecipient(w) ==
  /\ delivery[w] # Idle /\ delivery[w].at = "check"
  /\ LET i == delivery[w].i IN
     IF /\ HoldsLease(delivery[w]) /\ Usable(i)
        /\ token[i].address = account.address /\ account.eligible
       THEN Goes(w, "send", "none")
       ELSE Goes(w, "finish", IF token[i].expired THEN "expired" ELSE "invalid")
  /\ UNCHANGED <<outbox, token, account, accepted>>

\* Faulty: a time-out counts as sent.
SendAndHope(w) ==
  /\ delivery[w] # Idle /\ delivery[w].at = "send"
  /\ accepted' \in {accepted, accepted \cup {delivery[w].i}}
  /\ Goes(w, "finish", "delivered")
  /\ UNCHANGED <<outbox, token, account>>

\* The provider accepts the message, refuses it, or does not answer in time,
\* with or without having accepted it.  An expired token is not sent.
Send(w) ==
  /\ delivery[w] # Idle /\ delivery[w].at = "send"
  /\ \/ /\ ~token[delivery[w].i].expired
        /\ accepted' = accepted \cup {delivery[w].i}
        /\ Goes(w, "finish", "delivered") \/ Goes(w, "finish", "retry")
     \/ UNCHANGED accepted /\ Goes(w, "finish", "retry")
  /\ UNCHANGED <<outbox, token, account>>

\* What an outcome makes of the row; a retry needs an attempt, a token that
\* will outlive the delay, and one that was not used.
Finished(row, outcome, tok, outlives) ==
  IF outcome # "retry" THEN Settle(row, outcome)
  ELSE IF row.attempts < MaxAttempts /\ outlives /\ ~tok.expired /\ ~tok.used
    THEN [row EXCEPT !.status = "pending", !.live = FALSE]
  ELSE Settle(row, IF tok.used THEN "invalid" ELSE IF tok.expired THEN "expired" ELSE "failed")

\* finishAuthNotification, fenced by the lease.
Finish(w) ==
  /\ delivery[w] # Idle /\ delivery[w].at = "finish"
  /\ LET d == delivery[w] IN
     IF HoldsLease(d)
       THEN \E outlives \in BOOLEAN :
              outbox' = [outbox EXCEPT ![d.i] = Finished(outbox[d.i], d.outcome, token[d.i], outlives)]
       ELSE UNCHANGED outbox
  /\ delivery' = [delivery EXCEPT ![w] = Idle]
  /\ UNCHANGED <<token, account, accepted>>

\* The process stops, after its drain or without one: outcomes are dropped.
Stop(w) ==
  /\ delivery[w] # Idle
  /\ delivery' = [delivery EXCEPT ![w] = Idle]
  /\ UNCHANGED <<outbox, token, account, accepted>>

---------------------------------------------------------------------------
(* The account, the recipient and time.                                    *)

\* The recipient follows the link.
Consume(i) ==
  /\ i \in accepted /\ Usable(i)
  /\ token' = [token EXCEPT ![i].used = TRUE]
  /\ UNCHANGED <<outbox, account, delivery, accepted>>

\* completeEmailChange sets the address and uses up the tokens of the account.
ChangeAddress ==
  /\ account.address = "first"
  /\ account' = [account EXCEPT !.address = "second"]
  /\ token' = [i \in Intents |->
       IF outbox[i].status = "absent" THEN token[i] ELSE [token[i] EXCEPT !.used = TRUE]]
  /\ UNCHANGED <<outbox, delivery, accepted>>

Disable ==
  /\ account.eligible
  /\ account' = [account EXCEPT !.eligible = FALSE]
  /\ UNCHANGED <<outbox, token, delivery, accepted>>

TokenExpires(i) ==
  /\ outbox[i].status # "absent" /\ ~token[i].expired
  /\ token' = [token EXCEPT ![i].expired = TRUE]
  /\ UNCHANGED <<outbox, account, delivery, accepted>>

LeaseExpires(i) ==
  /\ outbox[i].status = "leased" /\ outbox[i].live
  /\ outbox' = [outbox EXCEPT ![i].live = FALSE]
  /\ UNCHANGED <<token, account, delivery, accepted>>

BecomesDue(i) ==
  /\ outbox[i].status = "pending" /\ ~outbox[i].due
  /\ outbox' = [outbox EXCEPT ![i].due = TRUE]
  /\ UNCHANGED <<token, account, delivery, accepted>>

\* A day after it was settled the row is deleted, by the next claim.
Retain(i) ==
  /\ ~outbox[i].payload /\ outbox[i].status \in Settled
  /\ outbox' = [outbox EXCEPT ![i].status = "gone"]
  /\ UNCHANGED <<token, account, delivery, accepted>>

Work(w) ==
  \/ \E i \in Intents : Claim(w, i) \/ GiveUp(w, i)
  \/ CheckRecipient(w) \/ Send(w) \/ Finish(w)

Next ==
  \/ \E i \in Intents :
       \/ Request(i) \/ Consume(i) \/ TokenExpires(i) \/ LeaseExpires(i) \/ BecomesDue(i)
       \/ Retain(i)
  \/ \E w \in Workers : Work(w) \/ Stop(w)
  \/ ChangeAddress \/ Disable

Spec == Init /\ [][Next]_vars

\* Workers poll every second, and time passes.
Fairness ==
  /\ \A w \in Workers : WF_vars(Work(w))
  /\ \A i \in Intents : WF_vars(LeaseExpires(i)) /\ WF_vars(BecomesDue(i))

FairSpec == Spec /\ Fairness

---------------------------------------------------------------------------
\* At most one intent of the account and purpose is on its way, however many
\* requests arrive while one is being delivered.
OneIntentOnItsWay == Cardinality(ActiveIntents) <= 1

\* A row that can still be claimed has its payload, which a claim requires of
\* every row it takes, and a settled row has none.
PayloadIsKeptWhileNeeded ==
  \A i \in Intents : outbox[i].payload <=> outbox[i].status \in Active

\* "delivered" is stored only for a message the provider accepted.
DeliveredWasAccepted ==
  \A i \in Intents : outbox[i].status = "delivered" => i \in accepted

\* Two intents are never both on their way.
NoTwoOnTheirWay == \A i, j \in ActiveIntents : i = j

\* A worker stores an outcome, and "delivered" only for a message the provider accepted.
DeliveriesWereAccepted ==
  \A w \in Workers :
    delivery[w] # Idle /\ delivery[w].at = "finish" =>
      /\ delivery[w].outcome # "none"
      /\ delivery[w].outcome = "delivered" => delivery[w].i \in accepted

\* What is true of the outbox whatever comes next.
IInv ==
  /\ TypeOK /\ NoTwoOnTheirWay /\ PayloadIsKeptWhileNeeded
  /\ DeliveredWasAccepted /\ DeliveriesWereAccepted

SettledStaysStep ==
  \A i \in Intents : outbox[i].status \in Settled =>
     outbox'[i].status \in {outbox[i].status, "gone"}

\* What is settled stays settled with its outcome until it is deleted: no late
\* worker and no retry brings it back.
SettledStays == [][SettledStaysStep]_vars

OnItsWay(i) == outbox[i].status \in Active

\* Every intent is settled at last, however often workers stop.
IntentsAreSettled == \A i \in Intents : OnItsWay(i) ~> ~OnItsWay(i)
===========================================================================
