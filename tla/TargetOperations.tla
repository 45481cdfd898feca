------------------------- MODULE TargetOperations -------------------------
(***************************************************************************)
(* The companion queue of one target (apps/api/src/target-operations).     *)
(* Operations to install, update or roll back one skill wait in a queue.   *)
(* Companions poll the queue, claim an operation under a lease and a       *)
(* fencing token, report progress, and complete it.  Architecture-sync     *)
(* runs contend for the same target through a lease of their own, and the  *)
(* two tables share one fence.                                             *)
(*                                                                         *)
(* Every store method is one transaction that locks the target row first   *)
(* (mutate, listClaimable, createBatch, acquireLease), so each is one      *)
(* atomic step.  The service's checks before a transaction read the same   *)
(* conditions earlier; a transaction may find them changed, so the guards  *)
(* here are the transaction's own.                                         *)
(*                                                                         *)
(* A lease is the time it has left: Tick is the database clock.  Version 0 *)
(* means "not installed".  A version stands for its immutable release, so  *)
(* comparing versions also compares artifact digests.                      *)
(*                                                                         *)
(* An operator marked "Faulty" is not part of the model: it is a plausible *)
(* bug, put in place of the definition after it to see a property fail.    *)
(***************************************************************************)
EXTENDS Integers, FiniteSets

CONSTANTS
  Ops,            \* identifiers of operations, numbered in order of creation
  Holders,        \* companion processes
  NoHolder,       \* the null holder column
  MaxVersion,     \* releases of the skill are numbered 1..MaxVersion
  MaxGeneration,  \* bound on target generations
  LeaseTime,      \* ticks a granted or renewed lease lasts
  PageLimit,      \* rows a poll lists (10 in the code)
  MaxFence,       \* largest fence a companion may be given (10^9 in the code)
  MaxSyncFence,   \* largest fence a sync run may be given (10^12 in the code)
  Consents,       \* consent values the owner may set in this instance
  Policies,       \* upgrade-policy verdicts that occur in this instance
  PollsMayDie     \* TRUE if a poll request can be lost between transactions

ASSUME OpsAssumption == Ops \subseteq Nat \ {0}
ASSUME HolderAssumption == NoHolder \notin Holders
ASSUME BoundsAssumption ==
  /\ MaxVersion \in Nat /\ MaxGeneration \in Nat \ {0}
  /\ LeaseTime \in Nat \ {0} /\ PageLimit \in Nat \ {0}
  /\ MaxFence \in Nat /\ MaxSyncFence \in Nat
ASSUME EnvironmentAssumption ==
  /\ Consents \subseteq {"granted", "denied", "revoked"}
  /\ Policies \subseteq {"allows", "outside-window", "blocks"}
  /\ PollsMayDie \in BOOLEAN

VARIABLES
  ops,         \* rows of target_skill_operations
  sync,        \* the target's row of skill_architecture_sync_target_leases
  cursor,      \* operation the last poll ended at; 0 before the first poll
  polls,       \* per companion, the poll request being served
  grants,      \* every claim response ever sent to a companion
  generation,  \* generation of the target row
  consent,     \* consent of the target row; "revoked" is final
  policy,      \* what policy, release and maintenance window now allow
  evidence     \* installed version shown by the newest receipt or observation

vars == <<ops, sync, cursor, polls, grants, generation, consent, policy, evidence>>
targetVars == <<generation, consent, policy>>

ActiveStates == {"claimed", "applying", "verifying"}
TerminalStates == {"succeeded", "failed", "cancelled", "expired"}
OpStates == {"absent", "queued"} \cup ActiveStates \cup TerminalStates

Versions == 1 .. MaxVersion
Generations == 1 .. MaxGeneration
Fences == Nat

OpRecord ==
  [state : OpStates, gen : Generations, from : Versions \cup {0},
   to : Versions \cup {0}, fence : Fences, holder : Holders \cup {NoHolder},
   token : Nat, lease : 0 .. LeaseTime]

\* What a companion learns from a successful claim.  The token stands for the
\* hash of 32 fresh random bytes, so it is numbered by the claim.
Grant == [op : Ops, holder : Holders, token : Nat, fence : Fences]

TypeOK ==
  /\ ops \in [Ops -> OpRecord]
  /\ sync \in [active : BOOLEAN, fence : Fences, lease : 0 .. LeaseTime]
  /\ cursor \in Ops \cup {0}
  /\ polls \in [Holders -> [gen : Generations, rows : SUBSET Ops]]
  /\ grants \subseteq Grant
  /\ generation \in Generations
  /\ consent \in {"granted", "denied", "revoked"}
  /\ policy \in {"allows", "outside-window", "blocks"}
  /\ evidence \in Versions \cup {0}

\* A poll request in progress: the companion's generation, the rows left to try.
NoRequest == [gen |-> 1, rows |-> {}]
Request(g, rows) == IF rows = {} THEN NoRequest ELSE [gen |-> g, rows |-> rows]

Init ==
  /\ ops = [o \in Ops |-> [state |-> "absent", gen |-> 1, from |-> 0, to |-> 0,
                           fence |-> 0, holder |-> NoHolder, token |-> 0, lease |-> 0]]
  /\ sync = [active |-> FALSE, fence |-> 0, lease |-> 0]
  /\ cursor = 0
  /\ polls = [h \in Holders |-> NoRequest]
  /\ grants = {}
  /\ generation = 1
  /\ consent = "granted"
  /\ policy = "allows"
  /\ evidence \in Versions \cup {0}

---------------------------------------------------------------------------
(* Reading the rows.                                                       *)

Live(o) == ops[o].state \in ActiveStates /\ ops[o].lease > 0
Lapsed(o) == ops[o].state \in ActiveStates /\ ops[o].lease = 0
SyncLive == sync.active /\ sync.lease > 0

Claimable(o) == ops[o].state = "queued" \/ Lapsed(o)

\* Faulty: forgets the sync lease.
BusyIgnoringSync(o) == \E p \in Ops \ {o} : Live(p)

\* Another operation's unexpired claim, or an unexpired sync lease.
Busy(o) == SyncLive \/ \E p \in Ops \ {o} : Live(p)

\* Faulty: looks at one of the two tables.
IsOperationFence(f) ==
  /\ \E o \in Ops : f = ops[o].fence
  /\ \A o \in Ops : f >= ops[o].fence

\* f is the highest fence ever given out for this target, over both tables.
IsTargetFence(f) ==
  /\ f = sync.fence \/ \E o \in Ops : f = ops[o].fence
  /\ f >= sync.fence
  /\ \A o \in Ops : f >= ops[o].fence

\* A companion's next fence would pass its limit.
FenceExhausted == sync.fence >= MaxFence \/ \E o \in Ops : ops[o].fence >= MaxFence

\* Faulty: does not ask whether the operation is of this generation.
EligibleOnceQueued(o) == consent = "granted" /\ policy # "blocks"

\* What a claim, an advance and a success check besides the source version.
Eligible(o) ==
  /\ consent = "granted"
  /\ ops[o].gen = generation
  /\ policy # "blocks"

\* Faulty: work that has started is no longer held to the evidence.
SourceCurrentOnceStarted(o) == ops[o].state # "queued" \/ evidence = ops[o].from

\* The plan's source version is still what the evidence shows.  Work that has
\* started also continues once the evidence shows its own result.
SourceCurrent(o) ==
  \/ ops[o].state # "queued" /\ evidence = ops[o].to
  \/ evidence = ops[o].from

\* Faulty: accepts a lapsed claim.
CurrentOrLapsedClaim(g) ==
  ops[g.op].holder = g.holder /\ ops[g.op].token = g.token /\ ops[g.op].fence = g.fence

\* The companion presents the credentials of the row's current, unexpired claim.
CurrentClaim(g) ==
  /\ ops[g.op].holder = g.holder
  /\ ops[g.op].token = g.token
  /\ ops[g.op].fence = g.fence
  /\ ops[g.op].lease > 0

\* Faulty: leaves the claim columns set.
ClosedKeepingHolder(row, s) == [row EXCEPT !.state = s, !.lease = 0]

Closed(row, s) ==
  [row EXCEPT !.state = s, !.holder = NoHolder, !.token = 0, !.lease = 0]

---------------------------------------------------------------------------
(* Scheduling.                                                             *)

\* schedule: prepare reads the evidence, create re-reads it under the target
\* lock.  A repeated idempotency key finds the existing row and changes nothing.
Schedule(o, to) ==
  /\ ops[o].state = "absent"
  /\ \A p \in Ops : p < o => ops[p].state # "absent"
  /\ consent = "granted" /\ policy # "blocks"
  /\ to # evidence
  /\ ops' = [ops EXCEPT ![o] = [@ EXCEPT !.state = "queued", !.gen = generation,
                                         !.from = evidence, !.to = to]]
  /\ UNCHANGED <<sync, cursor, polls, grants, targetVars, evidence>>

\* Faulty: does not authorize the target again.
CancelOnAnyTarget(o) ==
  /\ ops[o].state = "queued"
  /\ ops' = [ops EXCEPT ![o].state = "cancelled"]
  /\ UNCHANGED <<sync, cursor, polls, grants, targetVars, evidence>>

Cancel(o) ==
  /\ consent # "revoked"
  /\ ops[o].state = "queued"
  /\ ops' = [ops EXCEPT ![o].state = "cancelled"]
  /\ UNCHANGED <<sync, cursor, polls, grants, targetVars, evidence>>

---------------------------------------------------------------------------
(* Claiming: one transaction lists a page of rows, then one transaction    *)
(* per row tries to claim it.                                              *)

Idle(h) == polls[h].rows = {}

\* The first PageLimit claimable rows after position c, in creation order.
PageAfter(c) ==
  LET open == {o \in Ops : o > c /\ Claimable(o)}
  IN  {o \in open : Cardinality({p \in open : p < o}) < PageLimit}

\* Faulty: never starts over.
NextPageWithoutWrap == PageAfter(cursor)

\* The page after the cursor, or from the start once nothing follows it.
NextPage == IF PageAfter(cursor) = {} THEN PageAfter(0) ELSE PageAfter(cursor)

\* A companion enrolled for target generation g asks for work.  Rows of an
\* older generation expire here; the others become the request's candidates.
Poll(h, g) ==
  /\ Idle(h)
  /\ consent # "revoked"
  /\ g <= generation
  /\ LET page == NextPage
         stale == {o \in page : ops[o].gen # generation}
     IN  /\ cursor' \in page \/ (page = {} /\ cursor' = cursor)
         /\ \A o \in page : o <= cursor'
         /\ ops' = [o \in Ops |-> IF o \in stale THEN Closed(ops[o], "expired") ELSE ops[o]]
         /\ polls' = [polls EXCEPT ![h] = Request(g, page \ stale)]
  /\ UNCHANGED <<sync, grants, targetVars, evidence>>

\* o is the candidate the request of h tries next.
Candidate(h, o) == o \in polls[h].rows /\ \A p \in polls[h].rows : o <= p

NextCandidate(h, o) == polls' = [polls EXCEPT ![h] = Request(@.gen, @.rows \ {o})]
RequestEnds(h) == polls' = [polls EXCEPT ![h] = NoRequest]

\* The service passes over a candidate that policy holds back now, or that is
\* not of the generation the companion is enrolled for.
SkipCandidate(h, o) ==
  /\ Candidate(h, o)
  /\ consent = "granted"
  /\ \/ policy # "allows"
     \/ polls[h].gen # generation
     \/ polls[h].gen # ops[o].gen
  /\ NextCandidate(h, o)
  /\ UNCHANGED <<ops, sync, cursor, grants, targetVars, evidence>>

\* The claim transaction runs for a candidate the service did not pass over.
ClaimRuns(h, o) ==
  /\ Candidate(h, o)
  /\ polls[h].gen = ops[o].gen
  /\ consent # "revoked"

\* Faulty: does not look at the state the row is in by now.
ClaimExpiresAnyState(h, o) ==
  /\ ClaimRuns(h, o)
  /\ ops[o].gen # generation \/ ~SourceCurrent(o)
  /\ ops' = [ops EXCEPT ![o] = Closed(@, "expired")]
  /\ NextCandidate(h, o)
  /\ UNCHANGED <<sync, cursor, grants, targetVars, evidence>>

\* The generation changed since the page was listed, or a queued plan's source
\* version did: the row expires and the next candidate is tried.
ClaimExpires(h, o) ==
  /\ ClaimRuns(h, o)
  /\ \/ /\ ops[o].gen # generation
        /\ ops[o].state \in {"queued"} \cup ActiveStates
     \/ /\ ops[o].state = "queued"
        /\ Eligible(o) /\ ~SourceCurrent(o)
  /\ ops' = [ops EXCEPT ![o] = Closed(@, "expired")]
  /\ NextCandidate(h, o)
  /\ UNCHANGED <<sync, cursor, grants, targetVars, evidence>>

\* claim returned null: the row is settled or taken, or the target is busy.
ClaimPassesOver(h, o) ==
  /\ ClaimRuns(h, o)
  /\ \/ ops[o].gen = generation /\ ~Claimable(o)
     \/ ops[o].gen # generation /\ ops[o].state \in TerminalStates
     \/ Eligible(o) /\ SourceCurrent(o) /\ policy = "allows" /\ Busy(o)
  /\ NextCandidate(h, o)
  /\ UNCHANGED <<ops, sync, cursor, grants, targetVars, evidence>>

\* claim threw, so the whole request fails: no candidate after o is tried.
ClaimThrows(h, o) ==
  /\ Candidate(h, o)
  /\ \/ consent # "granted"
     \/ /\ ClaimRuns(h, o) /\ ops[o].gen = generation /\ Claimable(o)
        /\ \/ ~Eligible(o)
           \/ Lapsed(o) /\ ~SourceCurrent(o)
           \/ SourceCurrent(o) /\ policy = "outside-window"
           \/ /\ SourceCurrent(o) /\ ~Busy(o)
              /\ FenceExhausted
  /\ RequestEnds(h)
  /\ UNCHANGED <<ops, sync, cursor, grants, targetVars, evidence>>

ClaimGranted(h, o) ==
  /\ ClaimRuns(h, o)
  /\ Claimable(o)
  /\ Eligible(o) /\ SourceCurrent(o) /\ policy = "allows"
  /\ ~Busy(o)
  /\ \E f \in 0 .. MaxFence - 1 :
       LET token == Cardinality(grants) + 1
       IN  /\ IsTargetFence(f)
           /\ ops' = [ops EXCEPT ![o] = [@ EXCEPT !.state = "claimed", !.fence = f + 1,
                                                  !.holder = h, !.token = token,
                                                  !.lease = LeaseTime]]
           /\ grants' = grants \cup
                {[op |-> o, holder |-> h, token |-> token, fence |-> f + 1]}
  /\ RequestEnds(h)
  /\ UNCHANGED <<sync, cursor, targetVars, evidence>>

\* The API process serving the request dies between two transactions.
PollDies(h) ==
  /\ PollsMayDie /\ ~Idle(h)
  /\ RequestEnds(h)
  /\ UNCHANGED <<ops, sync, cursor, grants, targetVars, evidence>>

---------------------------------------------------------------------------
(* Progress reports.  A companion may send them with any claim it was ever *)
(* given, at any time and any number of times.                             *)

AdvanceFrom(s) == IF s = "applying" THEN {"claimed", "applying"} ELSE {"applying", "verifying"}

Advance(g, s) ==
  LET o == g.op IN
  /\ consent # "revoked"
  /\ CurrentClaim(g)
  /\ ops[o].state \in AdvanceFrom(s)
  /\ Eligible(o) /\ SourceCurrent(o)
  /\ IsTargetFence(g.fence)
  /\ policy = "allows"
  /\ ops' = [ops EXCEPT ![o].state = s, ![o].lease = LeaseTime]
  /\ UNCHANGED <<sync, cursor, polls, grants, targetVars, evidence>>

\* A failure is always accepted; a success needs the verifying state, the
\* exact planned release, and the conditions a claim needs.
Complete(g, r) ==
  LET o == g.op IN
  /\ consent # "revoked"
  /\ CurrentClaim(g)
  /\ ops[o].state \in {"applying", "verifying"}
  /\ r = "succeeded" => /\ ops[o].state = "verifying"
                        /\ Eligible(o) /\ SourceCurrent(o)
                        /\ policy = "allows"
  /\ IsTargetFence(g.fence)
  /\ ops' = [ops EXCEPT ![o] = Closed(@, r)]
  /\ evidence' = IF r = "succeeded" THEN ops[o].to ELSE evidence
  /\ UNCHANGED <<sync, cursor, polls, grants, targetVars>>

---------------------------------------------------------------------------
(* The other users of the target.                                          *)

\* Faulty: does not ask for the companions' fence.
SyncAcquireOwnFence ==
  /\ ~SyncLive
  /\ \A o \in Ops : ~Live(o)
  /\ sync.fence < MaxSyncFence
  /\ sync' = [active |-> TRUE, fence |-> sync.fence + 1, lease |-> LeaseTime]
  /\ UNCHANGED <<ops, cursor, polls, grants, targetVars, evidence>>

\* acquireLease, claimApply and claimRecovery of the sync store.
SyncAcquire ==
  /\ ~SyncLive
  /\ \A o \in Ops : ~Live(o)
  /\ \E f \in 0 .. MaxSyncFence - 1 :
       /\ IsTargetFence(f)
       /\ sync' = [active |-> TRUE, fence |-> f + 1, lease |-> LeaseTime]
  /\ UNCHANGED <<ops, cursor, polls, grants, targetVars, evidence>>

SyncRelease ==
  /\ sync.active
  /\ sync' = [sync EXCEPT !.active = FALSE, !.lease = 0]
  /\ UNCHANGED <<ops, cursor, polls, grants, targetVars, evidence>>

\* Faulty: runs below zero.
ElapsedUnbounded(lease) == lease - 1

\* One tick of the clock that every unexpired lease is measured against.
Elapsed(lease) == IF lease > 0 THEN lease - 1 ELSE 0

Tick ==
  /\ sync.lease > 0 \/ \E o \in Ops : ops[o].lease > 0
  /\ ops' = [o \in Ops |-> [ops[o] EXCEPT !.lease = Elapsed(@)]]
  /\ sync' = [sync EXCEPT !.lease = Elapsed(@)]
  /\ UNCHANGED <<cursor, polls, grants, targetVars, evidence>>

\* setConsent and revokeTarget; a revoked target accepts neither again.
SetConsent(c) ==
  /\ consent # "revoked"
  /\ consent' = c
  /\ UNCHANGED <<ops, sync, cursor, polls, grants, generation, policy, evidence>>

SetPolicy(p) ==
  /\ policy' = p
  /\ UNCHANGED <<ops, sync, cursor, polls, grants, generation, consent, evidence>>

\* An observation captured after the newest receipt.  An older one never
\* becomes the evidence, so it changes nothing the transactions read.
Observe(v) ==
  /\ consent = "granted"
  /\ evidence' = v
  /\ UNCHANGED <<ops, sync, cursor, polls, grants, targetVars>>

\* An operator moves the target to a new generation; receipts and observations
\* of the old one no longer count.
AdvanceGeneration ==
  /\ generation < MaxGeneration
  /\ generation' = generation + 1
  /\ evidence' = 0
  /\ UNCHANGED <<ops, sync, cursor, polls, grants, consent, policy>>

---------------------------------------------------------------------------
PollStep(h) == \E g \in Generations : Poll(h, g)

ClaimStep(h) ==
  \E o \in Ops : \/ SkipCandidate(h, o) \/ ClaimExpires(h, o)
                 \/ ClaimPassesOver(h, o) \/ ClaimThrows(h, o)
                 \/ ClaimGranted(h, o)

CompanionReport(g) ==
  \/ \E s \in {"applying", "verifying"} : Advance(g, s)
  \/ \E r \in {"succeeded", "failed"} : Complete(g, r)

SyncStep == SyncAcquire \/ SyncRelease

TargetStep ==
  \/ \E c \in Consents : SetConsent(c)
  \/ \E p \in Policies : SetPolicy(p)
  \/ \E v \in Versions \cup {0} : Observe(v)
  \/ AdvanceGeneration

Next ==
  \/ \E o \in Ops, to \in Versions : Schedule(o, to)
  \/ \E o \in Ops : Cancel(o)
  \/ \E h \in Holders : PollStep(h) \/ ClaimStep(h) \/ PollDies(h)
  \/ \E g \in grants : CompanionReport(g)
  \/ SyncStep
  \/ Tick
  \/ TargetStep

Spec == Init /\ [][Next]_vars

---------------------------------------------------------------------------
(* Safety.                                                                 *)

\* At most one executor holds the target at any time, over both the companion
\* queue and the sync leases (claim and companionFence: "busy").
OneExecutor ==
  /\ \A o, p \in Ops : Live(o) /\ Live(p) => o = p
  /\ \A o \in Ops : ~(Live(o) /\ SyncLive)

\* Whoever holds the target holds the highest fence ever given out, so a
\* comparison with the target fence can never refuse the rightful holder and
\* never admits an earlier one (advance and complete: targetFence).
HolderHasTopFence ==
  /\ \A o \in Ops : Live(o) => IsTargetFence(ops[o].fence)
  /\ SyncLive => IsTargetFence(sync.fence)

\* No two claims were ever given the same fence, and the sync lease's fence is
\* not one a companion was given.
FencesUnique ==
  /\ \A g, k \in grants : g.fence = k.fence => g = k
  /\ \A g \in grants : g.fence # sync.fence

\* A row is claimed exactly while its holder columns are set, and its claim is
\* one the holder was really given (claim_pair and claim_state constraints).
ClaimColumns ==
  \A o \in Ops :
    /\ ops[o].state \in ActiveStates <=> ops[o].holder # NoHolder
    /\ ops[o].state \in ActiveStates =>
         [op |-> o, holder |-> ops[o].holder, token |-> ops[o].token,
          fence |-> ops[o].fence] \in grants

\* Row o was moved on, or its lease extended, by a companion.
Reported(o) ==
  /\ ops[o].state \in ActiveStates /\ ops'[o].state # "expired"
  /\ ops'[o].state # ops[o].state \/ ops'[o].lease > ops[o].lease

StaleWorkerFencedStep ==
  \A o \in Ops : Reported(o) =>
     ~Busy(o) /\ (Live(o) \/ ops'[o].fence > ops[o].fence)

\* A claimed row is moved on only while nobody else holds the target, and
\* either by the holder of its unexpired claim or by a new claim under a higher
\* fence: a stale worker can neither advance nor complete its operation.
StaleWorkerFenced == [][StaleWorkerFencedStep]_vars

SuccessIsSoundStep ==
  \A o \in Ops : ops[o].state # "succeeded" /\ ops'[o].state = "succeeded" =>
     /\ consent = "granted" /\ policy = "allows"
     /\ ops[o].gen = generation
     /\ ops[o].state = "verifying"
     /\ evidence \in {ops[o].from, ops[o].to}

\* An operation succeeds only while the owner consents, on the generation it
\* was planned for, from the verifying state, and with evidence that shows the
\* version the plan started from or the one it installs: whatever happened to
\* the target between the claim and the receipt, nothing else is recorded.
SuccessIsSound == [][SuccessIsSoundStep]_vars

SettledIsFinalStep ==
  \A o \in Ops : ops[o].state \in TerminalStates => ops'[o] = ops[o]

\* A settled operation never changes again, although reports of old claims and
\* candidates of a page listed long before keep arriving for it.
SettledIsFinal == [][SettledIsFinalStep]_vars

RevokedIsFrozenStep ==
  consent = "revoked" => \A o \in Ops : ops'[o].state = ops[o].state

\* Once a target is revoked no operation on it ever changes state again.
RevokedIsFrozen == [][RevokedIsFrozenStep]_vars

---------------------------------------------------------------------------
(* What the target promises: TargetTickets.                                *)

\* The sync run is party 0 (operations are numbered from 1), nobody is -1.
HeldBy ==
  IF SyncLive THEN 0
  ELSE IF \E o \in Ops : Live(o) THEN CHOOSE o \in Ops : Live(o) ELSE -1

TopFence == CHOOSE f \in {sync.fence} \cup {ops[o].fence : o \in Ops} : IsTargetFence(f)

Tickets == INSTANCE TargetTickets
             WITH Parties <- Ops \cup {0}, Nobody <- -1, holder <- HeldBy, ticket <- TopFence

\* Claims, reports, lapses, expiry and sync leases, over two tables and any
\* number of requests, are together one mutual exclusion with growing tickets:
\* the target never passes from one holder to the next without being free in
\* between, and each holder's fence is one above the last one given out (claim,
\* companionFence and targetFence).
ImplementsTickets == Tickets!Spec

---------------------------------------------------------------------------
(* Liveness.                                                               *)

\* Companions are polled on a schedule, requests finish, time passes, and a
\* companion that reported progress ends with a receipt.  A host's polls for the
\* current generation come whether or not it also polls for an older one.
Fairness ==
  /\ \A h \in Holders : /\ SF_vars(Poll(h, generation))
                        /\ WF_vars(ClaimStep(h))
  /\ WF_vars(Tick)
  /\ \A o \in Ops : WF_vars(\E g \in grants : g.op = o /\ Complete(g, "failed"))

FairSpec == Spec /\ Fairness

\* A queued operation does not wait forever behind others: it is claimed or
\* settled, unless the fences run out.  A test of the store says so of a stale
\* source: it expires "instead of poisoning the next candidate".
QueueMoves ==
  \A o \in Ops : ops[o].state = "queued" ~> ops[o].state # "queued" \/ FenceExhausted

\* Row p was claimed, its lease lapsed, and its source changed meanwhile: every
\* attempt to claim it throws, and it can neither expire nor be cancelled.
Poisoned(p) == Lapsed(p) /\ ~SourceCurrent(p)

Queued(o) == ops[o].state = "queued"
Passed(o) == ~Queued(o) \/ FenceExhausted \/ \E p \in Ops : Poisoned(p)

\* Nothing else holds a queued operation back for ever: the cursor passes over
\* rows that stay claimed or are retried again and again, wraps around, and
\* stale plans expire on the way.
QueueMovesUnlessPoisoned == \A o \in Ops : Queued(o) ~> Passed(o)
===========================================================================
