---------------------------- MODULE SyncJournal ----------------------------
(***************************************************************************)
(* The journal of architecture sync runs on one target                     *)
(* (apps/api/src/architecture-sync).  A call of the service - approve,     *)
(* apply, recover, rollback - works on a snapshot of the run it read, and  *)
(* each store method is one transaction that checks the snapshot against   *)
(* the row.  Calls overlap, die anywhere, and are delivered again.  One    *)
(* lease row with a growing fencing token gives the target to one run.     *)
(*                                                                         *)
(* One action is one transaction of the Postgres store, or one call of the *)
(* executor; the external gates are asked with the read that follows them. *)
(* A receipt's place in the journal stands for its unique id, so the check *)
(* that receipts are append-only compares lengths.  Timestamps, digests,   *)
(* failure records and audit events are left out; every baseline is        *)
(* restorable.                                                             *)
(*                                                                         *)
(* Operators marked "Faulty" stand for plausible bugs and are not part of  *)
(* the model.                                                              *)
(***************************************************************************)
EXTENDS Integers, SequencesExt

CONSTANTS
  Calls,     \* what the server can serve at a time
  StepsOf,   \* the number of steps of each run's plan
  Budget,    \* bound on the calls of each operation on each run
  MaxFence,  \* the largest fencing token, after which no lease is granted
  Denials,   \* who may deny: "actor", "gate", "target"
  Preapproved,  \* the runs approved before the first call
  Lapsing    \* the runs whose approval expires soon enough to matter

Runs == 1 .. Len(StepsOf)
Operations == {"approve", "apply", "recover", "rollback"}
NoRun == 0

VARIABLES
  row,     \* the persisted runs: state, steps, receipts, the fence last stored
  lapsed,  \* the runs whose approval has passed its expiry time
  lease,   \* the target's lease row; live if active and not expired
  target,  \* the fences under which each step was applied to the target
  calls,   \* the calls being served
  left     \* what is left of Budget

vars == <<row, lapsed, lease, target, calls, left>>

Ready == {"approved", "queued"}
Interrupted == {"lease_acquiring", "revalidating", "preparing", "applying", "verifying"}
Terminal == {"succeeded", "blocked", "rolled_back", "rollback_failed"}
States == {"drafted", "awaiting_approval", "rollback_required", "rolling_back"}
            \cup Ready \cup Interrupted \cup Terminal
StepStates == {"planned", "prepared", "started", "succeeded", "verify_failed", "compensated"}

\* Of the transition tables, what the service can ask for.
RunMoves ==
  ({"approved", "queued", "rollback_required", "rolling_back"} \cup Interrupted) \X {"blocked"}
  \cup {<<"drafted", "awaiting_approval">>, <<"awaiting_approval", "approved">>,
        <<"revalidating", "preparing">>, <<"preparing", "applying">>,
        <<"applying", "verifying">>, <<"verifying", "succeeded">>,
        <<"applying", "rollback_required">>, <<"verifying", "rollback_required">>,
        <<"rollback_required", "rolling_back">>, <<"rollback_required", "rollback_failed">>,
        <<"rolling_back", "rolled_back">>, <<"rolling_back", "rollback_failed">>}

\* With the compensation of a rollback, which only "compensate" asks for.
StepMoves ==
  {<<"planned", "prepared">>, <<"prepared", "started">>, <<"started", "succeeded">>,
   <<"started", "verify_failed">>, <<"succeeded", "compensated">>}

\* Faulty: a run that mutated nothing has failed.
FaultyNextRunState ==
  [noMutation |-> "failed", desiredReadback |-> "succeeded",
   restorablePartialState |-> "rollback_required", ambiguousReadback |-> "blocked",
   irreversibleUnrecoverable |-> "rollback_failed"]

\* decideArchitectureSyncRecovery
NextRunState ==
  [noMutation |-> "queued", desiredReadback |-> "succeeded",
   restorablePartialState |-> "rollback_required", ambiguousReadback |-> "blocked",
   irreversibleUnrecoverable |-> "rollback_failed"]
Conditions == DOMAIN NextRunState

\* The evidence only the holder of the lease may write.
WriteLike == {"apply", "verify", "rollback", "recovery"}
Receipts == [kind : WriteLike \cup {"approval", "run"}, ok : BOOLEAN, step : Nat,
             fence : 0 .. MaxFence, condition : Conditions \cup {"none"}]
Receipt(kind, ok, step, fence) ==
  [kind |-> kind, ok |-> ok, step |-> step, fence |-> fence,
   condition |-> "none"]

Idle == [pc |-> "idle", run |-> NoRun, step |-> 0, claim |-> 0, evidence |-> "none",
         snap |-> [state |-> "none", steps |-> <<>>, seen |-> 0, fence |-> 0]]

\* What stands in the journal under a fence.
Written(r) == {row[r].receipts[i].fence : i \in 1 .. Len(row[r].receipts)}

\* Besides the types: no fence is ahead of the lease row, so none can come
\* back, and no call has seen receipts that are not there.
TypeOK ==
  /\ \A r \in Runs :
       /\ row[r].state \in States
       /\ row[r].steps \in [1 .. StepsOf[r] -> StepStates]
       /\ row[r].receipts \in Seq(Receipts)
       /\ target[r] \in [1 .. StepsOf[r] -> Seq(1 .. MaxFence)]
       /\ \A f \in Written(r) \cup {row[r].fence} : f <= lease.fence
  /\ lapsed \subseteq Lapsing
  /\ lease \in [run : Runs \cup {NoRun}, fence : 0 .. MaxFence, live : BOOLEAN]
  /\ \A c \in Calls : calls[c] # Idle =>
       /\ calls[c].run \in Runs /\ calls[c].claim <= lease.fence
       /\ calls[c].snap.fence <= lease.fence
       /\ calls[c].snap.seen <= Len(row[calls[c].run].receipts)
  /\ left \in [Runs -> [Operations -> Nat]]

Init ==
  /\ row = [r \in Runs |->
       [steps |-> [s \in 1 .. StepsOf[r] |-> "planned"],
        state |-> IF r \in Preapproved THEN "approved" ELSE "drafted",
        receipts |-> IF r \in Preapproved THEN <<Receipt("approval", TRUE, 0, 0)>> ELSE <<>>,
        fence |-> 0]]
  /\ lapsed = {}
  /\ lease = [run |-> NoRun, fence |-> 0, live |-> FALSE]
  /\ target = [r \in Runs |-> [s \in 1 .. StepsOf[r] |-> <<>>]]
  /\ calls = [c \in Calls |-> Idle]
  /\ left = Budget

-----------------------------------------------------------------------------
(* Snapshots, the loops over steps, and the methods of the store.          *)

\* requireHydratedRun: the lease of a run is the lease row, or the one that
\* was stored with the run once another run has got the row.
HydratedFence(r) == IF lease.run = r THEN lease.fence ELSE row[r].fence
Hydrated(r) ==
  [state |-> row[r].state, steps |-> row[r].steps,
   seen |-> Len(row[r].receipts), fence |-> HydratedFence(r)]

At(c, p) == calls[c].pc = p
Snap(c) == calls[c].snap
RunOf(c) == calls[c].run
StepOf(c) == calls[c].step
To(c, p) == [pc |-> p, step |-> StepOf(c)]
Go(c, p) ==
  /\ calls' = [calls EXCEPT ![c].pc = p]
  /\ UNCHANGED <<row, lapsed, lease, target, left>>
End(c) ==
  /\ calls' = [calls EXCEPT ![c] = Idle]
  /\ UNCHANGED <<row, lapsed, lease, target, left>>

\* Faulty: takes a prepared step for one that was executed.
FaultyDone == {"prepared", "succeeded", "compensated"}
Done == {"succeeded", "compensated"}

\* The first step from n on that is not done, or the end of the loop.
Each(steps, n, body, end) ==
  LET todo == {s \in n .. Len(steps) : steps[s] \notin Done} IN
  IF todo = {} THEN [pc |-> end, step |-> 0]
  ELSE [pc |-> body, step |-> CHOOSE s \in todo : \A t \in todo : s <= t]

\* assertReceiptFencing
Fenced(r, fence) == lease.live /\ lease.run = r /\ lease.fence = fence

\* Faulty: any state may follow any other.
FaultyMoves(moves, from, to) == TRUE
Moves(moves, from, to) == from = to \/ <<from, to>> \in moves

\* Faulty: of the snapshot only the states are compared with the row.
FaultyStorable(r, new, written) ==
  LET old == Hydrated(r) IN
  /\ Moves(RunMoves, old.state, new.state)
  /\ \A s \in DOMAIN old.steps : Moves(StepMoves, old.steps[s], new.steps[s])
  /\ \A i \in DOMAIN written : written[i].kind \in WriteLike => Fenced(r, new.fence)

\* What saveRun checks of a snapshot with one more receipt at most.
Storable(r, new, written) ==
  LET old == Hydrated(r) IN
  /\ new.seen = old.seen
  /\ old.fence # 0 /\ new.fence # 0 => new.fence >= old.fence
  /\ Moves(RunMoves, old.state, new.state)
  /\ \A s \in DOMAIN old.steps : Moves(StepMoves, old.steps[s], new.steps[s])
  /\ \A i \in DOMAIN written : written[i].kind \in WriteLike => Fenced(r, new.fence)

\* The whole snapshot replaces the row, and is read back with the lease row.
Store(c, new, written, then) ==
  LET r == RunOf(c) IN
  /\ row' = [row EXCEPT ![r] = [state |-> new.state, steps |-> new.steps,
                                receipts |-> @.receipts \o written, fence |-> new.fence]]
  /\ calls' = [calls EXCEPT ![c] =
                  IF then.pc = "idle" THEN Idle
                  ELSE [@ EXCEPT !.pc = then.pc, !.step = then.step,
                                 !.snap = [new EXCEPT !.seen = @ + Len(written),
                                                      !.fence = IF lease.run = r
                                                                THEN lease.fence ELSE @]]]
  /\ UNCHANGED <<lapsed, lease, target, left>>

\* saveRun: a snapshot that cannot be stored ends the call with an error.
Save(c, new, written, then) ==
  IF Storable(RunOf(c), new, written) THEN Store(c, new, written, then) ELSE End(c)

Journal(c, p, new, q) == At(c, p) /\ Save(c, new, <<>>, To(c, q))
InState(c, state) == [Snap(c) EXCEPT !.state = state]
InStep(c, state) == [Snap(c) EXCEPT !.steps[StepOf(c)] = state]

\* Faulty: the fence counts the leases of a run, not of the target.
FaultyGranted(r) == [run |-> r, fence |-> HydratedFence(r) + 1, live |-> TRUE]

\* buildLease, insertLeaseForRun
Granted(r) == [run |-> r, fence |-> lease.fence + 1, live |-> TRUE]

-----------------------------------------------------------------------------
(* A call begins: it reads the run and has its actor and the gates checked. *)

Start(c, op, r, p) ==
  /\ At(c, "idle") /\ left[r][op] > 0
  /\ left' = [left EXCEPT ![r][op] = @ - 1]
  /\ calls' = [calls EXCEPT ![c] = [Idle EXCEPT !.pc = p, !.run = r, !.snap = Hydrated(r)]]
  /\ UNCHANGED <<row, lapsed, lease, target>>

StartApprove(c, r) ==
  \/ row[r].state = "drafted" /\ Start(c, "approve", r, "await")
  \/ row[r].state = "awaiting_approval" /\ Start(c, "approve", r, "accept")

Approved(r) == row[r].state \notin {"drafted", "awaiting_approval"}

\* A run that is over is finalized again; others need a fitting approval.
StartApply(c, r) ==
  \/ /\ row[r].state \in {"succeeded", "rolled_back", "blocked"}
     /\ Start(c, "apply", r, "finalize")
  \/ /\ Approved(r) /\ row[r].state \notin {"succeeded", "rolled_back", "blocked"}
     /\ "actor" \in Denials \/ r \in lapsed
     /\ Start(c, "apply", r, "block")
  \/ /\ row[r].state \in Ready \cup Interrupted
     /\ r \notin lapsed
     /\ \/ Start(c, "apply", r, "claim")
        \/ "gate" \in Denials /\ Start(c, "apply", r, "block")

\* A run that is not interrupted is answered from its receipts.
StartRecover(c, r) ==
  /\ row[r].state \in Interrupted
  /\ \/ Start(c, "recover", r, "evidence")
     \/ Denials \cap {"actor", "gate"} # {} /\ Start(c, "recover", r, "block")

StartRollback(c, r) ==
  \/ /\ row[r].state \in {"rolled_back", "rollback_failed"}
     /\ Start(c, "rollback", r, "finalize")
  \/ /\ row[r].state \in {"rollback_required", "rolling_back"}
     /\ \/ Start(c, "rollback", r, "ensure")
        \/ Denials \cap {"actor", "gate"} # {} /\ Start(c, "rollback", r, "block")

-----------------------------------------------------------------------------
(* approve                                                                  *)

AwaitApproval(c) == Journal(c, "await", InState(c, "awaiting_approval"), "accept")
Accept(c) ==
  /\ At(c, "accept")
  /\ Save(c, InState(c, "approved"), <<Receipt("approval", TRUE, 0, 0)>>, To(c, "idle"))

-----------------------------------------------------------------------------
(* Checks of the lease: assertLease, and enforceBoundary with the gates.    *)

Leased(c) == Snap(c).fence # 0 /\ Fenced(RunOf(c), Snap(c).fence)

AfterAssert == [fence |-> "execute", rolling |-> "restore", restored |-> "compensate"]

AssertLease(c) ==
  /\ calls[c].pc \in DOMAIN AfterAssert
  /\ Go(c, IF Leased(c) THEN AfterAssert[calls[c].pc] ELSE "block")

AfterBoundary(c) ==
  [enter |-> "prepare",
   beforeStep |-> IF StepOf(c) # 0 /\ Snap(c).steps[StepOf(c)] = "planned"
                  THEN "prepareStep" ELSE "fence",
   beforeVerify |-> "verify",
   beforeRollback |-> IF Snap(c).state = "rolling_back" THEN "rolling" ELSE "roll"]

EnforceBoundary(c) ==
  /\ calls[c].pc \in DOMAIN AfterBoundary(c)
  /\ \/ Go(c, IF Leased(c) THEN AfterBoundary(c)[calls[c].pc] ELSE "block")
     \/ "gate" \in Denials /\ Go(c, "block")

\* appendReceipt of write-like evidence asserts the lease first.  A lease lost
\* before that blocks the run, one lost after it ends the call, and the store
\* looks at the lease again, so the two transactions are one action.
SaveLeased(c, receipt, then) ==
  \/ (Leased(c) => Save(c, Snap(c), <<receipt>>, then)) /\ (~Leased(c) => End(c))
  \/ ~Leased(c) /\ Go(c, "block")

-----------------------------------------------------------------------------
(* apply: the claim, one transaction on the target, its lease and the run.  *)

\* A run that has ended meanwhile is finalized.
ClaimCompleted(c) ==
  /\ At(c, "claim") /\ row[RunOf(c)].state \in {"succeeded", "rolled_back"}
  /\ calls' = [calls EXCEPT ![c].pc = "finalize", ![c].snap = Hydrated(RunOf(c))]
  /\ UNCHANGED <<row, lapsed, lease, target, left>>

Free == ~lease.live /\ lease.fence < MaxFence
Interruption(r) == row[r].state \in Interrupted /\ (lease.live => lease.run = r)

\* The target is another run's or the companion's, has a new generation or no
\* fence left, or the run has moved on: the call blocks the run it had read.
ClaimRefused(c) ==
  LET r == RunOf(c) IN
  /\ At(c, "claim") /\ row[r].state \notin {"succeeded", "rolled_back"}
  /\ (row[r].state \in Ready /\ Free) \/ Interruption(r) => "target" \in Denials
  /\ Go(c, "block")

\* A duplicate of a running call, or of one that was interrupted.
ClaimInProgress(c) == At(c, "claim") /\ Interruption(RunOf(c)) /\ End(c)

Claim(c, granted) ==
  LET r == RunOf(c) IN
  /\ lease' = granted
  /\ row' = [row EXCEPT ![r].state = "revalidating", ![r].fence = granted.fence]
  /\ calls' = [calls EXCEPT ![c].pc = "enter", ![c].claim = granted.fence,
                            ![c].snap = [Hydrated(r) EXCEPT !.state = "revalidating",
                                                            !.fence = granted.fence]]
  /\ UNCHANGED <<lapsed, target, left>>

\* Faulty: a duplicate goes on under the lease its run has.
FaultyClaimWon(c) ==
  LET r == RunOf(c) IN
  /\ At(c, "claim")
  /\ \/ row[r].state \in Ready /\ Free /\ Claim(c, Granted(r))
     \/ /\ row[r].state = "revalidating" /\ lease.live /\ lease.run = r
        /\ Claim(c, lease)

ClaimWon(c) ==
  LET r == RunOf(c) IN
  At(c, "claim") /\ row[r].state \in Ready /\ Free /\ Claim(c, Granted(r))

-----------------------------------------------------------------------------
(* apply: every step is executed, then every step is verified.              *)

Prepare(c) == Journal(c, "prepare", InState(c, "preparing"), "begin")
BeginSteps(c) ==
  /\ At(c, "begin")
  /\ Save(c, InState(c, "applying"), <<>>, Each(Snap(c).steps, 1, "beforeStep", "verifying"))
PrepareStep(c) == Journal(c, "prepareStep", InStep(c, "prepared"), "fence")

\* executor.apply, under the lease the call has claimed: the executor does
\* not look at it.  A throw, before or after the mutation, ends the call; the
\* run stays interrupted and keeps its lease.
Execute(c) ==
  LET mutated == [target EXCEPT ![RunOf(c)][StepOf(c)] = Append(@, calls[c].claim)] IN
  /\ At(c, "execute")
  /\ \/ target' = mutated /\ calls' = [calls EXCEPT ![c].pc = "start"]
     \/ target' \in {mutated, target} /\ calls' = [calls EXCEPT ![c].pc = "thrown"]
  /\ UNCHANGED <<row, lapsed, lease, left>>

StartStep(c) == Journal(c, "start", InStep(c, "started"), "applied")
ApplyReceipt(c) ==
  /\ At(c, "applied")
  /\ SaveLeased(c, Receipt("apply", TRUE, StepOf(c), Snap(c).fence),
          Each(Snap(c).steps, StepOf(c) + 1, "beforeStep", "verifying"))

BeginVerify(c) ==
  /\ At(c, "verifying")
  /\ Save(c, InState(c, "verifying"), <<>>, Each(Snap(c).steps, 1, "beforeVerify", "succeed"))

\* executor.verify: it accepts only what it reads back, and may throw.
Verify(c) ==
  /\ At(c, "verify")
  /\ \/ target[RunOf(c)][StepOf(c)] # <<>> /\ Go(c, "verify2")
     \/ Go(c, "unverify")
     \/ Go(c, "thrown")

VerifiedStep(c) == Journal(c, "verify2", InStep(c, "succeeded"), "verified")
VerifyReceipt(c) ==
  /\ At(c, "verified")
  /\ SaveLeased(c, Receipt("verify", TRUE, StepOf(c), Snap(c).fence),
          Each(Snap(c).steps, StepOf(c) + 1, "beforeVerify", "succeed"))
Succeed(c) == Journal(c, "succeed", InState(c, "succeeded"), "finalize")

UnverifiedStep(c) == Journal(c, "mismatched", InStep(c, "verify_failed"), "unverified")
UnverifiedReceipt(c) ==
  /\ At(c, "unverified")
  /\ SaveLeased(c, Receipt("verify", FALSE, StepOf(c), Snap(c).fence), To(c, "undo"))
RequireRollback(c) == Journal(c, "undo", InState(c, "rollback_required"), "release")

-----------------------------------------------------------------------------
(* recover: evidence is read, then one transaction decides and records.     *)

\* What a trusted reader may say of the target as it is.
Evidence(r) ==
  LET applied == {s \in DOMAIN target[r] : target[r][s] # <<>>} IN
  {"ambiguousReadback"}
  \cup (IF applied = {} THEN {"noMutation"}
        ELSE {"restorablePartialState", "irreversibleUnrecoverable"})
  \cup (IF applied = DOMAIN target[r] THEN {"desiredReadback"} ELSE {})

ReadEvidence(c) ==
  /\ At(c, "evidence")
  /\ \E e \in Evidence(RunOf(c)) :
       calls' = [calls EXCEPT ![c].pc = "recover", ![c].evidence = e]
  /\ UNCHANGED <<row, lapsed, lease, target, left>>

Recovered(condition, fence) ==
  [Receipt("recovery", TRUE, 0, fence) EXCEPT !.condition = condition,
     !.ok = condition \notin {"ambiguousReadback", "irreversibleUnrecoverable"}]

\* The same evidence may have been recorded before; its digest tells.
Replayable(r, condition) ==
  \E i \in 1 .. Len(row[r].receipts) : row[r].receipts[i].condition = condition

\* Nobody holds the target, and nothing was stored since the snapshot.
Claimable(c) == Snap(c) = Hydrated(RunOf(c)) /\ Free

RecoveredSteps(r, condition) ==
  [s \in DOMAIN row[r].steps |->
     LET state == row[r].steps[s] IN
     CASE condition = "noMutation" /\ state \in {"started", "verify_failed"} -> "prepared"
       [] condition = "desiredReadback" -> "succeeded"
       [] OTHER -> state]

ClaimRecovery(c) ==
  LET r == RunOf(c)
      e == calls[c].evidence
  IN /\ At(c, "recover") /\ Claimable(c)
     /\ lease' = [Granted(r) EXCEPT !.live = FALSE]
     /\ row' = [row EXCEPT ![r] =
          [state |-> NextRunState[e], steps |-> RecoveredSteps(r, e), fence |-> lease.fence + 1,
           receipts |-> Append(@.receipts, Recovered(e, lease.fence + 1))]]
     /\ calls' = [calls EXCEPT ![c] = Idle]
     /\ UNCHANGED <<lapsed, target, left>>

\* The run has changed, the target is taken, or this is a replay.
RecoveryRefused(c) ==
  /\ At(c, "recover")
  /\ Claimable(c) => "target" \in Denials \/ Replayable(RunOf(c), calls[c].evidence)
  /\ End(c)

-----------------------------------------------------------------------------
(* rollback                                                                 *)

\* ensureLease goes on under the run's live lease, or gets a new one.
EnsureLease(c) ==
  /\ At(c, "ensure")
  /\ \/ /\ Leased(c)
        /\ calls' = [calls EXCEPT ![c].pc = "beforeRollback", ![c].claim = Snap(c).fence]
        /\ UNCHANGED <<row, lapsed, lease, target, left>>
     \/ /\ Free
        /\ lease' = Granted(RunOf(c))
        /\ calls' = [calls EXCEPT ![c].pc = "adopt", ![c].claim = lease.fence + 1,
                                  ![c].snap.fence = lease.fence + 1]
        /\ UNCHANGED <<row, lapsed, target, left>>
     \/ ~Leased(c) /\ (Free => "target" \in Denials) /\ End(c)

AdoptLease(c) == Journal(c, "adopt", Snap(c), "beforeRollback")
Roll(c) == Journal(c, "roll", InState(c, "rolling_back"), "rolling")

\* executor.rollback restores the baseline, or fails before or after it did.
Restore(c) ==
  LET restored == [target EXCEPT ![RunOf(c)] = [s \in DOMAIN @ |-> <<>>]] IN
  /\ At(c, "restore")
  /\ \/ target' = restored /\ calls' = [calls EXCEPT ![c].pc = "restored"]
     \/ target' \in {restored, target} /\ calls' = [calls EXCEPT ![c].pc = "unrestored"]
  /\ UNCHANGED <<row, lapsed, lease, left>>

RollbackFailed(c) == Journal(c, "unrestorable", InState(c, "rollback_failed"), "failed")
RollbackFailedReceipt(c) ==
  /\ At(c, "failed")
  /\ Save(c, Snap(c), <<Receipt("rollback", FALSE, 0, Snap(c).fence)>>, To(c, "release"))

Compensate(c) ==
  Journal(c, "compensate",
          [InState(c, "rolled_back") EXCEPT !.steps =
             [s \in DOMAIN @ |-> IF @[s] = "succeeded" THEN "compensated" ELSE @[s]]],
          "compensated")
RollbackReceipt(c) ==
  /\ At(c, "compensated")
  /\ SaveLeased(c, Receipt("rollback", TRUE, 0, Snap(c).fence), To(c, "finalize"))

-----------------------------------------------------------------------------
(* The ends of a call.                                                      *)

\* What finalizeTerminalRun wants in the journal of a run that is over.
TerminalReceipt(state, fence) ==
  Receipt(IF state \in {"succeeded", "blocked"} THEN "run" ELSE "rollback",
          state \in {"succeeded", "rolled_back"}, 0,
          IF state \in {"succeeded", "blocked"} THEN 0 ELSE fence)
HasReceipt(r, n, new) ==
  \E i \in 1 .. n : row[r].receipts[i].kind = new.kind /\ row[r].receipts[i].ok = new.ok

\* A receipt that cannot be stored may be there by now, and the run is read
\* again; the lease is released in any case.
Finalize(c) ==
  LET r == RunOf(c)
      new == TerminalReceipt(Snap(c).state, Snap(c).fence)
      had == HasReceipt(r, Snap(c).seen, new)
      has == HasReceipt(r, Len(row[r].receipts), new)
  IN /\ At(c, "finalize")
     /\ IF ~had /\ Storable(r, Snap(c), <<new>>)
        THEN Store(c, Snap(c), <<new>>, To(c, "release"))
        ELSE /\ calls' = [calls EXCEPT ![c].pc = "release", ![c].snap =
                            IF ~had /\ has THEN Hydrated(r) ELSE @]
             /\ UNCHANGED <<row, lapsed, lease, target, left>>

ReleaseLease(c) ==
  /\ At(c, "release")
  /\ lease' = [lease EXCEPT !.live = @ /\ ~Leased(c)]
  /\ calls' = [calls EXCEPT ![c] = Idle]
  /\ UNCHANGED <<row, lapsed, target, left>>

\* failRun stores the snapshot with the failure before anything else is done
\* about it; after a throw of the executor nothing else is.
Failing ==
  [block |-> "blocking", thrown |-> "idle",
   unverify |-> "mismatched", unrestored |-> "unrestorable"]
FailRun(c) ==
  calls[c].pc \in DOMAIN Failing /\ Save(c, Snap(c), <<>>, To(c, Failing[calls[c].pc]))

\* blockRun: the failure, the state with its receipt, then the lease.
Block(c) ==
  /\ At(c, "blocking")
  /\ Save(c, InState(c, "blocked"), <<Receipt("run", FALSE, 0, 0)>>, To(c, "release"))

-----------------------------------------------------------------------------
(* Time, and the death of a call with the process that serves it.           *)

LeaseExpires ==
  /\ lease.live /\ lease' = [lease EXCEPT !.live = FALSE]
  /\ UNCHANGED <<row, lapsed, target, calls, left>>
\* It matters as long as a call may look.
ApprovalLapses(r) ==
  /\ Approved(r) /\ r \in Lapsing \ lapsed /\ left[r]["apply"] > 0
  /\ lapsed' = lapsed \cup {r}
  /\ UNCHANGED <<row, lease, target, calls, left>>
Die(c) == ~At(c, "idle") /\ End(c)

Starts(c) ==
  \E r \in Runs :
    StartApprove(c, r) \/ StartApply(c, r) \/ StartRecover(c, r) \/ StartRollback(c, r)
Approval(c) == AwaitApproval(c) \/ Accept(c)
Checks(c) == AssertLease(c) \/ EnforceBoundary(c)
Claims(c) == ClaimCompleted(c) \/ ClaimRefused(c) \/ ClaimInProgress(c) \/ ClaimWon(c)
Steps(c) ==
  \/ Prepare(c) \/ BeginSteps(c) \/ PrepareStep(c) \/ Execute(c)
  \/ StartStep(c) \/ ApplyReceipt(c) \/ BeginVerify(c) \/ Verify(c) \/ VerifiedStep(c)
  \/ VerifyReceipt(c) \/ Succeed(c) \/ UnverifiedStep(c)
  \/ UnverifiedReceipt(c) \/ RequireRollback(c)
Recovery(c) == ReadEvidence(c) \/ ClaimRecovery(c) \/ RecoveryRefused(c)
Rollback(c) ==
  \/ EnsureLease(c) \/ AdoptLease(c) \/ Roll(c) \/ Restore(c)
  \/ RollbackFailed(c) \/ RollbackFailedReceipt(c) \/ Compensate(c) \/ RollbackReceipt(c)
Ends(c) == Finalize(c) \/ ReleaseLease(c) \/ FailRun(c) \/ Block(c)

Next ==
  \/ \E c \in Calls :
       \/ Starts(c) \/ Approval(c) \/ Checks(c) \/ Claims(c) \/ Steps(c)
       \/ Recovery(c) \/ Rollback(c) \/ Ends(c) \/ Die(c)
  \/ LeaseExpires
  \/ \E r \in Runs : ApprovalLapses(r)

Spec == Init /\ [][Next]_vars

-----------------------------------------------------------------------------
(* Properties. *)

\* A run succeeds only when each of its steps is on the target and the journal
\* says who has seen it there: a verification under the run's lease, or a
\* recovery that read the desired state back.  Dying calls, duplicates and
\* retries do not let a step through.
SuccessIsEvidenced ==
  \A r \in Runs : row[r].state = "succeeded" =>
    \A s \in 1 .. StepsOf[r] :
      /\ row[r].steps[s] = "succeeded" /\ target[r][s] # <<>>
      /\ \E i \in 1 .. Len(row[r].receipts) :
           LET e == row[r].receipts[i] IN
           \/ e.kind = "verify" /\ e.ok /\ e.step = s
           \/ e.condition = "desiredReadback"

\* Under one lease the executor gets a step at most once: however often and
\* how close together apply is delivered, one call executes.
AppliedOncePerLease ==
  \A r \in Runs : \A s \in 1 .. StepsOf[r] :
    \A i, j \in 1 .. Len(target[r][s]) : target[r][s][i] = target[r][s][j] => i = j

WritesFollowTheFenceStep ==
  \A r \in Runs :
     Len(row'[r].receipts) > Len(row[r].receipts) /\ Last(row'[r].receipts).kind \in WriteLike =>
       \A q \in Runs : \A f \in Written(q) :
         f <= Last(row'[r].receipts).fence /\ (q # r => f < Last(row'[r].receipts).fence)

\* The evidence of writes enters the journals of all the runs of a target in
\* the order of their fences, and no two runs share a fence.
WritesFollowTheFence == [][WritesFollowTheFenceStep]_vars

OvertakenCallsAreFencedStep ==
  \A c \in Calls :
     calls[c].claim # 0 /\ calls'[c] # calls[c] /\ row'[RunOf(c)] # row[RunOf(c)] =>
       \A f \in Written(RunOf(c)) : f <= calls[c].claim

\* A call that was slow while its run was recovered, or rolled back, under a
\* later lease changes nothing of the run any more, even when yet another
\* run has got the lease row by then.
OvertakenCallsAreFenced == [][OvertakenCallsAreFencedStep]_vars

SettledRunsStaySettledStep ==
  \A r \in Runs : row[r].state \in Terminal =>
     /\ row'[r].state = row[r].state /\ row'[r].steps = row[r].steps
     /\ row[r].state \in {"succeeded", "blocked"} => Written(r)' = Written(r)

\* A run that is over stays as it is, steps included, and takes no more
\* evidence of writes once it has succeeded or is blocked, whatever snapshots
\* of it are still on their way.
SettledRunsStaySettled == [][SettledRunsStaySettledStep]_vars

\* While the call that claimed the run's live lease is at work, no call that
\* did not claim it moves the run or the lease: "A duplicate delivery therefore
\* observes in-progress and cannot block or release the winner's lease."
Winner(w) ==
  lease.live /\ calls[w].claim = lease.fence /\ row[RunOf(w)].state \in Interrupted
DuplicatesLeaveTheWinnerStep ==
    \A w, c \in Calls :
       Winner(w) /\ RunOf(c) = RunOf(w) /\ calls[c].claim = 0 /\ calls'[c] # calls[c] =>
         lease' = lease /\ row'[RunOf(w)].state = row[RunOf(w)].state
DuplicatesLeaveTheWinner == [][DuplicatesLeaveTheWinnerStep]_vars

-----------------------------------------------------------------------------
(* Why they hold: an invariant that every step keeps.                      *)

\* Plans, budgets and fences are counted.
JournalAssumption ==
  /\ StepsOf \in Seq(Nat) /\ MaxFence \in Nat
  /\ Budget \in [Runs -> [Operations -> Nat]]

\* A run that is rolled back or blocked does not come back; others are open.
Undone == {"rollback_required", "rolling_back", "rolled_back", "rollback_failed", "blocked"}
Open(r) == row[r].state \notin Undone

\* Every move goes up in these orders, so that a run is changed back by a
\* recovery only, and that leaves a receipt.
Rank ==
  [drafted |-> 0, awaiting_approval |-> 1, approved |-> 2, queued |-> 3, lease_acquiring |-> 4,
   revalidating |-> 5, preparing |-> 6, applying |-> 7, verifying |-> 8, succeeded |-> 9,
   rollback_required |-> 10, rolling_back |-> 11, rolled_back |-> 12, rollback_failed |-> 13,
   blocked |-> 14]
StepRank == [planned |-> 0, prepared |-> 1, started |-> 2, succeeded |-> 3, verify_failed |-> 4,
             compensated |-> 5]

\* How far the steps of a run may be, in a row and in a snapshot.
StepsFit(state, steps) ==
  \A s \in DOMAIN steps :
    /\ steps[s] = "compensated" => state \in Undone
    /\ steps[s] = "succeeded" => state \in (Undone \ {"rolled_back"}) \cup {"verifying", "succeeded"}
    /\ state = "succeeded" => steps[s] = "succeeded"

\* The journal says who has seen a step on the target.
Seen(receipts, s) ==
  \E i \in 1 .. Len(receipts) :
    \/ receipts[i].kind = "verify" /\ receipts[i].ok /\ receipts[i].step = s
    \/ receipts[i].condition = "desiredReadback"

StepMap(r) == [1 .. StepsOf[r] -> StepStates]
RowFits(r, x) ==
  /\ x = [state |-> x.state, steps |-> x.steps, receipts |-> x.receipts, fence |-> x.fence]
  /\ x.state \in States /\ x.steps \in StepMap(r)
  /\ x.receipts \in Seq(Receipts) /\ x.fence \in 0 .. MaxFence
  /\ StepsFit(x.state, x.steps)
  /\ x.state \notin {"drafted", "awaiting_approval"} =>
       \E i \in 1 .. Len(x.receipts) : x.receipts[i].fence = 0
  /\ x.state = "succeeded" => \A s \in 1 .. StepsOf[r] : Seen(x.receipts, s)

SnapFits(r, x) ==
  /\ x = [state |-> x.state, steps |-> x.steps, seen |-> x.seen, fence |-> x.fence]
  /\ x.state \in States /\ x.steps \in StepMap(r) /\ x.seen \in Nat /\ x.fence \in 0 .. MaxFence
  /\ StepsFit(x.state, x.steps)

\* The points of a call by what they need: those of a step, those until the
\* last step is executed, those from the first verification on, and those
\* that lead to the restoration of the baseline.
Executing == {"beforeStep", "prepareStep", "fence", "execute"}
Executed == {"start", "applied"}
Applying == {"enter", "prepare", "begin"} \cup Executing \cup Executed
Verifying == {"beforeVerify", "verify", "verify2", "verified"}
Mismatching == {"unverify", "mismatched", "unverified"}
Restoring == {"ensure", "adopt", "beforeRollback", "roll", "rolling", "restore"}
Points == Applying \cup Verifying \cup Mismatching \cup Restoring
            \cup {"await", "accept", "claim", "evidence", "recover", "verifying", "succeed", "undo",
                  "thrown", "restored", "compensate", "compensated", "unrestored", "unrestorable",
                  "failed", "finalize", "block", "blocking", "release"}

\* What each point of a call has made sure of, whatever others do.
CallFits(m) ==
  /\ m = [pc |-> m.pc, run |-> m.run, step |-> m.step, claim |-> m.claim,
          evidence |-> m.evidence, snap |-> m.snap]
  /\ m.pc \in Points /\ m.run \in Runs /\ m.step \in Nat /\ m.claim \in 0 .. MaxFence
  /\ SnapFits(m.run, m.snap)
  /\ m.pc = "await" => m.snap.state = "drafted"
  /\ m.pc = "accept" => m.snap.state = "awaiting_approval"
  /\ m.pc \in {"enter", "prepare"} => m.snap.state = "revalidating"
  /\ m.pc = "begin" => m.snap.state = "preparing"
  /\ m.pc \in Executing \cup Executed \cup {"verifying"} => m.snap.state = "applying"
  /\ m.pc \in Verifying \cup Mismatching \cup {"succeed", "undo"} => m.snap.state = "verifying"
  /\ m.pc \in {"evidence", "recover"} => m.snap.state \in Interrupted
  /\ m.pc = "compensated" => m.snap.state = "rolled_back"
  /\ m.pc = "failed" => m.snap.state = "rollback_failed"
  /\ m.pc = "recover" => m.evidence \in Conditions
  /\ m.pc \in Executing \cup Executed \cup Verifying \cup Mismatching => m.step \in 1 .. StepsOf[m.run]
  /\ m.pc \in Verifying => \A s \in 1 .. m.step - 1 : m.snap.steps[s] = "succeeded"
  /\ m.pc = "verified" => m.snap.steps[m.step] = "succeeded"
  /\ m.pc = "succeed" => \A s \in 1 .. StepsOf[m.run] : m.snap.steps[s] = "succeeded"
  /\ m.pc \in Applying => m.claim # 0
  /\ m.pc \in {"claim", "evidence", "recover"} => m.claim = 0
  /\ (m.claim # 0 /\ m.pc # "release") => m.snap.fence = m.claim

\* The steps a call has not executed yet.
Unexecuted(m) ==
  CASE m.pc \in {"enter", "prepare", "begin"} -> 1 .. StepsOf[m.run]
    [] m.pc \in Executing -> m.step .. StepsOf[m.run]
    [] m.pc \in Executed -> m.step + 1 .. StepsOf[m.run]
    [] OTHER -> {}

Under(r, s) == {target[r][s][i] : i \in 1 .. Len(target[r][s])}

\* How a call stands to the row of its run, to the lease and to the target: its
\* snapshot is behind the row or is refused, it knows all the fences or its
\* snapshot is refused, and what it relies on stays true while the run is open.
CallAgrees(m) ==
  LET r == m.run
      current == m.snap.seen = Len(row[r].receipts)
      steps == 1 .. StepsOf[r]
  IN /\ m.snap.seen <= Len(row[r].receipts)
     /\ m.claim <= lease.fence /\ m.snap.fence <= lease.fence
     /\ current => /\ Rank[m.snap.state] <= Rank[row[r].state]
                   /\ \A s \in steps : StepRank[m.snap.steps[s]] <= StepRank[row[r].steps[s]]
     /\ (current /\ m.claim # 0 /\ m.pc # "release") => \A f \in Written(r) : f <= m.claim
     /\ m.pc \in Restoring => ~Open(r)
     /\ Open(r) => \A s \in steps : m.snap.steps[s] = "succeeded" => target[r][s] # <<>>
     /\ (Open(r) /\ m.pc = "verify2") => target[r][m.step] # <<>>
     /\ (Open(r) /\ m.pc = "recover") =>
          /\ m.evidence = "noMutation" => \A s \in steps : m.snap.steps[s] # "succeeded"
          /\ m.evidence = "desiredReadback" => \A s \in steps : target[r][s] # <<>>
     /\ m.pc \in Verifying \cup {"succeed"} =>
          \A s \in steps : m.snap.steps[s] = "succeeded" =>
            Seen(row[r].receipts, s) \/ (m.pc = "verified" /\ s = m.step)
     /\ \A s \in Unexecuted(m) : m.claim \notin Under(r, s)

\* The lease has a fence of its own, above those it had for other runs.
LeaseFits ==
  /\ lease \in [run : Runs \cup {NoRun}, fence : 0 .. MaxFence, live : BOOLEAN]
  /\ lease.run # NoRun => lease.fence # 0
  /\ \A q \in Runs : \A f \in Written(q) :
       f <= lease.fence /\ (f = lease.fence /\ f # 0 => q = lease.run)

\* What is on the target was put there under fences until now, and what a run
\* takes for done is there, until it is rolled back.
TargetFits ==
  \A r \in Runs :
    /\ row[r].fence <= lease.fence
    /\ target[r] \in [1 .. StepsOf[r] -> Seq(1 .. MaxFence)]
    /\ \A s \in 1 .. StepsOf[r] :
         /\ \A f \in Under(r, s) : f <= lease.fence
         /\ \A i, j \in 1 .. Len(target[r][s]) : target[r][s][i] = target[r][s][j] => i = j
         /\ (Open(r) /\ row[r].steps[s] = "succeeded") => target[r][s] # <<>>

\* No two calls execute under one fence.
ClaimsDiffer ==
  \A c, d \in Calls :
    (calls[c].pc \in Applying /\ calls[d].pc \in Applying /\ calls[c].claim = calls[d].claim) => c = d

IInv ==
  /\ row = [r \in Runs |-> row[r]] /\ (\A r \in Runs : RowFits(r, row[r]))
  /\ calls = [c \in Calls |-> calls[c]]
  /\ \A c \in Calls : calls[c] # Idle => CallFits(calls[c]) /\ CallAgrees(calls[c])
  /\ target = [r \in Runs |-> target[r]]
  /\ LeaseFits /\ TargetFits /\ ClaimsDiffer
  /\ lapsed \subseteq Lapsing
  /\ left \in [Runs -> [Operations -> Nat]]

=============================================================================
