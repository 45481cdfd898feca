------------------------------ MODULE SyncProofs ------------------------------
(***************************************************************************)
(* What holds of the protocols that MCSync runs on a target, for any set   *)
(* of calls and companions and any number of fences: the invariants of the *)
(* journal, of the queue and of the companion are those of their modules,  *)
(* and at every moment that of the protocol that moves holds.              *)
(***************************************************************************)
EXTENDS MCSync, TLAPS

---------------------------------------------------------------------------
(* The assumptions of the modules, for the constants they get here.        *)

\* The journal of one run with the duplicates of apply,
LEMMA OneFits == One!JournalAssumption
  BY SyncAssumption DEF One!JournalAssumption, One!Runs, One!Operations, OneBudget

\* of rollback,
LEMMA BackFits == Back!JournalAssumption
  BY SyncAssumption DEF Back!JournalAssumption, Back!Runs, Back!Operations, BackBudget

\* and of two runs.
LEMMA TwoFits == Two!JournalAssumption
  BY SyncAssumption DEF Two!JournalAssumption, Two!Runs, Two!Operations, TwoBudgets

\* The companions.
LEMMA WorkFits == Work!CompanionAssumption
  BY SyncAssumption DEF Work!CompanionAssumption

---------------------------------------------------------------------------
(* The invariant.                                                          *)

\* The invariant of the queue, with the columns of its rows.
QueueInv == Queue!IInv /\ Queue!ColumnsInv

\* The protocol that moves is one of the five and in its invariant.
IInv ==
  /\ part \in {"one", "back", "two", "queue", "companion"}
  /\ part = "one" => One!IInv
  /\ part = "back" => Back!IInv
  /\ part = "two" => Two!IInv
  /\ part = "queue" => QueueInv
  /\ part = "companion" => Work!IInv

\* Each protocol starts in its invariant.
LEMMA StartsSound == Init => IInv
<1> SUFFICES ASSUME Init PROVE IInv
  OBVIOUS
<1>1. CASE part = "one" /\ One!Init
  <2>1. One!IInv
    BY <1>1, OneFits, One!StartsSound
  <2> QED
    BY <1>1, <2>1 DEF IInv
<1>2. CASE part = "back" /\ Back!Init
  <2>1. Back!IInv
    BY <1>2, BackFits, Back!StartsSound
  <2> QED
    BY <1>2, <2>1 DEF IInv
<1>3. CASE part = "two" /\ Two!Init
  <2>1. Two!IInv
    BY <1>3, TwoFits, Two!StartsSound
  <2> QED
    BY <1>3, <2>1 DEF IInv
<1>4. CASE part = "queue" /\ Queue!Init
  <2>1. Queue!IInv
    BY <1>4, SyncAssumption, Queue!InitIInv, Queue!OpsAssumption, Queue!HolderAssumption,
       Queue!BoundsAssumption, Queue!EnvironmentAssumption
  <2>2. Queue!ColumnsInv
    BY <1>4, SyncAssumption, Queue!InitColumns, Queue!OpsAssumption, Queue!HolderAssumption,
       Queue!BoundsAssumption, Queue!EnvironmentAssumption
  <2> QED
    BY <1>4, <2>1, <2>2 DEF IInv, QueueInv
<1>5. CASE part = "companion" /\ Work!Init
  <2>1. Work!IInv
    BY <1>5, WorkFits, Work!StartsSound
  <2> QED
    BY <1>5, <2>1 DEF IInv
<1> QED
  BY <1>1, <1>2, <1>3, <1>4, <1>5 DEF Init

---------------------------------------------------------------------------
(* The steps.  Only the protocol that moves takes one, and it is a step of  *)
(* its module.                                                             *)

\* The journal of one run with the duplicates of apply keeps its invariant and its order.
LEMMA OneKeeps ==
  ASSUME IInv, [Next]_vars, part = "one"
  PROVE  part' = "one" /\ One!IInv' /\ One!Orderly
<1>1. part' = "one" /\ [One!Next]_One!vars
  BY DEF Next, OneRun, Rollbacks, TwoRuns, Queueing, Working, vars, One!vars
<1>2. One!Sound
  BY OneFits DEF IInv, One!Sound
<1>3. One!IInv' /\ One!Orderly
  BY <1>1, <1>2, One!NextKeeps
<1> QED
  BY <1>1, <1>3

\* So does that with the duplicates of rollback,
LEMMA BackKeeps ==
  ASSUME IInv, [Next]_vars, part = "back"
  PROVE  part' = "back" /\ Back!IInv' /\ Back!Orderly
<1>1. part' = "back" /\ [Back!Next]_Back!vars
  BY DEF Next, OneRun, Rollbacks, TwoRuns, Queueing, Working, vars, Back!vars
<1>2. Back!Sound
  BY BackFits DEF IInv, Back!Sound
<1>3. Back!IInv' /\ Back!Orderly
  BY <1>1, <1>2, Back!NextKeeps
<1> QED
  BY <1>1, <1>3

\* and so does that of two runs.
LEMMA TwoKeeps ==
  ASSUME IInv, [Next]_vars, part = "two"
  PROVE  part' = "two" /\ Two!IInv' /\ Two!Orderly
<1>1. part' = "two" /\ [Two!Next]_Two!vars
  BY DEF Next, OneRun, Rollbacks, TwoRuns, Queueing, Working, vars, Two!vars
<1>2. Two!Sound
  BY TwoFits DEF IInv, Two!Sound
<1>3. Two!IInv' /\ Two!Orderly
  BY <1>1, <1>2, Two!NextKeeps
<1> QED
  BY <1>1, <1>3

\* The queue keeps its invariant, fences its stale workers, leaves what is settled alone
\* and records what is allowed.
LEMMA QueueKeeps ==
  ASSUME IInv, [Next]_vars, part = "queue"
  PROVE  /\ part' = "queue" /\ QueueInv'
         /\ Queue!SettledIsFinalStep /\ Queue!StaleWorkerFencedStep /\ Queue!SuccessIsSoundStep
<1>1. part' = "queue" /\ [Queue!Next]_Queue!vars
  BY DEF Next, OneRun, Rollbacks, TwoRuns, Queueing, Working, vars, Queue!vars
<1>2. Queue!IInv /\ Queue!ColumnsInv
  BY DEF IInv, QueueInv
<1>3. Queue!IInv'
  BY <1>1, <1>2, Queue!NextIInv, SyncAssumption, Queue!OpsAssumption, Queue!HolderAssumption,
     Queue!BoundsAssumption, Queue!EnvironmentAssumption
<1>4. Queue!ColumnsInv'
  BY <1>1, <1>2, Queue!NextColumns, SyncAssumption, Queue!OpsAssumption, Queue!HolderAssumption,
     Queue!BoundsAssumption, Queue!EnvironmentAssumption
<1>5. Queue!SettledIsFinalStep
  BY <1>1, <1>2, Queue!SettledStays, SyncAssumption, Queue!OpsAssumption, Queue!HolderAssumption,
     Queue!BoundsAssumption, Queue!EnvironmentAssumption
<1>6. Queue!StaleWorkerFencedStep
  BY <1>1, <1>2, Queue!ReportsAreFenced, SyncAssumption, Queue!OpsAssumption, Queue!HolderAssumption,
     Queue!BoundsAssumption, Queue!EnvironmentAssumption
     DEF Queue!StaleWorkerFencedStep
<1>7. Queue!SuccessIsSoundStep
  BY <1>1, <1>2, Queue!SuccessIsAllowed, SyncAssumption, Queue!OpsAssumption, Queue!HolderAssumption,
     Queue!BoundsAssumption, Queue!EnvironmentAssumption
<1> QED
  BY <1>1, <1>3, <1>4, <1>5, <1>6, <1>7 DEF QueueInv

\* The companions keep theirs, move under the newest claim and renew in order.
LEMMA WorkKeeps ==
  ASSUME IInv, [Next]_vars, part = "companion"
  PROVE  /\ part' = "companion" /\ Work!IInv'
         /\ Work!MovesUnderNewestClaimStep /\ Work!RenewalsAreOrderedStep
<1>1. part' = "companion" /\ [Work!Next]_Work!vars
  BY DEF Next, OneRun, Rollbacks, TwoRuns, Queueing, Working, vars, Work!vars
<1>2. Work!Sound
  BY WorkFits DEF IInv, Work!Sound
<1>3. Work!IInv' /\ Work!MovesUnderNewestClaimStep /\ Work!RenewalsAreOrderedStep
  BY <1>1, <1>2, Work!NextKeeps
<1> QED
  BY <1>1, <1>3

\* A step of any of them, or none, keeps the invariant.
LEMMA NextKeeps == IInv /\ [Next]_vars => IInv'
<1> SUFFICES ASSUME IInv, [Next]_vars PROVE IInv'
  OBVIOUS
<1>1. CASE part = "one"
  <2>1. part' = "one" /\ One!IInv'
    BY <1>1, OneKeeps
  <2> QED
    BY <2>1 DEF IInv
<1>2. CASE part = "back"
  <2>1. part' = "back" /\ Back!IInv'
    BY <1>2, BackKeeps
  <2> QED
    BY <2>1 DEF IInv
<1>3. CASE part = "two"
  <2>1. part' = "two" /\ Two!IInv'
    BY <1>3, TwoKeeps
  <2> QED
    BY <2>1 DEF IInv
<1>4. CASE part = "queue"
  <2>1. part' = "queue" /\ QueueInv'
    BY <1>4, QueueKeeps
  <2> QED
    BY <2>1 DEF IInv
<1>5. CASE part = "companion"
  <2>1. part' = "companion" /\ Work!IInv'
    BY <1>5, WorkKeeps
  <2> QED
    BY <2>1 DEF IInv
<1> QED
  BY <1>1, <1>2, <1>3, <1>4, <1>5 DEF IInv

\* The invariant holds of every protocol, whatever is doubled, lost or dies.
LEMMA InvariantHolds == Spec => []IInv
  BY StartsSound, NextKeeps, PTL DEF Spec

---------------------------------------------------------------------------
(* The properties.                                                         *)

\* Rows, leases, claims and queues keep their types: no fence comes back, and no call
\* has seen receipts that are not there.
THEOREM SyncTypes == Spec => []TypesOK
<1>1. IInv => TypesOK
  <2> SUFFICES ASSUME IInv PROVE TypesOK
    OBVIOUS
  <2>1. part = "one" => One!TypeOK
    BY OneFits, One!IInvImplies DEF IInv, One!Sound
  <2>2. part = "back" => Back!TypeOK
    BY BackFits, Back!IInvImplies DEF IInv, Back!Sound
  <2>3. part = "two" => Two!TypeOK
    BY TwoFits, Two!IInvImplies DEF IInv, Two!Sound
  <2>4. part = "queue" => Queue!TypeOK
    BY DEF IInv, QueueInv, Queue!IInv, Queue!TypeInv
  <2>5. part = "companion" => Work!TypeOK
    BY DEF IInv, Work!IInv
  <2> QED
    BY <2>1, <2>2, <2>3, <2>4, <2>5 DEF TypesOK
<1> QED
  BY <1>1, InvariantHolds, PTL

\* A run succeeds only with every step on the target and somebody in its journal who has
\* seen it there (finish, recoverRun); an operation of the queue only after its last
\* companion has read the planned release back (executeTargetOperation).
THEOREM SyncSuccess == Spec => []SuccessIsEvidenced
<1>1. IInv => SuccessIsEvidenced
  <2> SUFFICES ASSUME IInv PROVE SuccessIsEvidenced
    OBVIOUS
  <2>1. part = "one" => One!SuccessIsEvidenced
    BY OneFits, One!IInvImplies DEF IInv, One!Sound
  <2>2. part = "back" => Back!SuccessIsEvidenced
    BY BackFits, Back!IInvImplies DEF IInv, Back!Sound
  <2>3. part = "two" => Two!SuccessIsEvidenced
    BY TwoFits, Two!IInvImplies DEF IInv, Two!Sound
  <2>4. part = "companion" => Work!SuccessIsReadBack
    BY DEF IInv, Work!IInv
  <2> QED
    BY <2>1, <2>2, <2>3, <2>4 DEF SuccessIsEvidenced
<1> QED
  BY <1>1, InvariantHolds, PTL

\* However often apply is delivered, and however close together, the executor gets a step
\* at most once under one lease.
THEOREM SyncAppliesOnce == Spec => []AppliedOncePerLease
<1>1. IInv => AppliedOncePerLease
  <2> SUFFICES ASSUME IInv PROVE AppliedOncePerLease
    OBVIOUS
  <2>1. part = "one" => One!AppliedOncePerLease
    BY OneFits, One!IInvImplies DEF IInv, One!Sound
  <2>2. part = "back" => Back!AppliedOncePerLease
    BY BackFits, Back!IInvImplies DEF IInv, Back!Sound
  <2>3. part = "two" => Two!AppliedOncePerLease
    BY TwoFits, Two!IInvImplies DEF IInv, Two!Sound
  <2> QED
    BY <2>1, <2>2, <2>3 DEF AppliedOncePerLease
<1> QED
  BY <1>1, InvariantHolds, PTL

\* A run or an operation that is over stays as it is, whoever still reports on it.
THEOREM SyncSettles == Spec => SettledRunsStaySettled
<1>1. IInv /\ [Next]_vars =>
        /\ part = "one" => One!SettledRunsStaySettledStep
        /\ part = "back" => Back!SettledRunsStaySettledStep
        /\ part = "two" => Two!SettledRunsStaySettledStep
        /\ part = "queue" => Queue!SettledIsFinalStep
  BY OneKeeps, BackKeeps, TwoKeeps, QueueKeeps DEF One!Orderly, Back!Orderly, Two!Orderly
<1> QED
  BY <1>1, InvariantHolds, PTL DEF Spec, SettledRunsStaySettled

\* Evidence enters the journals in the order of its fences, an overtaken call changes
\* nothing of its run, a stale companion nothing of its operation nor of the disk, and
\* success rests on the evidence of the moment.
THEOREM SyncFollowsTheFences == Spec => FencesOrderTheWork
<1>1. IInv /\ [Next]_vars =>
        /\ part = "one" =>
             One!WritesFollowTheFenceStep /\ One!OvertakenCallsAreFencedStep
        /\ part = "back" =>
             Back!WritesFollowTheFenceStep /\ Back!OvertakenCallsAreFencedStep
        /\ part = "two" =>
             Two!WritesFollowTheFenceStep /\ Two!OvertakenCallsAreFencedStep
        /\ part = "queue" =>
             Queue!StaleWorkerFencedStep /\ Queue!SuccessIsSoundStep
        /\ part = "companion" =>
             Work!MovesUnderNewestClaimStep /\ Work!RenewalsAreOrderedStep
  BY OneKeeps, BackKeeps, TwoKeeps, QueueKeeps, WorkKeeps
     DEF One!Orderly, Back!Orderly, Two!Orderly
<1> QED
  BY <1>1, InvariantHolds, PTL DEF Spec, FencesOrderTheWork

=============================================================================
