------------------------------- MODULE MCSync --------------------------------
(***************************************************************************)
(* Architecture sync on one target: one run with every operation and       *)
(* denial on a plan of two steps, with duplicates of apply or of rollback; *)
(* or two runs of one step each that compete for the target; or the        *)
(* companion queue of a target and its upgrades from version to version;   *)
(* or companions at work on the root of such a target. part, chosen at the *)
(* start, says which. Each protocol comes with the module of its proofs,   *)
(* which extends it, so that SyncProofs can cite what is proved there.     *)
(***************************************************************************)
EXTENDS Naturals, TLC

CONSTANTS Calls, MaxFence

\* Fences are counted, and no call and no companion is the "nobody" of a free lock.
ASSUME SyncAssumption == MaxFence \in Nat /\ "nobody" \notin Calls

VARIABLES
  part,   \* the protocol that moves
  s1, s2, s3, s4, s5, s6, s7, s8, s9, s10, s11   \* its variables, in their order there

vars == <<part, s1, s2, s3, s4, s5, s6, s7, s8, s9, s10, s11>>

OneBudget == <<[approve |-> 1, apply |-> 2, recover |-> 1, rollback |-> 1]>>
BackBudget == <<[approve |-> 1, apply |-> 1, recover |-> 1, rollback |-> 2]>>
TwoBudgets ==
  <<[approve |-> 1, apply |-> 1, recover |-> 1, rollback |-> 0],
    [approve |-> 0, apply |-> 1, recover |-> 0, rollback |-> 0]>>

Symmetry == Permutations(Calls)

One == INSTANCE SyncJournalProofs WITH
  row <- s1, lapsed <- s2, lease <- s3, target <- s4, calls <- s5, left <- s6,
  StepsOf <- <<2>>, Budget <- OneBudget, Denials <- {"gate", "target"},
  Preapproved <- {}, Lapsing <- {1}

Back == INSTANCE SyncJournalProofs WITH
  row <- s1, lapsed <- s2, lease <- s3, target <- s4, calls <- s5, left <- s6,
  StepsOf <- <<2>>, Budget <- BackBudget, Denials <- {"target"}, Preapproved <- {},
  Lapsing <- {1}

Two == INSTANCE SyncJournalProofs WITH
  row <- s1, lapsed <- s2, lease <- s3, target <- s4, calls <- s5, left <- s6,
  StepsOf <- <<1, 1>>, Budget <- TwoBudgets, Denials <- {}, Preapproved <- {2},
  Lapsing <- {}

Queue == INSTANCE TargetOperationsProofs WITH
  ops <- s1, sync <- s2, cursor <- s3, polls <- s4, grants <- s5, generation <- s6,
  consent <- s7, policy <- s8, evidence <- s9, Ops <- {1, 2}, Holders <- Calls,
  NoHolder <- "nobody", MaxFence <- 2, MaxVersion <- 2, MaxGeneration <- 1,
  LeaseTime <- 1, PageLimit <- 2, MaxSyncFence <- 0, Consents <- {}, Policies <- {},
  PollsMayDie <- FALSE

Work == INSTANCE CompanionProofs WITH
  now <- s1, op <- s2, withdrawn <- s3, calls <- s4, lock <- s5, disk <- s6, cli <- s7,
  checked <- s8, seen <- s9, stops <- s10, edits <- s11, Companions <- Calls,
  NoCompanion <- "nobody", LeaseTime <- 2, MaxTime <- 3, MaxClaims <- 2, MaxStops <- 1,
  MaxEdits <- 1

Init ==
  \/ part = "one" /\ One!Init
      /\ s7 = 0 /\ s8 = 0 /\ s9 = 0 /\ s10 = 0 /\ s11 = 0
  \/ part = "back" /\ Back!Init
      /\ s7 = 0 /\ s8 = 0 /\ s9 = 0 /\ s10 = 0 /\ s11 = 0
  \/ part = "two" /\ Two!Init
      /\ s7 = 0 /\ s8 = 0 /\ s9 = 0 /\ s10 = 0 /\ s11 = 0
  \/ part = "queue" /\ Queue!Init
      /\ s10 = 0 /\ s11 = 0
  \/ part = "companion" /\ Work!Init

OneRun == part = "one" /\ One!Next /\ UNCHANGED <<part, s7, s8, s9, s10, s11>>
Rollbacks == part = "back" /\ Back!Next /\ UNCHANGED <<part, s7, s8, s9, s10, s11>>
TwoRuns == part = "two" /\ Two!Next /\ UNCHANGED <<part, s7, s8, s9, s10, s11>>
Queueing == part = "queue" /\ Queue!Next /\ UNCHANGED <<part, s10, s11>>
Working == part = "companion" /\ Work!Next /\ UNCHANGED part

Next ==
  \/ OneRun \/ Rollbacks \/ TwoRuns \/ Queueing \/ Working

Spec == Init /\ [][Next]_vars

\* The variables keep their types.
TypesOK == /\ part = "one" => One!TypeOK
           /\ part = "back" => Back!TypeOK
           /\ part = "two" => Two!TypeOK
           /\ part = "queue" => Queue!TypeOK
           /\ part = "companion" => Work!TypeOK

\* A run succeeds only when each of its steps is on the target and the journal
\* says who has seen it there; and an operation only when its last companion has
\* read the planned release back.
SuccessIsEvidenced == /\ part = "one" => One!SuccessIsEvidenced
                      /\ part = "back" => Back!SuccessIsEvidenced
                      /\ part = "two" => Two!SuccessIsEvidenced
                      /\ part = "companion" => Work!SuccessIsReadBack

\* Under one lease the executor gets a step at most once, however often and how
\* close together apply is delivered.
AppliedOncePerLease == /\ part = "one" => One!AppliedOncePerLease
                       /\ part = "back" => Back!AppliedOncePerLease
                       /\ part = "two" => Two!AppliedOncePerLease

\* A run or an operation that is over stays as it is.
SettledRunsStaySettled ==
  [][/\ part = "one" => One!SettledRunsStaySettledStep
     /\ part = "back" => Back!SettledRunsStaySettledStep
     /\ part = "two" => Two!SettledRunsStaySettledStep
     /\ part = "queue" => Queue!SettledIsFinalStep]_vars

\* The evidence of writes enters the journals of both runs in the order of their
\* fences, and a call that was slow while its run went on under a later lease
\* changes nothing of the run; nor does a companion with an old fence change an
\* operation of the queue, whose successes rest on the evidence of the moment, or
\* moves a tree on the disk; and the renewals of the newest claim keep their order.
FencesOrderTheWork ==
  [][/\ part = "one" =>
          /\ One!WritesFollowTheFenceStep
          /\ One!OvertakenCallsAreFencedStep
     /\ part = "back" =>
          /\ Back!WritesFollowTheFenceStep
          /\ Back!OvertakenCallsAreFencedStep
     /\ part = "two" =>
          /\ Two!WritesFollowTheFenceStep
          /\ Two!OvertakenCallsAreFencedStep
     /\ part = "queue" =>
          /\ Queue!StaleWorkerFencedStep
          /\ Queue!SuccessIsSoundStep
     /\ part = "companion" =>
          /\ Work!MovesUnderNewestClaimStep
          /\ Work!RenewalsAreOrderedStep]_vars

==============================================================================
