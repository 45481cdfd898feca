------------------------------ MODULE ScanJobs ------------------------------
(***************************************************************************)
(* The durable queue of package scans                                      *)
(* (apps/api/src/package-quality/scan-service.ts).  Workers claim a job    *)
(* with a lease, read the artifact and scan it outside any transaction,    *)
(* and complete the job in one transaction that also writes the verdict of *)
(* the version.  A lease may run out under a slow or dead worker, and the  *)
(* job is then claimed again.                                              *)
(*                                                                         *)
(* A claim increments the attempts of its job and draws a lease and, from  *)
(* the second one on, a scan run: the attempt stands for all three.        *)
(***************************************************************************)
EXTENDS Naturals

CONSTANTS
  Jobs,         \* one job, of one version, per submission
  Workers,      \* API processes that scan
  MaxAttempts,  \* PACKAGE_SCAN_MAX_ATTEMPTS, 3 in the code
  MaxDeaths     \* deaths of workers in this instance

VARIABLES
  job,      \* rows of jobs
  run,      \* per job and attempt, its row of scan_runs
  version,  \* per job, its version: verdict, decision of the review, artifact
  worker,   \* what each worker is doing
  deaths    \* workers that died so far

vars == <<job, run, version, worker, deaths>>

Attempts == 1 .. MaxAttempts
Runs == {"none", "queued", "running", "failed", "succeeded", "clean"}
Idle == [at |-> "idle"]
Reconciling == [at |-> "reconcile"]
Claim == [at : {"scan"}, j : Jobs, attempt : Attempts]

TypeOK ==
  /\ job \in [Jobs -> [status : {"queued", "running", "failed", "exhausted", "succeeded"},
                       attempts : 0 .. MaxAttempts, due : BOOLEAN, live : BOOLEAN]]
  /\ run \in [Jobs -> [Attempts -> Runs]]
  /\ version \in [Jobs -> [security : {"not-run", "passed", "warning", "failed"},
                           decided : BOOLEAN, intact : BOOLEAN]]
  /\ worker \in [Workers -> {Idle, Reconciling} \cup Claim]
  /\ deaths \in 0 .. MaxDeaths

\* enqueuePackageScan, in the transaction of each submission.
Init ==
  /\ job = [j \in Jobs |-> [status |-> "queued", attempts |-> 0, due |-> TRUE, live |-> FALSE]]
  /\ run = [j \in Jobs |-> [a \in Attempts |-> IF a = 1 THEN "queued" ELSE "none"]]
  /\ version = [j \in Jobs |-> [security |-> "not-run", decided |-> FALSE, intact |-> TRUE]]
  /\ worker = [w \in Workers |-> Idle]
  /\ deaths = 0

---------------------------------------------------------------------------
Claimable(j) ==
  \/ job[j].status = "queued" /\ job[j].due
  \/ job[j].status = "running" /\ ~job[j].live

\* Faulty: leaves the run of the lease that ran out.
Unsettled(j) == [a \in Attempts |-> run[j][a]]

\* The run of a lease that ran out fails.
Settled(j) ==
  [a \in Attempts |-> IF job[j].status = "running" /\ a = job[j].attempts /\ run[j][a] = "running"
                        THEN "failed" ELSE run[j][a]]

\* claimNext: one claimable job.  The batch goes on after a scan.
ClaimNext(w, j) ==
  /\ worker[w] = Idle /\ Claimable(j) /\ job[j].attempts < MaxAttempts
  /\ LET attempt == job[j].attempts + 1 IN
     /\ job' = [job EXCEPT ![j] =
          [status |-> "running", attempts |-> attempt, due |-> FALSE, live |-> TRUE]]
     /\ run' = [run EXCEPT ![j] = [Settled(j) EXCEPT ![attempt] = "running"]]
     /\ worker' = [worker EXCEPT ![w] = [at |-> "scan", j |-> j, attempt |-> attempt]]
  /\ UNCHANGED <<version, deaths>>

\* claimNext on a job that used up its attempts ends the batch.
ClaimExhausted(w, j) ==
  /\ worker[w] = Idle /\ Claimable(j) /\ job[j].attempts = MaxAttempts
  /\ job' = [job EXCEPT ![j].status = "exhausted", ![j].live = FALSE]
  /\ run' = [run EXCEPT ![j] = Settled(j)]
  /\ worker' = [worker EXCEPT ![w] = Reconciling]
  /\ UNCHANGED <<version, deaths>>

\* Faulty: only the batch that exhausts a job reconciles it.
EndBatchOnly(w) == FALSE

\* A batch ends with reconcileExhausted when it finds no job; a batch is longer
\* than this instance has jobs.
EndBatch(w) ==
  /\ worker[w] = Idle /\ \A j \in Jobs : ~Claimable(j)
  /\ \E j \in Jobs :
       job[j].status = "exhausted" /\ version[j].security = "not-run" /\ ~version[j].decided
  /\ worker' = [worker EXCEPT ![w] = Reconciling]
  /\ UNCHANGED <<job, run, version, deaths>>

ReconcileExhausted(w) ==
  /\ worker[w] = Reconciling
  /\ version' = [j \in Jobs |->
       IF job[j].status = "exhausted" /\ version[j].security = "not-run" /\ ~version[j].decided
         THEN [version[j] EXCEPT !.security = "failed"] ELSE version[j]]
  /\ worker' = [worker EXCEPT ![w] = Idle]
  /\ UNCHANGED <<job, run, deaths>>

---------------------------------------------------------------------------
\* What the scan outside the transaction may come to.
Outcomes == {"clean", "warning", "blocking", "unavailable", "error", "invalid"}

\* The transaction overrides it for a version that was decided about meanwhile
\* and for an artifact that is not the claimed one.
Failure(j, outcome) ==
  IF ~version[j].intact THEN "integrity"
  ELSE IF version[j].decided THEN "inactive" ELSE outcome

Failed(outcome) == outcome \notin {"clean", "warning", "blocking"}
Retried(outcome, attempt) == outcome \in {"unavailable", "error"} /\ attempt < MaxAttempts

Verdict(outcome, attempt) ==
  IF Retried(outcome, attempt) THEN "not-run"
  ELSE IF outcome = "clean" THEN "passed"
  ELSE IF outcome = "warning" THEN "warning" ELSE "failed"

\* Faulty: a worker that is done with its scan completes the job.
AnyLease(c) == TRUE

\* The job still runs under this lease and this scan run.
HoldsLease(c) ==
  job[c.j].status = "running" /\ job[c.j].attempts = c.attempt /\ job[c.j].live

Complete(w, outcome) ==
  /\ worker[w].at = "scan" /\ HoldsLease(worker[w])
  /\ LET c == worker[w]
         result == Failure(c.j, outcome)
         retry == Retried(result, c.attempt)
     IN
     /\ job' = [job EXCEPT ![c.j].live = FALSE, ![c.j].status =
                  IF retry THEN "queued" ELSE IF Failed(result) THEN "failed" ELSE "succeeded"]
     /\ run' = [run EXCEPT ![c.j][c.attempt] =
                  IF @ # "running" THEN @ ELSE IF Failed(result) THEN "failed"
                  ELSE IF result = "clean" THEN "clean" ELSE "succeeded"]
     /\ version' = IF version[c.j].decided THEN version
                   ELSE [version EXCEPT ![c.j].security = Verdict(result, c.attempt)]
  /\ worker' = [worker EXCEPT ![w] = Idle]
  /\ UNCHANGED deaths

\* The lease was lost: the result is dropped.
CompleteTooLate(w) ==
  /\ worker[w].at = "scan" /\ ~HoldsLease(worker[w])
  /\ worker' = [worker EXCEPT ![w] = Idle]
  /\ UNCHANGED <<job, run, version, deaths>>

---------------------------------------------------------------------------
LeaseExpires(j) ==
  /\ job[j].status = "running" /\ job[j].live
  /\ job' = [job EXCEPT ![j].live = FALSE]
  /\ UNCHANGED <<run, version, worker, deaths>>

\* The delay before a retry passes.
BecomesDue(j) ==
  /\ job[j].status = "queued" /\ ~job[j].due
  /\ job' = [job EXCEPT ![j].due = TRUE]
  /\ UNCHANGED <<run, version, worker, deaths>>

Die(w) ==
  /\ worker[w] # Idle /\ deaths < MaxDeaths
  /\ worker' = [worker EXCEPT ![w] = Idle]
  /\ deaths' = deaths + 1
  /\ UNCHANGED <<job, run, version>>

\* The review decides (Submissions): withdrawn or rejected, or approved after a
\* clean scan.
Decide(j) ==
  /\ ~version[j].decided
  /\ version' = [version EXCEPT ![j].decided = TRUE]
  /\ UNCHANGED <<job, run, worker, deaths>>

\* The stored artifact is replaced behind the application.
Drift(j) ==
  /\ version[j].intact
  /\ version' = [version EXCEPT ![j].intact = FALSE]
  /\ UNCHANGED <<job, run, worker, deaths>>

Work(w) ==
  \/ \E j \in Jobs : ClaimNext(w, j) \/ ClaimExhausted(w, j)
  \/ EndBatch(w) \/ ReconcileExhausted(w)
  \/ \E outcome \in Outcomes : Complete(w, outcome)
  \/ CompleteTooLate(w)

Next ==
  \/ \E w \in Workers : Work(w) \/ Die(w)
  \/ \E j \in Jobs : LeaseExpires(j) \/ BecomesDue(j) \/ Decide(j) \/ Drift(j)

Spec == Init /\ [][Next]_vars

\* Every process runs a batch every few seconds, and time passes.
Fairness ==
  /\ \A w \in Workers : WF_vars(Work(w))
  /\ \A j \in Jobs : WF_vars(LeaseExpires(j)) /\ WF_vars(BecomesDue(j))

FairSpec == Spec /\ Fairness

---------------------------------------------------------------------------
\* A version passes on the evidence of a run that finished under its lease and
\* found nothing; a worker that lost its lease adds no evidence.
PassedIsEvidenced ==
  \A j \in Jobs : version[j].security = "passed" => \E a \in Attempts : run[j][a] = "clean"

\* At most the current attempt of a job is running, and only while the job is.
RunsFollowTheJob ==
  \A j \in Jobs, a \in Attempts :
    run[j][a] = "running" => job[j].status = "running" /\ job[j].attempts = a

\* Why it is so: a running job has the run of its current attempt running, and
\* a job that is still at work, or waits for a retry, has no verdict yet.
JobsHaveTheirRun ==
  \A j \in Jobs :
    job[j].status = "running" =>
      job[j].attempts \in Attempts /\ run[j][job[j].attempts] = "running"
OpenJobsAreUnjudged ==
  \A j \in Jobs : job[j].status \in {"queued", "running"} => version[j].security = "not-run"

IInv ==
  /\ TypeOK /\ PassedIsEvidenced /\ RunsFollowTheJob
  /\ JobsHaveTheirRun /\ OpenJobsAreUnjudged

VerdictIsFinalStep ==
  \A j \in Jobs :
     version[j].security # "not-run" => version'[j].security = version[j].security

\* A verdict is never replaced: not by a retry, a late worker or the exhaustion
\* of the attempts.
VerdictIsFinal == [][VerdictIsFinalStep]_vars

Judged(j) == version[j].security # "not-run" \/ version[j].decided

\* Every version gets a verdict unless the review decides without it, whatever
\* the scans come to and however workers die.
EveryVersionIsJudged == \A j \in Jobs : <>Judged(j)
===========================================================================
