---------------------------- MODULE ProgressProofs ---------------------------
(***************************************************************************)
(* What holds of scan jobs and of the storage of artifacts for every       *)
(* number of workers, jobs, attempts, keys and cleaners: properties that   *)
(* MCProgress checks on small instances, as theorems of its specification. *)
(* The protocols that move in other sums too keep the invariants that are  *)
(* proved there. That waits end is left to the model checker.              *)
(***************************************************************************)
EXTENDS MCProgress, Sequences, TLAPS

---------------------------------------------------------------------------
(* Scan jobs.                                                              *)

\* While jobs are scanned, a step is one of theirs or changes nothing of theirs.
LEMMA ScanSteps ==
  ASSUME part = "scans", [Next]_vars
  PROVE  Scan!Next \/ UNCHANGED Scan!vars
BY DEF Next, vars, Scan!vars, Queueing, Storing, Scanning, Mailing, Checking, RootLocking,
       Installing

\* Every submission enqueues one job without a verdict.
LEMMA ScanInit == Scan!Init => Scan!IInv
<1> SUFFICES ASSUME Scan!Init PROVE Scan!IInv
  OBVIOUS
<1>1. Scan!TypeOK
  BY ScanAssumption DEF Scan!Init, Scan!TypeOK, Scan!Attempts, Scan!Runs, Scan!Idle
<1> QED
  BY <1>1 DEF Scan!Init, Scan!IInv, Scan!PassedIsEvidenced, Scan!RunsFollowTheJob,
     Scan!JobsHaveTheirRun, Scan!OpenJobsAreUnjudged

\* What the runs of a job are after the one of a lease that ran out has failed.
LEMMA SettledRuns ==
  ASSUME Scan!IInv, NEW j \in Jobs
  PROVE  /\ Scan!Settled(j) \in [Scan!Attempts -> Scan!Runs]
         /\ \A a \in Scan!Attempts : Scan!Settled(j)[a] # "running"
BY DEF Scan!IInv, Scan!TypeOK, Scan!RunsFollowTheJob, Scan!Settled, Scan!Runs

\* A claim starts the next run and leaves no other running.
LEMMA ClaimKeeps ==
  ASSUME Scan!IInv, NEW w \in Workers, NEW j \in Jobs, Scan!ClaimNext(w, j)
  PROVE  Scan!IInv'
<1> DEFINE attempt == s1[j].attempts + 1
           row == [status |-> "running", attempts |-> attempt, due |-> FALSE, live |-> TRUE]
           runs == [Scan!Settled(j) EXCEPT ![attempt] = "running"]
<1>1. /\ s1' = [s1 EXCEPT ![j] = row] /\ s2' = [s2 EXCEPT ![j] = runs] /\ s3' = s3 /\ s5' = s5
      /\ s4' = [s4 EXCEPT ![w] = [at |-> "scan", j |-> j, attempt |-> attempt]]
  BY DEF Scan!ClaimNext
<1>2. attempt \in Scan!Attempts /\ s1[j].status \in {"queued", "running"}
  BY ScanAssumption DEF Scan!ClaimNext, Scan!Claimable, Scan!IInv, Scan!TypeOK, Scan!Attempts
<1>3. /\ runs \in [Scan!Attempts -> Scan!Runs] /\ runs[attempt] = "running"
      /\ \A a \in Scan!Attempts : runs[a] = "running" => a = attempt
  BY <1>2, SettledRuns DEF Scan!Runs
<1>4. row \in [status : {"queued", "running", "failed", "exhausted", "succeeded"},
               attempts : 0 .. MaxAttempts, due : BOOLEAN, live : BOOLEAN]
  BY <1>2, ScanAssumption DEF Scan!Attempts
<1>5. /\ row.status = "running" /\ row.attempts = attempt
      /\ [at |-> "scan", j |-> j, attempt |-> attempt] \in Scan!Claim
  BY <1>2 DEF Scan!Claim
<1> HIDE DEF attempt, row, runs
<1>6. Scan!TypeOK'
  BY <1>1, <1>3, <1>4, <1>5 DEF Scan!IInv, Scan!TypeOK
<1>7. /\ s1'[j] = row /\ s2'[j] = runs
      /\ \A i \in Jobs : i # j => s1'[i] = s1[i] /\ s2'[i] = s2[i]
  BY <1>1 DEF Scan!IInv, Scan!TypeOK
<1>8. s3[j].security = "not-run"
  BY <1>2 DEF Scan!IInv, Scan!OpenJobsAreUnjudged
<1>9. Scan!PassedIsEvidenced'
  BY <1>1, <1>7, <1>8 DEF Scan!IInv, Scan!PassedIsEvidenced
<1>10. Scan!RunsFollowTheJob' /\ Scan!JobsHaveTheirRun'
  BY <1>2, <1>3, <1>5, <1>7 DEF Scan!IInv, Scan!RunsFollowTheJob, Scan!JobsHaveTheirRun
<1>11. Scan!OpenJobsAreUnjudged'
  BY <1>1, <1>7, <1>8 DEF Scan!IInv, Scan!OpenJobsAreUnjudged
<1> QED
  BY <1>6, <1>9, <1>10, <1>11 DEF Scan!IInv

\* A job that used up its attempts is closed without a verdict.
LEMMA ExhaustionKeeps ==
  ASSUME Scan!IInv, NEW w \in Workers, NEW j \in Jobs, Scan!ClaimExhausted(w, j)
  PROVE  Scan!IInv'
<1>1. /\ s1' = [s1 EXCEPT ![j] = [s1[j] EXCEPT !.status = "exhausted", !.live = FALSE]]
      /\ s2' = [s2 EXCEPT ![j] = Scan!Settled(j)]
      /\ s4' = [s4 EXCEPT ![w] = Scan!Reconciling] /\ s3' = s3 /\ s5' = s5
  BY DEF Scan!ClaimExhausted, Scan!IInv, Scan!TypeOK
<1>2. Scan!TypeOK'
  BY <1>1, SettledRuns DEF Scan!IInv, Scan!TypeOK
<1>3. /\ s1'[j].status = "exhausted" /\ s2'[j] = Scan!Settled(j)
      /\ \A i \in Jobs : i # j => s1'[i] = s1[i] /\ s2'[i] = s2[i]
  BY <1>1 DEF Scan!IInv, Scan!TypeOK
<1>4. s3[j].security = "not-run"
  BY DEF Scan!IInv, Scan!OpenJobsAreUnjudged, Scan!ClaimExhausted, Scan!Claimable
<1>5. Scan!PassedIsEvidenced'
  BY <1>1, <1>3, <1>4 DEF Scan!IInv, Scan!PassedIsEvidenced
<1>6. Scan!RunsFollowTheJob' /\ Scan!JobsHaveTheirRun'
  BY <1>3, SettledRuns DEF Scan!IInv, Scan!RunsFollowTheJob, Scan!JobsHaveTheirRun
<1>7. Scan!OpenJobsAreUnjudged'
  BY <1>1, <1>3 DEF Scan!IInv, Scan!OpenJobsAreUnjudged
<1> QED
  BY <1>2, <1>5, <1>6, <1>7 DEF Scan!IInv

\* A worker completes only the current attempt of a running job, which has no verdict.
LEMMA CompletionKeeps ==
  ASSUME Scan!IInv, NEW w \in Workers, NEW outcome \in Scan!Outcomes, Scan!Complete(w, outcome)
  PROVE  /\ Scan!IInv'
         /\ \A j \in Jobs : s3[j].security # "not-run" => s3'[j].security = s3[j].security
<1> DEFINE c == s4[w]
           result == Scan!Failure(c.j, outcome)
           status == IF Scan!Retried(result, c.attempt) THEN "queued"
                     ELSE IF Scan!Failed(result) THEN "failed" ELSE "succeeded"
           outcomeRun == IF s2[c.j][c.attempt] # "running" THEN s2[c.j][c.attempt]
                         ELSE IF Scan!Failed(result) THEN "failed"
                         ELSE IF result = "clean" THEN "clean" ELSE "succeeded"
           verdict == Scan!Verdict(result, c.attempt)
<1>1. c \in Scan!Claim /\ c.j \in Jobs /\ c.attempt \in Scan!Attempts
  BY DEF Scan!Complete, Scan!IInv, Scan!TypeOK, Scan!Claim, Scan!Idle, Scan!Reconciling
<1>2. s1[c.j].status = "running" /\ s1[c.j].attempts = c.attempt
  BY DEF Scan!Complete, Scan!HoldsLease
<1>3. s3[c.j].security = "not-run" /\ s2[c.j][c.attempt] = "running"
  BY <1>1, <1>2 DEF Scan!IInv, Scan!OpenJobsAreUnjudged, Scan!JobsHaveTheirRun
<1>4. /\ status \in {"queued", "failed", "succeeded"}
      /\ outcomeRun \in {"failed", "clean", "succeeded"}
      /\ verdict \in {"not-run", "passed", "warning", "failed"}
      /\ verdict = "passed" => outcomeRun = "clean"
      /\ status = "queued" => verdict = "not-run"
  BY <1>3 DEF Scan!Verdict, Scan!Retried, Scan!Failed
<1>5. /\ s1' = [s1 EXCEPT ![c.j] = [s1[c.j] EXCEPT !.live = FALSE, !.status = status]]
      /\ s2' = [s2 EXCEPT ![c.j] = [s2[c.j] EXCEPT ![c.attempt] = outcomeRun]]
      /\ s3' = IF s3[c.j].decided THEN s3
               ELSE [s3 EXCEPT ![c.j] = [s3[c.j] EXCEPT !.security = verdict]]
      /\ s4' = [s4 EXCEPT ![w] = Scan!Idle] /\ s5' = s5
  <2>1. Scan!TypeOK
    BY DEF Scan!IInv
  <2>2. s1' = [s1 EXCEPT ![c.j] = [s1[c.j] EXCEPT !.live = FALSE, !.status = status]]
    BY <1>1, <2>1 DEF Scan!Complete, Scan!TypeOK
  <2>3. s2' = [s2 EXCEPT ![c.j] = [s2[c.j] EXCEPT ![c.attempt] = outcomeRun]]
    BY <1>1, <2>1 DEF Scan!Complete, Scan!TypeOK
  <2>4. s3' = IF s3[c.j].decided THEN s3
              ELSE [s3 EXCEPT ![c.j] = [s3[c.j] EXCEPT !.security = verdict]]
    BY <1>1, <2>1 DEF Scan!Complete, Scan!TypeOK
  <2> QED
    BY <2>2, <2>3, <2>4 DEF Scan!Complete
<1> HIDE DEF c, result, status, outcomeRun, verdict
<1>6. /\ s1'[c.j].status = status /\ s2'[c.j][c.attempt] = outcomeRun
      /\ \A a \in Scan!Attempts : a # c.attempt => s2'[c.j][a] = s2[c.j][a]
      /\ s3'[c.j].security \in {"not-run", verdict}
      /\ \A i \in Jobs : i # c.j => s1'[i] = s1[i] /\ s2'[i] = s2[i] /\ s3'[i] = s3[i]
  BY <1>1, <1>3, <1>5 DEF Scan!IInv, Scan!TypeOK
<1>7. Scan!TypeOK'
  <2>1. s1' \in [Jobs -> [status : {"queued", "running", "failed", "exhausted", "succeeded"},
                          attempts : 0 .. MaxAttempts, due : BOOLEAN, live : BOOLEAN]]
    BY <1>1, <1>4, <1>5 DEF Scan!IInv, Scan!TypeOK
  <2>2. s2' \in [Jobs -> [Scan!Attempts -> Scan!Runs]]
    <3>1. outcomeRun \in Scan!Runs
      BY <1>4 DEF Scan!Runs
    <3> QED
      BY <1>1, <1>5, <3>1 DEF Scan!IInv, Scan!TypeOK
  <2>3. s3' \in [Jobs -> [security : {"not-run", "passed", "warning", "failed"},
                          decided : BOOLEAN, intact : BOOLEAN]]
    BY <1>1, <1>4, <1>5 DEF Scan!IInv, Scan!TypeOK
  <2> QED
    BY <1>5, <2>1, <2>2, <2>3 DEF Scan!IInv, Scan!TypeOK
<1>8. Scan!PassedIsEvidenced'
  <2> SUFFICES ASSUME NEW j \in Jobs, s3'[j].security = "passed"
               PROVE  \E a \in Scan!Attempts : s2'[j][a] = "clean"
    BY DEF Scan!PassedIsEvidenced
  <2>1. CASE j = c.j
    BY <1>1, <1>4, <1>6, <2>1
  <2>2. CASE j # c.j
    BY <1>6, <2>2 DEF Scan!IInv, Scan!PassedIsEvidenced
  <2> QED
    BY <2>1, <2>2
<1>9. Scan!RunsFollowTheJob'
  <2> SUFFICES ASSUME NEW j \in Jobs, NEW a \in Scan!Attempts, s2'[j][a] = "running"
               PROVE  s1'[j].status = "running" /\ s1'[j].attempts = a
    BY DEF Scan!RunsFollowTheJob
  <2>1. j # c.j
    BY <1>2, <1>4, <1>6 DEF Scan!IInv, Scan!RunsFollowTheJob
  <2> QED
    BY <1>6, <2>1 DEF Scan!IInv, Scan!RunsFollowTheJob
<1>10. Scan!JobsHaveTheirRun' /\ Scan!OpenJobsAreUnjudged'
  BY <1>4, <1>6 DEF Scan!IInv, Scan!JobsHaveTheirRun, Scan!OpenJobsAreUnjudged
<1>11. \A j \in Jobs : s3[j].security # "not-run" => s3'[j].security = s3[j].security
  BY <1>3, <1>6
<1> QED
  BY <1>7, <1>8, <1>9, <1>10, <1>11 DEF Scan!IInv

\* Every step of scanning keeps its invariant and the verdicts.
LEMMA ScansKept ==
  ASSUME Scan!IInv, Scan!Next \/ UNCHANGED Scan!vars
  PROVE  /\ Scan!IInv'
         /\ \A j \in Jobs : s3[j].security # "not-run" => s3'[j].security = s3[j].security
<1> DEFINE Row == [status : {"queued", "running", "failed", "exhausted", "succeeded"},
                   attempts : 0 .. MaxAttempts, due : BOOLEAN, live : BOOLEAN]
           Version == [security : {"not-run", "passed", "warning", "failed"},
                       decided : BOOLEAN, intact : BOOLEAN]
           Kept == /\ Scan!IInv'
                   /\ \A j \in Jobs : s3[j].security # "not-run" =>
                                        s3'[j].security = s3[j].security
<1>1. ASSUME NEW w \in Workers, NEW j \in Jobs, Scan!ClaimNext(w, j) PROVE Kept
  BY <1>1, ClaimKeeps DEF Scan!ClaimNext
<1>2. ASSUME NEW w \in Workers, NEW j \in Jobs, Scan!ClaimExhausted(w, j) PROVE Kept
  BY <1>2, ExhaustionKeeps DEF Scan!ClaimExhausted
<1>3. ASSUME NEW w \in Workers, Scan!EndBatch(w) PROVE Kept
  BY <1>3 DEF Scan!EndBatch, Scan!IInv, Scan!TypeOK, Scan!PassedIsEvidenced,
     Scan!RunsFollowTheJob, Scan!JobsHaveTheirRun, Scan!OpenJobsAreUnjudged
<1>4. ASSUME NEW w \in Workers, Scan!ReconcileExhausted(w) PROVE Kept
  <2>1. /\ s1' = s1 /\ s2' = s2 /\ s5' = s5 /\ s4' = [s4 EXCEPT ![w] = Scan!Idle]
        /\ DOMAIN s3' = Jobs
        /\ s3' = [j \in Jobs |->
             IF s1[j].status = "exhausted" /\ s3[j].security = "not-run" /\ ~s3[j].decided
               THEN [s3[j] EXCEPT !.security = "failed"] ELSE s3[j]]
    BY <1>4 DEF Scan!ReconcileExhausted
  <2>2. \A j \in Jobs : \/ s3'[j] = s3[j]
                        \/ /\ s1[j].status = "exhausted" /\ s3[j].security = "not-run"
                           /\ s3'[j] = [s3[j] EXCEPT !.security = "failed"]
                           /\ s3'[j].security = "failed"
    BY <2>1 DEF Scan!IInv, Scan!TypeOK
  <2>3. Scan!TypeOK'
    <3>1. ASSUME NEW j \in Jobs
          PROVE  s3'[j] \in [security : {"not-run", "passed", "warning", "failed"},
                             decided : BOOLEAN, intact : BOOLEAN]
      <4>1. s3[j] \in [security : {"not-run", "passed", "warning", "failed"},
                       decided : BOOLEAN, intact : BOOLEAN]
        BY DEF Scan!IInv, Scan!TypeOK
      <4>2. [s3[j] EXCEPT !.security = "failed"] \in
              [security : {"not-run", "passed", "warning", "failed"},
               decided : BOOLEAN, intact : BOOLEAN]
        BY <4>1
      <4> QED
        BY <2>2, <4>1, <4>2
    <3>2. s3' \in [Jobs -> [security : {"not-run", "passed", "warning", "failed"},
                            decided : BOOLEAN, intact : BOOLEAN]]
      BY <2>1, <3>1
    <3> QED
      BY <2>1, <3>2 DEF Scan!IInv, Scan!TypeOK
  <2>4. Scan!PassedIsEvidenced' /\ Scan!OpenJobsAreUnjudged'
    BY <2>1, <2>2 DEF Scan!IInv, Scan!PassedIsEvidenced, Scan!OpenJobsAreUnjudged
  <2> QED
    BY <2>1, <2>2, <2>3, <2>4 DEF Scan!IInv, Scan!RunsFollowTheJob, Scan!JobsHaveTheirRun
<1>5. ASSUME NEW w \in Workers, Scan!CompleteTooLate(w) \/ Scan!Die(w) PROVE Kept
  <2>1. s1' = s1 /\ s2' = s2 /\ s3' = s3 /\ s4' = [s4 EXCEPT ![w] = Scan!Idle]
    BY <1>5 DEF Scan!CompleteTooLate, Scan!Die
  <2>2. s5' \in 0 .. MaxDeaths
    BY <1>5, ScanAssumption DEF Scan!CompleteTooLate, Scan!Die, Scan!IInv, Scan!TypeOK
  <2> QED
    BY <2>1, <2>2 DEF Scan!IInv, Scan!TypeOK, Scan!PassedIsEvidenced,
       Scan!RunsFollowTheJob, Scan!JobsHaveTheirRun, Scan!OpenJobsAreUnjudged
<1>6. ASSUME NEW j \in Jobs, Scan!LeaseExpires(j) \/ Scan!BecomesDue(j) PROVE Kept
  <2>1. /\ s2' = s2 /\ s3' = s3 /\ s4' = s4 /\ s5' = s5
        /\ \/ s1' = [s1 EXCEPT ![j] = [s1[j] EXCEPT !.live = FALSE]]
           \/ s1' = [s1 EXCEPT ![j] = [s1[j] EXCEPT !.due = TRUE]]
    BY <1>6 DEF Scan!LeaseExpires, Scan!BecomesDue, Scan!IInv, Scan!TypeOK
  <2>2. s1[j] \in Row
    BY DEF Scan!IInv, Scan!TypeOK
  <2>3. s1'[j] \in Row /\ s1'[j].status = s1[j].status /\ s1'[j].attempts = s1[j].attempts
    <3>1. ASSUME NEW row, row = [s1[j] EXCEPT !.live = FALSE] \/ row = [s1[j] EXCEPT !.due = TRUE]
          PROVE  row \in Row /\ row.status = s1[j].status /\ row.attempts = s1[j].attempts
      BY <2>2, <3>1
    <3> QED
      BY <2>1, <3>1 DEF Scan!IInv, Scan!TypeOK
  <2>4. /\ s1' \in [Jobs -> Row]
        /\ \A i \in Jobs : s1'[i].status = s1[i].status /\ s1'[i].attempts = s1[i].attempts
    BY <2>1, <2>3 DEF Scan!IInv, Scan!TypeOK
  <2> QED
    BY <2>1, <2>4 DEF Scan!IInv, Scan!TypeOK, Scan!PassedIsEvidenced,
       Scan!RunsFollowTheJob, Scan!JobsHaveTheirRun, Scan!OpenJobsAreUnjudged
<1>7. ASSUME NEW j \in Jobs, Scan!Decide(j) \/ Scan!Drift(j) PROVE Kept
  <2>1. /\ s1' = s1 /\ s2' = s2 /\ s4' = s4 /\ s5' = s5
        /\ \/ s3' = [s3 EXCEPT ![j] = [s3[j] EXCEPT !.decided = TRUE]]
           \/ s3' = [s3 EXCEPT ![j] = [s3[j] EXCEPT !.intact = FALSE]]
    BY <1>7 DEF Scan!Decide, Scan!Drift, Scan!IInv, Scan!TypeOK
  <2>2. s3[j] \in Version
    BY DEF Scan!IInv, Scan!TypeOK
  <2>3. s3'[j] \in Version /\ s3'[j].security = s3[j].security
    <3>1. ASSUME NEW row, \/ row = [s3[j] EXCEPT !.decided = TRUE]
                          \/ row = [s3[j] EXCEPT !.intact = FALSE]
          PROVE  row \in Version /\ row.security = s3[j].security
      BY <2>2, <3>1
    <3> QED
      BY <2>1, <3>1 DEF Scan!IInv, Scan!TypeOK
  <2>4. s3' \in [Jobs -> Version] /\ \A i \in Jobs : s3'[i].security = s3[i].security
    BY <2>1, <2>3 DEF Scan!IInv, Scan!TypeOK
  <2> QED
    BY <2>1, <2>4 DEF Scan!IInv, Scan!TypeOK, Scan!PassedIsEvidenced,
       Scan!RunsFollowTheJob, Scan!JobsHaveTheirRun, Scan!OpenJobsAreUnjudged
<1>8. ASSUME UNCHANGED Scan!vars PROVE Kept
  BY <1>8 DEF Scan!vars, Scan!IInv, Scan!TypeOK, Scan!PassedIsEvidenced,
     Scan!RunsFollowTheJob, Scan!JobsHaveTheirRun, Scan!OpenJobsAreUnjudged
<1>9. ASSUME NEW w \in Workers, NEW outcome \in Scan!Outcomes, Scan!Complete(w, outcome)
      PROVE  Kept
  BY <1>9, CompletionKeeps
<1> HIDE DEF Kept
<1>10. Kept
  BY <1>1, <1>2, <1>3, <1>4, <1>5, <1>6, <1>7, <1>8, <1>9 DEF Scan!Next, Scan!Work
<1> QED
  BY <1>10 DEF Kept

---------------------------------------------------------------------------
(* The storage of artifacts.                                               *)

\* While artifacts move, a step is one of theirs or changes nothing of theirs.
LEMMA StoreSteps ==
  ASSUME part = "artifacts", [Next]_vars
  PROVE  Store!Next \/ UNCHANGED Store!vars
BY DEF Next, vars, Store!vars, Queueing, Storing, Scanning, Mailing, Checking, RootLocking,
       Installing

\* Nothing is stored at the start.
LEMMA StoreInit == Store!Init => Store!IInv
<1> SUFFICES ASSUME Store!Init PROVE Store!IInv
  OBVIOUS
<1>1. Store!StoreTypeOK /\ Store!OneIntentPerKey
  BY StorageAssumption DEF Store!Init, Store!StoreTypeOK, Store!OneIntentPerKey, Store!Free
<1>2. ASSUME NEW k \in Keys PROVE Store!KeyInv(k)
  BY StorageAssumption DEF Store!Init, Store!KeyInv, Store!LocksAreHonoured, Store!WriteHasIntent,
     Store!GivenUpWriteIsFresh, Store!AccountedFor, Store!HasIntent, Store!CleanUpLock, Store!Free
<1> QED
  BY <1>1, <1>2 DEF Store!IInv

\* A lock says what its holder does.
LEMMA MarksAreApart ==
  /\ "free" \notin Cleaners /\ "writer" \notin Cleaners /\ "compensation" \notin Cleaners
  /\ Store!Free = "free"
BY StorageAssumption DEF Store!Free

\* What a sequence of intents with one row per key is after a fresh row was added.
LEMMA IntentAppended ==
  ASSUME NEW rows \in Seq(Store!Intent), NEW k \in Keys,
         \A i, j \in DOMAIN rows : rows[i].key = rows[j].key => i = j,
         \A i \in DOMAIN rows : rows[i].key # k,
         s1' = Append(rows, [key |-> k, stale |-> FALSE])
  PROVE  /\ s1' \in Seq(Store!Intent) /\ Store!OneIntentPerKey'
         /\ \A x \in Keys :
              /\ Store!HasIntent(x)' <=> x = k \/ \E i \in DOMAIN rows : rows[i].key = x
              /\ Store!IsStale(x)' <=> \E i \in DOMAIN rows : rows[i].key = x /\ rows[i].stale
<1> DEFINE row == [key |-> k, stale |-> FALSE]
<1>1. row \in Store!Intent /\ row.key = k /\ row.stale = FALSE
  BY DEF Store!Intent
<1> HIDE DEF row
<1>2. /\ s1' \in Seq(Store!Intent) /\ Len(s1') = Len(rows) + 1 /\ Len(rows) \in Nat
      /\ s1'[Len(rows) + 1] = row /\ \A i \in 1 .. Len(rows) : s1'[i] = rows[i]
  BY <1>1 DEF row
<1>3. DOMAIN s1' = 1 .. Len(rows) + 1 /\ DOMAIN rows = 1 .. Len(rows)
  BY <1>2
<1>4. DOMAIN s1' = DOMAIN rows \cup {Len(rows) + 1} /\ Len(rows) + 1 \notin DOMAIN rows
  BY <1>2, <1>3
<1>5. s1'[Len(rows) + 1].key = k /\ s1'[Len(rows) + 1].stale = FALSE
  BY <1>1, <1>2
<1>6. \A i \in DOMAIN rows : s1'[i] = rows[i]
  BY <1>2, <1>3
<1>7. Store!OneIntentPerKey'
  BY <1>4, <1>5, <1>6 DEF Store!OneIntentPerKey
<1>8. ASSUME NEW x \in Keys
      PROVE  /\ Store!HasIntent(x)' <=> x = k \/ \E i \in DOMAIN rows : rows[i].key = x
             /\ Store!IsStale(x)' <=> \E i \in DOMAIN rows : rows[i].key = x /\ rows[i].stale
  BY <1>4, <1>5, <1>6 DEF Store!HasIntent, Store!IsStale
<1> QED
  BY <1>2, <1>7, <1>8

\* What the intents other than that of a key are.
LEMMA OtherIntents ==
  ASSUME s1 \in Seq(Store!Intent), Store!OneIntentPerKey, NEW k \in Keys
  PROVE  LET rows == Store!Others(k) IN
         /\ rows \in Seq(Store!Intent)
         /\ \A i, j \in DOMAIN rows : rows[i].key = rows[j].key => i = j
         /\ \A x \in Keys :
              /\ (\E i \in DOMAIN rows : rows[i].key = x) <=> x # k /\ Store!HasIntent(x)
              /\ (\E i \in DOMAIN rows : rows[i].key = x /\ rows[i].stale) <=>
                   x # k /\ Store!IsStale(x)
<1> DEFINE rows == Store!Others(k)
<1>1. Len(s1) \in Nat /\ DOMAIN s1 = 1 .. Len(s1)
  OBVIOUS
<1>2. CASE ~Store!HasIntent(k)
  BY <1>2 DEF Store!Others, Store!OneIntentPerKey, Store!HasIntent, Store!IsStale
<1>3. CASE Store!HasIntent(k)
  <2> DEFINE n == CHOOSE i \in DOMAIN s1 : s1[i].key = k
             shifted(i) == IF i < n THEN i ELSE i + 1
  <2>1. n \in DOMAIN s1 /\ s1[n].key = k
    BY <1>3 DEF Store!HasIntent
  <2>2. rows = [i \in 1 .. Len(s1) - 1 |-> IF i < n THEN s1[i] ELSE s1[i + 1]]
    BY <1>3 DEF Store!Others
  <2> HIDE DEF n, rows
  <2>3. n \in 1 .. Len(s1) /\ Len(s1) - 1 \in Nat
    BY <1>1, <2>1
  <2>4. DOMAIN rows = 1 .. Len(s1) - 1
    BY <2>2
  <2>5. \A i \in DOMAIN rows : shifted(i) \in DOMAIN s1 /\ rows[i] = s1[shifted(i)] /\ shifted(i) # n
    BY <1>1, <2>2, <2>3
  <2>6. \A i, j \in DOMAIN rows : shifted(i) = shifted(j) => i = j
    BY <2>3, <2>4
  <2>7. ASSUME NEW m \in DOMAIN s1, m # n PROVE \E i \in DOMAIN rows : shifted(i) = m
    <3>1. CASE m < n
      <4>1. m \in DOMAIN rows
        BY <1>1, <2>3, <2>4, <3>1
      <4> QED
        BY <3>1, <4>1
    <3>2. CASE m > n
      <4>1. m - 1 \in DOMAIN rows /\ ~(m - 1 < n) /\ (m - 1) + 1 = m
        BY <1>1, <2>3, <2>4, <3>2
      <4>2. shifted(m - 1) = m
        BY <4>1
      <4> QED
        BY <4>1, <4>2
    <3> QED
      BY <1>1, <2>3, <2>7, <3>1, <3>2
  <2> HIDE DEF shifted
  <2>8. rows \in Seq(Store!Intent)
    <3>1. \A i \in 1 .. Len(s1) - 1 : rows[i] \in Store!Intent
      BY <2>4, <2>5
    <3>2. rows \in [1 .. Len(s1) - 1 -> Store!Intent]
      BY <2>2, <3>1
    <3> QED
      BY <2>3, <3>2
  <2>9. \A i, j \in DOMAIN rows : rows[i].key = rows[j].key => i = j
    BY <2>5, <2>6 DEF Store!OneIntentPerKey
  <2>10. \A m \in DOMAIN s1 : m # n => s1[m].key # k
    BY <2>1 DEF Store!OneIntentPerKey
  <2>11. ASSUME NEW x \in Keys
         PROVE  /\ (\E i \in DOMAIN rows : rows[i].key = x) <=> x # k /\ Store!HasIntent(x)
                /\ (\E i \in DOMAIN rows : rows[i].key = x /\ rows[i].stale) <=>
                     x # k /\ Store!IsStale(x)
    BY <2>1, <2>5, <2>7, <2>10 DEF Store!HasIntent, Store!IsStale
  <2> QED
    BY <2>8, <2>9, <2>11 DEF rows
<1> QED
  BY <1>2, <1>3

\* Without the intent of a key the others are as they were.
LEMMA IntentRemoved ==
  ASSUME s1 \in Seq(Store!Intent), Store!OneIntentPerKey, NEW k \in Keys, Store!Removed(k)
  PROVE  /\ s1' \in Seq(Store!Intent) /\ Store!OneIntentPerKey'
         /\ \A x \in Keys : /\ Store!HasIntent(x)' <=> x # k /\ Store!HasIntent(x)
                            /\ Store!IsStale(x)' <=> x # k /\ Store!IsStale(x)
<1>1. s1' = Store!Others(k)
  BY DEF Store!Removed
<1> QED
  BY <1>1, OtherIntents DEF Store!OneIntentPerKey, Store!HasIntent, Store!IsStale

\* An intent that is touched is fresh; no other changes.
LEMMA IntentTouched ==
  ASSUME s1 \in Seq(Store!Intent), Store!OneIntentPerKey, NEW k \in Keys, Store!Touched(k)
  PROVE  /\ s1' \in Seq(Store!Intent) /\ Store!OneIntentPerKey'
         /\ \A x \in Keys : /\ Store!HasIntent(x)' <=> Store!HasIntent(x)
                            /\ Store!IsStale(x)' <=> x # k /\ Store!IsStale(x)
<1>1. CASE ~Store!HasIntent(k)
  BY <1>1 DEF Store!Touched, Store!OneIntentPerKey, Store!HasIntent, Store!IsStale
<1>2. CASE Store!HasIntent(k)
  <2> DEFINE rows == Store!Others(k)
  <2>1. s1' = Append(rows, [key |-> k, stale |-> FALSE])
    BY <1>2 DEF Store!Touched
  <2>2. /\ rows \in Seq(Store!Intent)
        /\ \A i, j \in DOMAIN rows : rows[i].key = rows[j].key => i = j
        /\ \A i \in DOMAIN rows : rows[i].key # k
        /\ \A x \in Keys :
              /\ (\E i \in DOMAIN rows : rows[i].key = x) <=> x # k /\ Store!HasIntent(x)
              /\ (\E i \in DOMAIN rows : rows[i].key = x /\ rows[i].stale) <=>
                   x # k /\ Store!IsStale(x)
    BY OtherIntents
  <2> HIDE DEF rows
  <2>3. /\ s1' \in Seq(Store!Intent) /\ Store!OneIntentPerKey'
        /\ \A x \in Keys :
             /\ Store!HasIntent(x)' <=> x = k \/ \E i \in DOMAIN rows : rows[i].key = x
             /\ Store!IsStale(x)' <=> \E i \in DOMAIN rows : rows[i].key = x /\ rows[i].stale
    BY <2>1, <2>2, IntentAppended
  <2> QED
    BY <1>2, <2>2, <2>3
<1> QED
  BY <1>1, <1>2

\* Nothing is different for a key.
SameFor(x) ==
  /\ Store!HasIntent(x)' <=> Store!HasIntent(x)
  /\ Store!IsStale(x)' <=> Store!IsStale(x)
  /\ x \in s2' <=> x \in s2
  /\ x \in s3' <=> x \in s3
  /\ x \in s4' <=> x \in s4
  /\ s5'[x] = s5[x]
  /\ x \in s6' <=> x \in s6
  /\ s7'[x] = s7[x]

\* A key for which nothing is different stays as consistent as it was.
LEMMA SameIsKept ==
  ASSUME NEW x \in Keys, Store!KeyInv(x), SameFor(x)
  PROVE  Store!KeyInv(x)'
<1>1. Store!CleanUpLock(x)' <=> Store!CleanUpLock(x)
  BY DEF SameFor, Store!CleanUpLock
<1> QED
  BY <1>1 DEF SameFor, Store!KeyInv, Store!LocksAreHonoured, Store!WriteHasIntent,
     Store!GivenUpWriteIsFresh, Store!AccountedFor

\* A step on one key is a matter of that key.
LEMMA OneKeyMoves ==
  ASSUME Store!IInv, NEW k \in Keys,
         Store!StoreTypeOK', Store!OneIntentPerKey', Store!KeyInv(k)',
         \A x \in Keys : x # k => SameFor(x)
  PROVE  Store!IInv'
<1>1. ASSUME NEW x \in Keys PROVE Store!KeyInv(x)'
  BY SameIsKept DEF Store!IInv
<1> QED
  BY <1>1 DEF Store!IInv

\* A step that leaves the intents alone.
LEMMA IntentsStay ==
  ASSUME s1' = s1
  PROVE  /\ Store!OneIntentPerKey' <=> Store!OneIntentPerKey
         /\ \A x : /\ Store!HasIntent(x)' <=> Store!HasIntent(x)
                   /\ Store!IsStale(x)' <=> Store!IsStale(x)
BY DEF Store!OneIntentPerKey, Store!HasIntent, Store!IsStale

\* A submission keeps the invariant of the storage until it fails, times out or commits.
LEMMA SubmissionsKeep ==
  ASSUME Store!IInv, NEW k \in Keys,
         \/ Store!Begin(k) \/ Store!BeginFails(k) \/ Store!PutSucceeds(k)
         \/ Store!PutTimesOut(k) \/ Store!Rollback(k) \/ Store!Die(k) \/ Store!LatePut(k)
  PROVE  Store!IInv'
<1>1. s1' = s1 /\ s4' = s4 /\ s8' = s8 /\ s9' = s9
  BY DEF Store!Begin, Store!BeginFails, Store!PutSucceeds, Store!PutTimesOut, Store!Rollback,
     Store!Die, Store!LatePut
<1>2. /\ Store!OneIntentPerKey' /\ Store!KeyInv(k) /\ Store!StoreTypeOK
      /\ Store!HasIntent(k)' <=> Store!HasIntent(k)
      /\ Store!IsStale(k)' <=> Store!IsStale(k)
  BY <1>1, IntentsStay DEF Store!IInv
<1>3. \A x \in Keys : x # k => SameFor(x)
  <2> SUFFICES ASSUME NEW x \in Keys, x # k PROVE SameFor(x)
    OBVIOUS
  <2>1. /\ x \in s2' <=> x \in s2
        /\ x \in s3' <=> x \in s3
        /\ x \in s4' <=> x \in s4
        /\ x \in s6' <=> x \in s6
        /\ s5'[x] = s5[x] /\ s7'[x] = s7[x]
    BY <1>1, <1>2 DEF Store!Begin, Store!BeginFails, Store!PutSucceeds, Store!PutTimesOut,
       Store!Rollback, Store!Die, Store!LatePut, Store!At, Store!Lock, Store!StoreTypeOK
  <2> QED
    BY <1>1, <2>1, IntentsStay DEF SameFor
<1> DEFINE Goal == Store!StoreTypeOK' /\ Store!KeyInv(k)'
<1>4. ASSUME Store!Begin(k) PROVE Goal
  <2>1. Store!StoreTypeOK'
    BY <1>1, <1>2, <1>4 DEF Store!Begin, Store!At, Store!Lock, Store!StoreTypeOK, Store!Free
  <2>2. Store!KeyInv(k)'
    BY <1>1, <1>2, <1>4, MarksAreApart DEF Store!Begin, Store!At, Store!Lock, Store!Free,
         Store!StoreTypeOK, Store!KeyInv, Store!LocksAreHonoured, Store!WriteHasIntent,
         Store!GivenUpWriteIsFresh, Store!AccountedFor, Store!CleanUpLock
  <2> QED
    BY <2>1, <2>2
<1>5. ASSUME Store!BeginFails(k) PROVE Goal
  <2>1. Store!StoreTypeOK'
    BY <1>1, <1>2, <1>5 DEF Store!BeginFails, Store!At, Store!Lock, Store!StoreTypeOK, Store!Free
  <2>2. Store!KeyInv(k)'
    BY <1>1, <1>2, <1>5, MarksAreApart DEF Store!BeginFails, Store!At, Store!Lock, Store!Free,
         Store!StoreTypeOK, Store!KeyInv, Store!LocksAreHonoured, Store!WriteHasIntent,
         Store!GivenUpWriteIsFresh, Store!AccountedFor, Store!CleanUpLock
  <2> QED
    BY <2>1, <2>2
<1>6. ASSUME Store!PutSucceeds(k) PROVE Goal
  <2>1. Store!StoreTypeOK'
    BY <1>1, <1>2, <1>6 DEF Store!PutSucceeds, Store!At, Store!Lock, Store!StoreTypeOK, Store!Free
  <2>2. Store!KeyInv(k)'
    BY <1>1, <1>2, <1>6, MarksAreApart DEF Store!PutSucceeds, Store!At, Store!Lock, Store!Free,
         Store!StoreTypeOK, Store!KeyInv, Store!LocksAreHonoured, Store!WriteHasIntent,
         Store!GivenUpWriteIsFresh, Store!AccountedFor, Store!CleanUpLock
  <2> QED
    BY <2>1, <2>2
<1>7. ASSUME Store!PutTimesOut(k) PROVE Goal
  <2>1. Store!StoreTypeOK'
    BY <1>1, <1>2, <1>7 DEF Store!PutTimesOut, Store!At, Store!Lock, Store!StoreTypeOK, Store!Free
  <2>2. Store!KeyInv(k)'
    BY <1>1, <1>2, <1>7, MarksAreApart DEF Store!PutTimesOut, Store!At, Store!Lock, Store!Free,
         Store!StoreTypeOK, Store!KeyInv, Store!LocksAreHonoured, Store!WriteHasIntent,
         Store!GivenUpWriteIsFresh, Store!AccountedFor, Store!CleanUpLock
  <2> QED
    BY <2>1, <2>2
<1>8. ASSUME Store!Rollback(k) PROVE Goal
  <2>1. Store!StoreTypeOK'
    BY <1>1, <1>2, <1>8 DEF Store!Rollback, Store!At, Store!Lock, Store!StoreTypeOK, Store!Free
  <2>2. Store!KeyInv(k)'
    BY <1>1, <1>2, <1>8, MarksAreApart DEF Store!Rollback, Store!At, Store!Lock, Store!Free,
         Store!StoreTypeOK, Store!KeyInv, Store!LocksAreHonoured, Store!WriteHasIntent,
         Store!GivenUpWriteIsFresh, Store!AccountedFor, Store!CleanUpLock
  <2> QED
    BY <2>1, <2>2
<1>9. ASSUME Store!Die(k) PROVE Goal
  <2>1. Store!StoreTypeOK'
    BY <1>1, <1>2, <1>9 DEF Store!Die, Store!At, Store!Lock, Store!StoreTypeOK, Store!Free
  <2>2. Store!KeyInv(k)'
    BY <1>1, <1>2, <1>9, MarksAreApart DEF Store!Die, Store!At, Store!Lock, Store!Free,
         Store!StoreTypeOK, Store!KeyInv, Store!LocksAreHonoured, Store!WriteHasIntent,
         Store!GivenUpWriteIsFresh, Store!AccountedFor, Store!CleanUpLock
  <2> QED
    BY <2>1, <2>2
<1>10. ASSUME Store!LatePut(k) PROVE Goal
  <2>1. Store!StoreTypeOK'
    BY <1>1, <1>2, <1>10 DEF Store!LatePut, Store!At, Store!Lock, Store!StoreTypeOK, Store!Free
  <2>2. Store!KeyInv(k)'
    BY <1>1, <1>2, <1>10, MarksAreApart DEF Store!LatePut, Store!At, Store!Lock, Store!Free,
         Store!StoreTypeOK, Store!KeyInv, Store!LocksAreHonoured, Store!WriteHasIntent,
         Store!GivenUpWriteIsFresh, Store!AccountedFor, Store!CleanUpLock
  <2> QED
    BY <2>1, <2>2
<1> HIDE DEF Goal
<1>11. Goal
  BY <1>4, <1>5, <1>6, <1>7, <1>8, <1>9, <1>10
<1> QED
  BY <1>2, <1>3, <1>11, OneKeyMoves DEF Goal

\* A submission reserves its key before it writes.
LEMMA ReservationKeeps ==
  ASSUME Store!IInv, NEW k \in Keys, Store!Reserve(k)
  PROVE  Store!IInv'
<1>1. Store!KeyInv(k) /\ Store!StoreTypeOK /\ s1 \in Seq(Store!Intent) /\ Store!OneIntentPerKey
  BY DEF Store!IInv, Store!StoreTypeOK
<1>2. /\ s1' \in Seq(Store!Intent) /\ Store!OneIntentPerKey'
      /\ \A x \in Keys : /\ Store!HasIntent(x)' <=> x = k \/ Store!HasIntent(x)
                         /\ Store!IsStale(x)' <=> Store!IsStale(x)
  <2>1. s1' = Append(s1, [key |-> k, stale |-> FALSE]) /\ ~Store!HasIntent(k)
    BY <1>1 DEF Store!Reserve, Store!KeyInv, Store!WriteHasIntent
  <2>2. /\ \A i, j \in DOMAIN s1 : s1[i].key = s1[j].key => i = j
        /\ \A i \in DOMAIN s1 : s1[i].key # k
    BY <1>1, <2>1 DEF Store!OneIntentPerKey, Store!HasIntent
  <2>3. /\ s1' \in Seq(Store!Intent) /\ Store!OneIntentPerKey'
        /\ \A x \in Keys :
             /\ Store!HasIntent(x)' <=> x = k \/ \E i \in DOMAIN s1 : s1[i].key = x
             /\ Store!IsStale(x)' <=> \E i \in DOMAIN s1 : s1[i].key = x /\ s1[i].stale
    BY <1>1, <2>1, <2>2, IntentAppended
  <2>4. \A x : /\ Store!HasIntent(x) <=> \E i \in DOMAIN s1 : s1[i].key = x
               /\ Store!IsStale(x) <=> \E i \in DOMAIN s1 : s1[i].key = x /\ s1[i].stale
    BY DEF Store!HasIntent, Store!IsStale
  <2> QED
    BY <2>3, <2>4
<1>3. \A x \in Keys : x # k => SameFor(x)
  BY <1>1, <1>2 DEF Store!Reserve, Store!At, Store!Lock, Store!StoreTypeOK, SameFor
<1>4. Store!StoreTypeOK'
  BY <1>1, <1>2, MarksAreApart DEF Store!Reserve, Store!At, Store!Lock, Store!StoreTypeOK
<1>5. Store!KeyInv(k)'
  BY <1>1, <1>2, MarksAreApart DEF Store!Reserve, Store!At, Store!Lock, Store!StoreTypeOK,
     Store!KeyInv, Store!LocksAreHonoured, Store!WriteHasIntent,
     Store!GivenUpWriteIsFresh, Store!AccountedFor, Store!CleanUpLock
<1> QED
  BY <1>2, <1>3, <1>4, <1>5, OneKeyMoves

\* A commit removes the reservation of an object that a row now refers to.
LEMMA CommitKeeps ==
  ASSUME Store!IInv, NEW k \in Keys, Store!Commit(k)
  PROVE  Store!IInv'
<1>1. Store!KeyInv(k) /\ Store!StoreTypeOK /\ s1 \in Seq(Store!Intent) /\ Store!OneIntentPerKey
  BY DEF Store!IInv, Store!StoreTypeOK
<1>2. /\ s1' \in Seq(Store!Intent) /\ Store!OneIntentPerKey'
      /\ \A x \in Keys : /\ Store!HasIntent(x)' <=> x # k /\ Store!HasIntent(x)
                         /\ Store!IsStale(x)' <=> x # k /\ Store!IsStale(x)
  BY <1>1, IntentRemoved DEF Store!Commit
<1>3. \A x \in Keys : x # k => SameFor(x)
  BY <1>1, <1>2 DEF Store!Commit, Store!At, Store!Lock, Store!StoreTypeOK, SameFor
<1>4. Store!StoreTypeOK'
  BY <1>1, <1>2, MarksAreApart DEF Store!Commit, Store!At, Store!Lock, Store!StoreTypeOK
<1>5. Store!KeyInv(k)'
  BY <1>1, <1>2, MarksAreApart DEF Store!Commit, Store!At, Store!Lock, Store!StoreTypeOK,
     Store!KeyInv, Store!LocksAreHonoured, Store!WriteHasIntent,
     Store!GivenUpWriteIsFresh, Store!AccountedFor, Store!CleanUpLock
<1> QED
  BY <1>2, <1>3, <1>4, <1>5, OneKeyMoves

\* After a timeout the reservation is fresh again.
LEMMA KeepingKeeps ==
  ASSUME Store!IInv, NEW k \in Keys, Store!KeepForLater(k)
  PROVE  Store!IInv'
<1>1. Store!KeyInv(k) /\ Store!StoreTypeOK /\ s1 \in Seq(Store!Intent) /\ Store!OneIntentPerKey
  BY DEF Store!IInv, Store!StoreTypeOK
<1>2. /\ s1' \in Seq(Store!Intent) /\ Store!OneIntentPerKey'
      /\ \A x \in Keys : /\ Store!HasIntent(x)' <=> Store!HasIntent(x)
                         /\ Store!IsStale(x)' <=> x # k /\ Store!IsStale(x)
  BY <1>1, IntentTouched DEF Store!KeepForLater
<1>3. \A x \in Keys : x # k => SameFor(x)
  BY <1>1, <1>2 DEF Store!KeepForLater, Store!At, Store!Lock, Store!StoreTypeOK, SameFor
<1>4. Store!StoreTypeOK'
  BY <1>1, <1>2, MarksAreApart DEF Store!KeepForLater, Store!At, Store!Lock, Store!StoreTypeOK
<1>5. Store!KeyInv(k)'
  BY <1>1, <1>2, MarksAreApart DEF Store!KeepForLater, Store!At, Store!Lock, Store!StoreTypeOK,
     Store!KeyInv, Store!LocksAreHonoured, Store!WriteHasIntent,
     Store!GivenUpWriteIsFresh, Store!AccountedFor, Store!CleanUpLock
<1> QED
  BY <1>2, <1>3, <1>4, <1>5, OneKeyMoves

\* A compensation looks for the row under the lock.
LEMMA CompensationKeeps ==
  ASSUME Store!IInv, NEW k \in Keys, Store!Compensate(k)
  PROVE  Store!IInv'
<1>1. Store!KeyInv(k) /\ Store!StoreTypeOK /\ s1 \in Seq(Store!Intent) /\ Store!OneIntentPerKey
  BY DEF Store!IInv, Store!StoreTypeOK
<1>2. /\ s1' = s1 /\ Store!OneIntentPerKey'
      /\ \A x \in Keys : /\ Store!HasIntent(x)' <=> Store!HasIntent(x)
                         /\ Store!IsStale(x)' <=> Store!IsStale(x)
  BY <1>1, IntentsStay DEF Store!Compensate
<1>3. \A x \in Keys : x # k => SameFor(x)
  BY <1>1, <1>2 DEF Store!Compensate, Store!At, Store!Lock, Store!StoreTypeOK, SameFor, Store!LockAndLook
<1>4. Store!StoreTypeOK'
  BY <1>1, <1>2, MarksAreApart DEF Store!Compensate, Store!At, Store!Lock, Store!StoreTypeOK, Store!LockAndLook
<1>5. Store!KeyInv(k)'
  BY <1>1, <1>2, MarksAreApart DEF Store!Compensate, Store!At, Store!Lock, Store!StoreTypeOK,
     Store!KeyInv, Store!LocksAreHonoured, Store!WriteHasIntent,
     Store!GivenUpWriteIsFresh, Store!AccountedFor, Store!CleanUpLock, Store!LockAndLook
<1> QED
  BY <1>2, <1>3, <1>4, <1>5, OneKeyMoves

\* Who holds the lock of an intent removes an object that nothing refers to together with
\* the intent, or keeps both.
LEMMA CleanUpKeeps ==
  ASSUME Store!IInv, NEW k \in Keys, Store!CleanUpLock(k), Store!CleanUp(k),
         s3' = s3, s4' = s4, s5' = [s5 EXCEPT ![k] = "free"], s6' = s6 \ {k},
         s7' = s7 \/ s7' = [s7 EXCEPT ![k] = "ended"]
  PROVE  Store!IInv'
<1>1. Store!KeyInv(k) /\ Store!StoreTypeOK /\ s1 \in Seq(Store!Intent) /\ Store!OneIntentPerKey
  BY DEF Store!IInv, Store!StoreTypeOK
<1>2. /\ s1' \in Seq(Store!Intent) /\ Store!OneIntentPerKey'
      /\ \A x \in Keys : x # k => /\ Store!HasIntent(x)' <=> Store!HasIntent(x)
                                  /\ Store!IsStale(x)' <=> Store!IsStale(x)
      /\ Store!HasIntent(k)' => Store!HasIntent(k)
      /\ \/ k \in s4 /\ s2' = s2
         \/ k \notin s4 /\ s2' = s2 \ {k}
         \/ k \notin s4 /\ s2' = s2 /\ (Store!HasIntent(k)' <=> Store!HasIntent(k))
      /\ s9' \in 0 .. MaxFailures
  <2>1. k \in s4 <=> k \notin s6
    BY <1>1 DEF Store!KeyInv, Store!LocksAreHonoured
  <2>2. s9 \in 0 .. MaxFailures /\ (s9 < MaxFailures => s9 + 1 \in 0 .. MaxFailures)
    BY <1>1, StorageAssumption DEF Store!StoreTypeOK
  <2>3. CASE k \notin s6 /\ Store!Removed(k) /\ UNCHANGED <<s2, s9>>
    BY <1>1, <2>1, <2>2, <2>3, IntentRemoved
  <2>4. CASE k \in s6 /\ s2' = s2 \ {k} /\ Store!Removed(k) /\ UNCHANGED s9
    BY <1>1, <2>1, <2>2, <2>4, IntentRemoved
  <2>5. CASE /\ k \in s6 /\ s9 < MaxFailures /\ s9' = s9 + 1
             /\ Store!Touched(k) /\ UNCHANGED s2
    BY <1>1, <2>1, <2>2, <2>5, IntentTouched
  <2> QED
    BY <2>3, <2>4, <2>5 DEF Store!CleanUp
<1>3. /\ k \notin s3 /\ s7[k] \notin {"writing", "written"}
      /\ s5'[k] = "free" /\ ~Store!CleanUpLock(k)'
      /\ s7'[k] \in {s7[k], "ended"}
  BY <1>1, MarksAreApart DEF Store!CleanUpLock, Store!KeyInv, Store!GivenUpWriteIsFresh,
     Store!LocksAreHonoured, Store!StoreTypeOK
<1>4. \A x \in Keys : x # k => SameFor(x)
  BY <1>1, <1>2 DEF Store!StoreTypeOK, SameFor
<1>5. Store!StoreTypeOK'
  BY <1>1, <1>2, MarksAreApart DEF Store!StoreTypeOK
<1>6. Store!KeyInv(k)'
  BY <1>1, <1>2, <1>3, MarksAreApart DEF Store!KeyInv, Store!LocksAreHonoured,
     Store!WriteHasIntent, Store!GivenUpWriteIsFresh, Store!AccountedFor
<1> QED
  BY <1>2, <1>4, <1>5, <1>6, OneKeyMoves

\* A reconciliation takes an intent only while it is stale and nobody has it.
LEMMA TakingKeeps ==
  ASSUME Store!IInv, NEW c \in Cleaners, Store!Take(c)
  PROVE  Store!IInv'
<1>1. s1' = s1 /\ s2' = s2 /\ s3' = s3 /\ s4' = s4 /\ s7' = s7 /\ s9' = s9
  BY DEF Store!Take
<1>2. Store!StoreTypeOK /\ Store!OneIntentPerKey'
  BY <1>1, IntentsStay DEF Store!IInv
<1>3. CASE s5' = s5 /\ s6' = s6
  <2>1. \A x \in Keys : SameFor(x)
    BY <1>1, <1>3, IntentsStay DEF SameFor
  <2>2. Store!StoreTypeOK'
    BY <1>1, <1>2, <1>3 DEF Store!StoreTypeOK
  <2> QED
    BY <1>2, <2>1, <2>2, SameIsKept DEF Store!IInv
<1>4. ASSUME Store!IsStale(Store!Candidate(c)), s5[Store!Candidate(c)] = Store!Free,
             Store!LockAndLook(Store!Candidate(c), c)
      PROVE  Store!IInv'
  <2>1. PICK k \in Keys : k = Store!Candidate(c)
    <3>1. s1 \in Seq(Store!Intent)
      BY <1>2 DEF Store!StoreTypeOK
    <3>2. DOMAIN s1 = 1 .. Len(s1) /\ \A i \in 1 .. Len(s1) : s1[i] \in Store!Intent
      BY <3>1
    <3>3. \A i \in DOMAIN s1 : s1[i].key \in Keys
      BY <3>2 DEF Store!Intent
    <3> QED
      BY <1>4, <3>3 DEF Store!IsStale
  <2>2. Store!KeyInv(k) /\ k \notin s3
    BY <1>4, <2>1 DEF Store!IInv, Store!KeyInv, Store!GivenUpWriteIsFresh
  <2>3. /\ s5' = [s5 EXCEPT ![k] = c]
        /\ s6' = IF k \in s4 THEN s6 \ {k} ELSE s6 \cup {k}
        /\ s5[k] = "free"
    BY <1>4, <2>1, MarksAreApart DEF Store!LockAndLook, Store!Lock
  <2>4. \A x \in Keys : x # k => SameFor(x)
    BY <1>1, <1>2, <2>3, IntentsStay DEF SameFor, Store!StoreTypeOK
  <2>5. Store!StoreTypeOK'
    BY <1>1, <1>2, <2>1, <2>3 DEF Store!StoreTypeOK
  <2>6. Store!HasIntent(k)' <=> Store!HasIntent(k)
    BY <1>1, IntentsStay
  <2>7. s5'[k] = c /\ s7'[k] = s7[k]
    BY <1>1, <1>2, <2>1, <2>3 DEF Store!StoreTypeOK
  <2>8. Store!KeyInv(k)'
    BY <1>1, <2>1, <2>2, <2>3, <2>6, <2>7, MarksAreApart DEF Store!KeyInv,
       Store!LocksAreHonoured, Store!WriteHasIntent, Store!GivenUpWriteIsFresh,
       Store!AccountedFor, Store!CleanUpLock
  <2> QED
    BY <1>2, <2>1, <2>4, <2>5, <2>8, OneKeyMoves
<1> QED
  BY <1>3, <1>4 DEF Store!Take

\* When a cleaner dies, its locks go, and with them what it found out.
LEMMA CleanerDeathKeeps ==
  ASSUME Store!IInv, NEW c \in Cleaners, Store!CleanerDies(c)
  PROVE  Store!IInv'
<1>1. /\ s1' = s1 /\ s3' = s3 /\ s4' = s4 /\ s7' = s7 /\ s9' = s9 + 1 /\ s9 < MaxFailures
      /\ s6' = {k \in s6 : s5[k] # c}
      /\ s5' = [k \in Keys |-> IF s5[k] = c THEN "free" ELSE s5[k]]
      /\ \/ s2' = s2
         \/ \E k \in s6 : s5[k] = c /\ s2' = s2 \ {k}
  BY MarksAreApart DEF Store!CleanerDies
<1>2. Store!StoreTypeOK /\ Store!OneIntentPerKey'
  BY <1>1, IntentsStay DEF Store!IInv
<1>3. Store!StoreTypeOK'
  BY <1>1, <1>2, MarksAreApart, StorageAssumption DEF Store!StoreTypeOK
<1>4. ASSUME NEW x \in Keys PROVE Store!KeyInv(x)'
  <2>1. /\ Store!KeyInv(x)
        /\ Store!HasIntent(x)' <=> Store!HasIntent(x)
        /\ Store!IsStale(x)' <=> Store!IsStale(x)
    BY <1>1, IntentsStay DEF Store!IInv
  <2>2. x \notin s2 => x \notin s2'
    BY <1>1
  <2>3. CASE s5[x] = c
    <3>1. s5'[x] = "free" /\ x \notin s6' /\ s7'[x] = s7[x]
      BY <1>1, <2>3
    <3>2. x \in s4 => x \in s2'
      BY <1>1, <2>1, <2>3 DEF Store!IInv, Store!KeyInv, Store!LocksAreHonoured, Store!CleanUpLock,
         Store!AccountedFor, Store!StoreTypeOK
    <3>3. s7[x] \notin {"writing", "written"}
      BY <2>1, <2>3, MarksAreApart DEF Store!KeyInv, Store!LocksAreHonoured
    <3> QED
      BY <1>1, <2>1, <2>2, <2>3, <3>1, <3>2, <3>3, MarksAreApart DEF Store!KeyInv,
         Store!LocksAreHonoured, Store!WriteHasIntent, Store!GivenUpWriteIsFresh,
         Store!AccountedFor, Store!CleanUpLock
  <2>4. CASE s5[x] # c
    <3>1. /\ s5'[x] = s5[x] /\ s7'[x] = s7[x]
          /\ x \in s6' <=> x \in s6
          /\ x \in s2' <=> x \in s2
      BY <1>1, <2>4
    <3> QED
      BY <1>1, <2>1, <3>1, SameIsKept DEF SameFor
  <2> QED
    BY <2>3, <2>4
<1> QED
  BY <1>2, <1>3, <1>4 DEF Store!IInv

\* An intent grows stale only when no write can still arrive under its key.
LEMMA AgeKeeps ==
  ASSUME Store!IInv, Store!Age
  PROVE  Store!IInv'
<1>1. PICK i \in DOMAIN s1 :
        /\ ~s1[i].stale /\ s1[i].key \notin s3
        /\ s1' = [s1 EXCEPT ![i].stale = TRUE]
        /\ s2' = s2 /\ s3' = s3 /\ s4' = s4 /\ s5' = s5 /\ s6' = s6 /\ s7' = s7 /\ s9' = s9
  BY DEF Store!Age
<1>2. Store!StoreTypeOK /\ s1 \in Seq(Store!Intent) /\ s1[i] \in Store!Intent
  BY DEF Store!IInv, Store!StoreTypeOK
<1>3. /\ s1' \in Seq(Store!Intent) /\ DOMAIN s1' = DOMAIN s1
      /\ \A j \in DOMAIN s1 : /\ s1'[j].key = s1[j].key
                              /\ s1'[j].stale <=> j = i \/ s1[j].stale
  <2>1. /\ [s1[i] EXCEPT !.stale = TRUE] \in Store!Intent
        /\ [s1[i] EXCEPT !.stale = TRUE].key = s1[i].key
        /\ [s1[i] EXCEPT !.stale = TRUE].stale = TRUE
    BY <1>2 DEF Store!Intent
  <2>2. s1' = [s1 EXCEPT ![i] = [s1[i] EXCEPT !.stale = TRUE]]
    BY <1>1, <1>2
  <2>3. DOMAIN s1 = 1 .. Len(s1) /\ Len(s1) \in Nat
    BY <1>2
  <2>4. s1' \in Seq(Store!Intent) /\ DOMAIN s1' = DOMAIN s1
    BY <1>2, <2>1, <2>2, <2>3
  <2>5. s1'[i] = [s1[i] EXCEPT !.stale = TRUE] /\ \A j \in DOMAIN s1 : j # i => s1'[j] = s1[j]
    BY <1>2, <2>2
  <2> QED
    BY <2>1, <2>4, <2>5
<1>4. Store!OneIntentPerKey' /\ \A j \in DOMAIN s1 : s1[j].key = s1[i].key => j = i
  BY <1>3 DEF Store!IInv, Store!OneIntentPerKey
<1>5. PICK k \in Keys : k = s1[i].key /\ k \notin s3
  BY <1>1, <1>2 DEF Store!Intent
<1>6. \A x \in Keys : /\ Store!HasIntent(x)' <=> Store!HasIntent(x)
                      /\ x # k => (Store!IsStale(x)' <=> Store!IsStale(x))
  BY <1>3, <1>4, <1>5 DEF Store!HasIntent, Store!IsStale
<1>7. \A x \in Keys : x # k => SameFor(x)
  BY <1>1, <1>6 DEF SameFor
<1>8. Store!StoreTypeOK'
  BY <1>1, <1>2, <1>3 DEF Store!StoreTypeOK
<1>9. Store!KeyInv(k)'
  <2>1. Store!KeyInv(k)
    BY <1>5 DEF Store!IInv
  <2> QED
    BY <1>1, <1>5, <1>6, <2>1 DEF Store!KeyInv, Store!LocksAreHonoured, Store!WriteHasIntent,
       Store!GivenUpWriteIsFresh, Store!AccountedFor, Store!CleanUpLock
<1> QED
  BY <1>4, <1>5, <1>7, <1>8, <1>9, OneKeyMoves

\* Every step of the storage keeps its invariant.
LEMMA StoreKept ==
  ASSUME Store!IInv, Store!Next \/ UNCHANGED Store!vars
  PROVE  Store!IInv'
<1>1. ASSUME NEW k \in Keys, Store!FinishCompensation(k) PROVE Store!IInv'
  <2>1. /\ Store!CleanUpLock(k) /\ Store!CleanUp(k)
        /\ s3' = s3 /\ s4' = s4 /\ s5' = [s5 EXCEPT ![k] = "free"] /\ s6' = s6 \ {k}
        /\ s7' = [s7 EXCEPT ![k] = "ended"]
    BY <1>1, MarksAreApart DEF Store!FinishCompensation, Store!CleanUpLock, Store!Lock, Store!At
  <2> QED
    BY <2>1, CleanUpKeeps
<1>2. ASSUME NEW c \in Cleaners, NEW k \in Keys, Store!FinishCleanUp(c, k) PROVE Store!IInv'
  <2>1. /\ Store!CleanUpLock(k) /\ Store!CleanUp(k)
        /\ s3' = s3 /\ s4' = s4 /\ s5' = [s5 EXCEPT ![k] = "free"] /\ s6' = s6 \ {k}
        /\ s7' = s7
    BY <1>2, MarksAreApart DEF Store!FinishCleanUp, Store!CleanUpLock, Store!Lock
  <2> QED
    BY <2>1, CleanUpKeeps
<1>3. ASSUME NEW c \in Cleaners, Store!List(c) PROVE Store!IInv'
  BY <1>3, IntentsStay, SameIsKept DEF Store!List, Store!IInv, Store!StoreTypeOK, SameFor
<1>4. ASSUME UNCHANGED Store!vars PROVE Store!IInv'
  BY <1>4, IntentsStay, SameIsKept DEF Store!vars, Store!IInv, Store!StoreTypeOK, SameFor
<1>5. ASSUME NEW k \in Keys, Store!Submission(k) PROVE Store!IInv'
  BY <1>1, <1>5, SubmissionsKeep, CommitKeeps, KeepingKeeps, CompensationKeeps
     DEF Store!Submission
<1>6. ASSUME NEW k \in Keys, Store!Reserve(k) \/ Store!Die(k) \/ Store!LatePut(k)
      PROVE  Store!IInv'
  BY <1>6, SubmissionsKeep, ReservationKeeps
<1>7. ASSUME NEW c \in Cleaners, Store!Reconciliation(c) PROVE Store!IInv'
  BY <1>2, <1>3, <1>7, TakingKeeps DEF Store!Reconciliation
<1> QED
  BY <1>4, <1>5, <1>6, <1>7, CleanerDeathKeeps, AgeKeeps DEF Store!Next

\* What a reconciliation has left are keys.
TodoFits == s8 \in [Cleaners -> Seq(Keys)]

\* It lists keys of intents, and lets go of one after the other.
LEMMA TodoKept ==
  ASSUME Store!IInv, TodoFits, Store!Next \/ UNCHANGED Store!vars
  PROVE  TodoFits'
<1>1. CASE s8' = s8
  BY <1>1 DEF TodoFits
<1>2. ASSUME NEW c \in Cleaners, NEW t \in Seq(Keys), s8' = [s8 EXCEPT ![c] = t]
      PROVE  TodoFits'
  BY <1>2 DEF TodoFits
<1>3. ASSUME NEW c \in Cleaners, Store!List(c) PROVE TodoFits'
  <2>1. PICK n \in DOMAIN s1 : s8' = [s8 EXCEPT ![c] = Store!FirstKeys(n)]
    BY <1>3 DEF Store!List
  <2>2. s1 \in Seq(Store!Intent)
    BY DEF Store!IInv, Store!StoreTypeOK
  <2>3. DOMAIN s1 = 1 .. Len(s1) /\ Len(s1) \in Nat /\ \A i \in 1 .. Len(s1) : s1[i] \in Store!Intent
    BY <2>2
  <2>4. n \in Nat /\ \A i \in 1 .. n : s1[i].key \in Keys
    BY <2>3 DEF Store!Intent
  <2>5. Store!FirstKeys(n) \in Seq(Keys)
    BY <2>4 DEF Store!FirstKeys
  <2> QED
    BY <1>2, <2>1, <2>5
<1>4. ASSUME NEW c \in Cleaners, Store!Take(c) PROVE TodoFits'
  <2>1. s8' = [s8 EXCEPT ![c] = Tail(s8[c])] /\ s8[c] # <<>> /\ s8[c] \in Seq(Keys)
    BY <1>4 DEF Store!Take, Store!DropFirst, TodoFits
  <2>2. Tail(s8[c]) \in Seq(Keys)
    BY <2>1
  <2> QED
    BY <1>2, <2>1, <2>2
<1>5. ASSUME NEW c \in Cleaners, Store!CleanerDies(c) PROVE TodoFits'
  <2>1. s8' = [s8 EXCEPT ![c] = <<>>] /\ <<>> \in Seq(Keys)
    BY <1>5 DEF Store!CleanerDies
  <2> QED
    BY <1>2, <2>1
<1>6. ASSUME NEW k \in Keys,
             Store!Reserve(k) \/ Store!Submission(k) \/ Store!Die(k) \/ Store!LatePut(k)
      PROVE  s8' = s8
  BY <1>6 DEF Store!Reserve, Store!Submission, Store!Die, Store!LatePut, Store!Begin, Store!BeginFails,
     Store!PutSucceeds, Store!PutTimesOut, Store!Rollback, Store!Commit, Store!KeepForLater,
     Store!Compensate, Store!FinishCompensation
<1>7. ASSUME NEW c \in Cleaners, NEW k \in Keys, Store!FinishCleanUp(c, k) PROVE s8' = s8
  BY <1>7 DEF Store!FinishCleanUp
<1>8. (Store!Age \/ UNCHANGED Store!vars) => s8' = s8
  BY DEF Store!Age, Store!vars
<1> QED
  BY <1>1, <1>3, <1>4, <1>5, <1>6, <1>7, <1>8 DEF Store!Next, Store!Reconciliation

---------------------------------------------------------------------------
(* The protocols that move in other sums too: their invariants are proved   *)
(* there, for constants that include those they have here.                  *)

\* What moves there besides does not move here.
People == INSTANCE PeopleProofs WITH
  Calls <- {Worker}, Twins <- {}, Emails <- {1}, FirstEmail <- 1, MaxPassword <- 1,
  Accounts <- {1}, FirstOwner <- 1, Unverified <- {}, Factors <- {}, MaxStep <- 1,
  MaxChallenges <- 0, MaxSessions <- 0, MaxConfirmations <- 0, Nobody <- None, Codes <- {},
  MaxRows <- 0, Lifetime <- 0, Interval <- 0, MaxInterval <- 0, MfaWindow <- 0,
  MaxTime <- 0, MaxPolls <- 0, MaxActive <- 0, MaxEpoch <- 0, MaxPairs <- 1, Teams <- {},
  Policies <- {}, LockKinds <- {}, s12 <- 0

\* Likewise of the registry: its improvements and artifacts move here.
Registry == INSTANCE LibraryProofs WITH
  Requests <- {Worker, Other}, Twins <- Names, Reviewers <- {}, Versions <- {},
  Contents <- {}, MaxRevision <- 1, MaxCommit <- 0, MaxSnapshots <- 0, MaxCandidates <- 0,
  Releases <- {}, MaxAdoptions <- 0, MaxBindings <- 0, MaxPushes <- 0, MaxRenames <- 0,
  MaxFaults <- 1, MaxAbsences <- 1, MaxCalls <- 1, NoLock <- None

\* Sending mail is what it is among the people,
LEMMA MailIs ==
  /\ Mail!Init <=> People!Mail!Init
  /\ Mail!Next <=> People!Mail!Next
  /\ (UNCHANGED Mail!vars) <=> UNCHANGED People!Mail!vars
  /\ Mail!TypeOK <=> People!Mail!TypeOK
<1>1. Mail!Init <=> People!Mail!Init
  BY Zenon
     DEF Mail!Idle, Mail!Init, People!Mail!Idle, People!Mail!Init
<1>2. Mail!Next <=> People!Mail!Next
  BY Zenon
     DEF Mail!Active, Mail!Settled, Mail!Idle, Mail!ActiveIntents, Mail!Usable, Mail!Settle,
         Mail!Serving, Mail!Retired, Mail!Request, Mail!Claimable, Mail!Claim, Mail!GiveUp,
         Mail!HoldsLease, Mail!Goes, Mail!CheckRecipient, Mail!Send, Mail!Finished, Mail!Finish,
         Mail!Stop, Mail!Consume, Mail!ChangeAddress, Mail!Disable, Mail!TokenExpires,
         Mail!LeaseExpires, Mail!BecomesDue, Mail!Retain, Mail!Work, Mail!Next, People!Mail!Active,
         People!Mail!Settled, People!Mail!Idle, People!Mail!ActiveIntents, People!Mail!Usable,
         People!Mail!Settle, People!Mail!Serving, People!Mail!Retired, People!Mail!Request,
         People!Mail!Claimable, People!Mail!Claim, People!Mail!GiveUp, People!Mail!HoldsLease,
         People!Mail!Goes, People!Mail!CheckRecipient, People!Mail!Send, People!Mail!Finished,
         People!Mail!Finish, People!Mail!Stop, People!Mail!Consume, People!Mail!ChangeAddress,
         People!Mail!Disable, People!Mail!TokenExpires, People!Mail!LeaseExpires,
         People!Mail!BecomesDue, People!Mail!Retain, People!Mail!Work, People!Mail!Next
<1>3. (UNCHANGED Mail!vars) <=> UNCHANGED People!Mail!vars
  BY Zenon
     DEF Mail!vars, People!Mail!vars
<1>4. Mail!TypeOK <=> People!Mail!TypeOK
  BY Zenon
     DEF Mail!Addresses, Mail!Active, Mail!Settled, Mail!Outcomes, Mail!Idle, Mail!TypeOK,
         People!Mail!Addresses, People!Mail!Active, People!Mail!Settled, People!Mail!Outcomes,
         People!Mail!Idle, People!Mail!TypeOK
<1> QED
  BY <1>1, <1>2, <1>3, <1>4

\* checking a source what it is in the registry,
LEMMA CheckIs ==
  /\ Check!Init <=> Registry!Check!Init
  /\ Check!Next <=> Registry!Check!Next
  /\ (UNCHANGED Check!vars) <=> UNCHANGED Registry!Check!vars
  /\ Check!TypeOK <=> Registry!Check!TypeOK
<1>1. Check!Init <=> Registry!Check!Init
  BY Zenon
     DEF Check!Free, Check!Nobody, Check!Idle, Check!Init, Registry!Check!Free,
         Registry!Check!Nobody, Registry!Check!Idle, Registry!Check!Init
<1>2. Check!Next <=> Registry!Check!Next
  BY Zenon
     DEF Check!Free, Check!Nobody, Check!Review, Check!Idle, Check!Active, Check!Holds,
         Check!Fenced, Check!Renewable, Check!Available, Check!Release, Check!Scheduled,
         Check!CommitOf, Check!Reusable, Check!May, Check!Goto, Check!Done, Check!Start,
         Check!Claimable, Check!Claim, Check!CheckNow, Check!LeaseLost, Check!Unauthorized,
         Check!NextPhase, Check!SnapshotFor, Check!Begin, Check!Marked, Check!MarkIdentityChange,
         Check!Renew, Check!Insert, Check!Store, Check!Announce, Check!Succeeded, Check!Failed,
         Check!FinishCheck, Check!FailCheck, Check!PauseUnauthorizedTracking, Check!Die,
         Check!DiscoveryWriter, Check!Discover, Check!Capture, Check!LookAtEntry,
         Check!EditedHealth, Check!UpdateTracking, Check!RemoveEntry, Check!Push, Check!Rename,
         Check!CuratorChanges, Check!Orphaned, Check!LeaseLapses, Check!CheckIsDue, Check!Phase,
         Check!Next, Check!Last, Registry!Check!Free, Registry!Check!Nobody, Registry!Check!Review,
         Registry!Check!Idle, Registry!Check!Active, Registry!Check!Holds, Registry!Check!Fenced,
         Registry!Check!Renewable, Registry!Check!Available, Registry!Check!Release,
         Registry!Check!Scheduled, Registry!Check!CommitOf, Registry!Check!Reusable,
         Registry!Check!May, Registry!Check!Goto, Registry!Check!Done, Registry!Check!Start,
         Registry!Check!Claimable, Registry!Check!Claim, Registry!Check!CheckNow,
         Registry!Check!LeaseLost, Registry!Check!Unauthorized, Registry!Check!NextPhase,
         Registry!Check!SnapshotFor, Registry!Check!Begin, Registry!Check!Marked,
         Registry!Check!MarkIdentityChange, Registry!Check!Renew, Registry!Check!Insert,
         Registry!Check!Store, Registry!Check!Announce, Registry!Check!Succeeded,
         Registry!Check!Failed, Registry!Check!FinishCheck, Registry!Check!FailCheck,
         Registry!Check!PauseUnauthorizedTracking, Registry!Check!Die,
         Registry!Check!DiscoveryWriter, Registry!Check!Discover, Registry!Check!Capture,
         Registry!Check!LookAtEntry, Registry!Check!EditedHealth, Registry!Check!UpdateTracking,
         Registry!Check!RemoveEntry, Registry!Check!Push, Registry!Check!Rename,
         Registry!Check!CuratorChanges, Registry!Check!Orphaned, Registry!Check!LeaseLapses,
         Registry!Check!CheckIsDue, Registry!Check!Phase, Registry!Check!Next, Registry!Check!Last
<1>3. (UNCHANGED Check!vars) <=> UNCHANGED Registry!Check!vars
  BY Zenon
     DEF Check!vars, Registry!Check!vars
<1>4. Check!TypeOK <=> Registry!Check!TypeOK
  BY Zenon
     DEF Check!Free, Check!Nobody, Check!Review, Check!Healths, Check!TypeOK, Registry!Check!Free,
         Registry!Check!Nobody, Registry!Check!Review, Registry!Check!Healths,
         Registry!Check!TypeOK
<1> QED
  BY <1>1, <1>2, <1>3, <1>4

\* so is locking a root,
LEMMA RootIs ==
  /\ Root!Init <=> Registry!Root!Init
  /\ Root!Next <=> Registry!Root!Next
  /\ (UNCHANGED Root!vars) <=> UNCHANGED Registry!Root!vars
  /\ Root!TypeOK <=> Registry!Root!TypeOK
<1>1. Root!Init <=> Registry!Root!Init
  BY Zenon
     DEF Root!Nobody, Root!Init, Registry!Root!Nobody, Registry!Root!Init
<1>2. Root!Next <=> Registry!Root!Next
  BY Zenon
     DEF Root!Nobody, Root!Outside, Root!Exists, Root!Me, Root!OwnerRead, Root!Unreadable,
         Root!ProcessExists, Root!Goto, Root!Begin, Root!MakeLock, Root!CreateOwner,
         Root!WriteOwner, Root!UndoLock, Root!RemoveUndone, Root!Removing, Root!Reaps,
         Root!ReadOwner, Root!ClaimReaping, Root!RereadOwner, Root!Unclaim, Root!Retry, Root!GiveUp, Root!LeaveWork, Root!Release, Root!Entries,
         Root!ListEntries, Root!UnlinkEntry, Root!RemoveLock, Root!Die, Root!Step, Root!Next,
         Registry!Root!Nobody, Registry!Root!Outside, Registry!Root!Exists, Registry!Root!Me,
         Registry!Root!OwnerRead, Registry!Root!Unreadable, Registry!Root!ProcessExists,
         Registry!Root!Goto, Registry!Root!Begin, Registry!Root!MakeLock,
         Registry!Root!CreateOwner, Registry!Root!WriteOwner, Registry!Root!UndoLock,
         Registry!Root!RemoveUndone, Registry!Root!Removing, Registry!Root!Reaps,
         Registry!Root!ReadOwner, Registry!Root!ClaimReaping, Registry!Root!RereadOwner,
         Registry!Root!Unclaim, Registry!Root!Retry, Registry!Root!GiveUp, Registry!Root!LeaveWork,
         Registry!Root!Release, Registry!Root!Entries, Registry!Root!ListEntries,
         Registry!Root!UnlinkEntry, Registry!Root!RemoveLock, Registry!Root!Die,
         Registry!Root!Step, Registry!Root!Next
<1>3. (UNCHANGED Root!vars) <=> UNCHANGED Registry!Root!vars
  BY Zenon
     DEF Root!vars, Registry!Root!vars
<1>4. Root!TypeOK <=> Registry!Root!TypeOK
  BY Zenon
     DEF Root!Calls, Root!Nobody, Root!LockDirs, Root!Outside, Root!Contending, Root!Holding,
         Root!Removing, Root!Steps, Root!TypeOK, Registry!Root!Calls, Registry!Root!Nobody,
         Registry!Root!LockDirs, Registry!Root!Outside, Registry!Root!Contending,
         Registry!Root!Holding, Registry!Root!Removing, Registry!Root!Steps, Registry!Root!TypeOK
<1> QED
  BY <1>1, <1>2, <1>3, <1>4

\* and working on what is installed under it.
LEMMA InstallIs ==
  /\ Install!Init <=> Registry!Install!Init
  /\ Install!Next <=> Registry!Install!Next
  /\ (UNCHANGED Install!vars) <=> UNCHANGED Registry!Install!vars
  /\ Install!TypeOK <=> Registry!Install!TypeOK
<1>1. Install!Init <=> Registry!Install!Init
  BY Zenon
     DEF Install!TxIds, Install!Init, Registry!Install!TxIds, Registry!Install!Init
<1>2. Install!Next <=> Registry!Install!Next
  BY Zenon
     DEF Install!trees, Install!Packages, Install!TxIds, Install!At, Install!Go, Install!Reach,
         Install!Previous, Install!Target, Install!Updating, Install!Aside, Install!Shrunk,
         Install!Begin, Install!Leave, Install!Prepare, Install!NoDrift, Install!Eligible,
         Install!PrepareInstall, Install!PrepareRollback, Install!MoveAside, Install!Note,
         Install!NoteMoved, Install!CheckpointFails, Install!Promote, Install!NoteInstalled,
         Install!Snapshot, Install!Candidate, Install!Commit, Install!Rest, Install!NoteCommitted,
         Install!CandidateCommitted, Install!PreviousAtOutput, Install!Refused,
         Install!NothingToRecover, Install!Refuse, Install!KeepCandidate, Install!KeepPrevious,
         Install!RemoveCandidate, Install!ClearRest, Install!PutBack, Install!ResetRegistry,
         Install!Drop, Install!DropSpare, Install!DropSnapshot, Install!DropSource,
         Install!DropJournal, Install!Stop, Install!Throw, Install!UserEdits, Install!Enroll,
         Install!Recovery, Install!Transaction, Install!Removals, Install!Command, Install!Next,
         Install!Front, Install!Last, Registry!Install!trees, Registry!Install!Packages,
         Registry!Install!TxIds, Registry!Install!At, Registry!Install!Go, Registry!Install!Reach,
         Registry!Install!Previous, Registry!Install!Target, Registry!Install!Updating,
         Registry!Install!Aside, Registry!Install!Shrunk, Registry!Install!Begin,
         Registry!Install!Leave, Registry!Install!Prepare, Registry!Install!NoDrift,
         Registry!Install!Eligible, Registry!Install!PrepareInstall,
         Registry!Install!PrepareRollback, Registry!Install!MoveAside, Registry!Install!Note,
         Registry!Install!NoteMoved, Registry!Install!CheckpointFails, Registry!Install!Promote,
         Registry!Install!NoteInstalled, Registry!Install!Snapshot, Registry!Install!Candidate,
         Registry!Install!Commit, Registry!Install!Rest, Registry!Install!NoteCommitted,
         Registry!Install!CandidateCommitted, Registry!Install!PreviousAtOutput,
         Registry!Install!Refused, Registry!Install!NothingToRecover, Registry!Install!Refuse,
         Registry!Install!KeepCandidate, Registry!Install!KeepPrevious,
         Registry!Install!RemoveCandidate, Registry!Install!ClearRest, Registry!Install!PutBack,
         Registry!Install!ResetRegistry, Registry!Install!Drop, Registry!Install!DropSpare,
         Registry!Install!DropSnapshot, Registry!Install!DropSource, Registry!Install!DropJournal,
         Registry!Install!Stop, Registry!Install!Throw, Registry!Install!UserEdits,
         Registry!Install!Enroll, Registry!Install!Recovery, Registry!Install!Transaction,
         Registry!Install!Removals, Registry!Install!Command, Registry!Install!Next,
         Registry!Install!Front, Registry!Install!Last
<1>3. (UNCHANGED Install!vars) <=> UNCHANGED Registry!Install!vars
  BY Zenon
     DEF Install!vars, Registry!Install!vars
<1>4. Install!TypeOK <=> Registry!Install!TypeOK
  BY Zenon
     DEF Install!Packages, Install!Trees, Install!TxIds, Install!Snapshots, Install!Entries,
         Install!Journals, Install!Points, Install!TypeOK, Registry!Install!Packages,
         Registry!Install!Trees, Registry!Install!TxIds, Registry!Install!Snapshots,
         Registry!Install!Entries, Registry!Install!Journals, Registry!Install!Points,
         Registry!Install!TypeOK
<1> QED
  BY <1>1, <1>2, <1>3, <1>4

\* Companions may poll for two operations.
LEMMA QueueFits ==
  /\ {1, 2} \subseteq Nat \ {0} /\ None \notin {Worker}
  /\ 1 \in Nat /\ 2 \in Nat \ {0} /\ 1 \in Nat \ {0} /\ 2 \in Nat /\ 0 \in Nat
  /\ {} \subseteq {"granted", "denied", "revoked"}
  /\ {} \subseteq {"allows", "outside-window", "blocks"} /\ FALSE \in BOOLEAN
BY NobodyAssumption

\* The queue starts in its invariant and stays in it.
LEMMA QueueSound ==
  /\ Queue!Init => Queue!IInv
  /\ Queue!IInv /\ [Queue!Next]_Queue!vars => Queue!IInv'
BY QueueFits, Queue!InitIInv, Queue!NextIInv, Queue!OpsAssumption, Queue!HolderAssumption,
   Queue!BoundsAssumption, Queue!EnvironmentAssumption

\* There are people enough for the outbox.
LEMMA PeopleFit ==
  /\ People!TenancyAssumption!: /\ People!ConnectionAssumption!:
  /\ People!AccountAssumption!: /\ People!SignInAssumption!: /\ People!DeviceAssumption!:
<1>1. People!IsFiniteSet({})
  <2>1. <<>> \in Seq({}) /\ \A s \in {} : \E n \in 1 .. Len(<<>>) : <<>>[n] = s
    OBVIOUS
  <2> QED
    BY <2>1, Zenon DEF People!IsFiniteSet
<1> QED
  BY <1>1, NobodyAssumption, ScanAssumption

\* The outbox starts in its invariant and stays in it.
LEMMA MailSound ==
  /\ Mail!Init => People!Mail!IInv
  /\ People!Mail!IInv /\ (Mail!Next \/ UNCHANGED Mail!vars) => People!Mail!IInv'
  /\ People!Mail!IInv => Mail!TypeOK
BY MailIs, PeopleFit, People!MailInit, People!MailMoves DEF People!Mail!IInv

\* There is enough of the registry for the rest.
LEMMA RegistryFits ==
  /\ Registry!DraftAssumption!: /\ Registry!LibraryAssumption!:
  /\ Registry!RootAssumption!: /\ Registry!InstallAssumption!:
<1>1. Check!Free = Registry!Check!Free /\ Check!Nobody = Registry!Check!Nobody
  BY DEF Check!Free, Registry!Check!Free, Check!Nobody, Registry!Check!Nobody
<1>2. Root!LockDirs = Registry!Root!LockDirs
  BY Zenon
     DEF Root!Calls, Registry!Root!Calls, Root!Nobody, Registry!Root!Nobody, Root!LockDirs,
         Registry!Root!LockDirs
<1>3. /\ Install!Entries = Registry!Install!Entries
      /\ Install!Journals = Registry!Install!Journals
      /\ Install!Packages = Registry!Install!Packages
  BY Zenon
     DEF Install!Packages, Registry!Install!Packages, Install!TxIds, Registry!Install!TxIds,
         Install!Snapshots, Registry!Install!Snapshots, Install!Entries, Registry!Install!Entries,
         Install!Journals, Registry!Install!Journals
<1>4. DOMAIN BytesOf \subseteq Nat
  BY DEF BytesOf
<1> QED
  BY <1>1, <1>2, <1>3, <1>4, NobodyAssumption, CheckAssumption, InstallAssumption

\* Checks are in their invariant,
LEMMA CheckSound ==
  /\ Check!Init => Registry!Check!IInv
  /\ Registry!Check!IInv /\ (Check!Next \/ UNCHANGED Check!vars) => Registry!Check!IInv'
  /\ Registry!Check!IInv => Check!TypeOK
<1>1. Registry!Check!IInv => Registry!Check!TypeOK
  BY DEF Registry!Check!IInv, Registry!Check!EntryFits, Registry!Check!EntryRow,
         Registry!Check!CallFits, Registry!Check!CallRow, Registry!Check!TypeOK
<1> QED
  BY <1>1, CheckIs, RegistryFits, Registry!CheckInit, Registry!CheckKept DEF Registry!CheckGoal

\* the lock of a root is,
LEMMA RootSound ==
  /\ Root!Init => Registry!Root!IInv
  /\ Registry!Root!IInv /\ (Root!Next \/ UNCHANGED Root!vars) => Registry!Root!IInv'
  /\ Registry!Root!IInv => Root!TypeOK
BY RootIs, RegistryFits, Registry!RootInit, Registry!RootKept DEF Registry!Root!IInv

\* and so are the transactions under it.
LEMMA InstallSound ==
  /\ Install!Init => Registry!Install!IInv
  /\ Registry!Install!IInv /\ (Install!Next \/ UNCHANGED Install!vars) => Registry!Install!IInv'
  /\ Registry!Install!IInv => Install!TypeOK
BY InstallIs, RegistryFits, Registry!InstallInit, Registry!InstallKept
   DEF Registry!InstallGoal, Registry!Install!IInv

---------------------------------------------------------------------------
(* The theorems.  What the protocols that move keep, the others keep too,  *)
(* since they rest.                                                        *)

\* The invariants of the protocols, for the time each moves.
ProgressInv ==
  /\ part \in {"queue", "artifacts", "scans", "outbox", "checks", "root", "install"}
  /\ part = "queue" => Queue!IInv
  /\ part = "artifacts" => Store!IInv /\ TodoFits
  /\ part = "scans" => Scan!IInv
  /\ part = "outbox" => People!Mail!IInv
  /\ part = "checks" => Registry!Check!IInv
  /\ part = "root" => Registry!Root!IInv
  /\ part = "install" => Registry!Install!IInv

\* A step is one of the protocol that moves.
LEMMA ProgressSteps ==
  ASSUME [Next]_vars
  PROVE  /\ part' = part
         /\ part = "queue" => [Queue!Next]_Queue!vars
         /\ part = "outbox" => Mail!Next \/ UNCHANGED Mail!vars
         /\ part = "checks" => Check!Next \/ UNCHANGED Check!vars
         /\ part = "root" => Root!Next \/ UNCHANGED Root!vars
         /\ part = "install" => Install!Next \/ UNCHANGED Install!vars
BY DEF Next, vars, Queueing, Storing, Scanning, Mailing, Checking, RootLocking, Installing,
       Queue!vars, Mail!vars, Check!vars, Root!vars,
       Install!vars, Install!trees

\* They hold from the start on.
LEMMA ProgressInvHolds == Spec => []ProgressInv
<1>1. Store!Init => TodoFits
  BY DEF Store!Init, TodoFits
<1>2. Init => ProgressInv
  BY <1>1, QueueSound, ScanInit, StoreInit, MailSound, CheckSound, RootSound, InstallSound
     DEF Init, ProgressInv
<1>3. ProgressInv /\ [Next]_vars => ProgressInv'
  <2> SUFFICES ASSUME ProgressInv, [Next]_vars PROVE ProgressInv'
    OBVIOUS
  <2>1. part' = part
    BY ProgressSteps
  <2>2. CASE part = "queue"
    BY <2>1, <2>2, ProgressSteps, QueueSound DEF ProgressInv
  <2>3. CASE part = "artifacts"
    BY <2>1, <2>3, StoreSteps, StoreKept, TodoKept DEF ProgressInv
  <2>4. CASE part = "scans"
    BY <2>1, <2>4, ScanSteps, ScansKept DEF ProgressInv
  <2>5. CASE part = "outbox"
    BY <2>1, <2>5, ProgressSteps, MailSound DEF ProgressInv
  <2>6. CASE part = "checks"
    BY <2>1, <2>6, ProgressSteps, CheckSound DEF ProgressInv
  <2>7. CASE part = "root"
    BY <2>1, <2>7, ProgressSteps, RootSound DEF ProgressInv
  <2>8. CASE part = "install"
    BY <2>1, <2>8, ProgressSteps, InstallSound DEF ProgressInv
  <2> QED
    BY <2>2, <2>3, <2>4, <2>5, <2>6, <2>7, <2>8 DEF ProgressInv
<1> QED
  BY <1>2, <1>3, PTL DEF Spec

\* Whatever fails, dies, times out or arrives late, and however reconciliations overlap the
\* submissions: the object of a committed artifact stays stored, and an object nothing
\* refers to, arrived or not, has an intent that leads to it.
THEOREM ObjectsStayAccountedFor == Spec => []ObjectsAreAccountedFor
<1>1. ProgressInv => ObjectsAreAccountedFor
  <2> SUFFICES ASSUME Store!IInv PROVE Store!CommittedIsStored /\ Store!OrphansAreRemembered
    BY DEF ProgressInv, ObjectsAreAccountedFor
  <2> QED
    BY DEF Store!IInv, Store!KeyInv, Store!AccountedFor, Store!CommittedIsStored,
       Store!OrphansAreRemembered, Store!StoreTypeOK
<1> QED
  BY <1>1, ProgressInvHolds, PTL

\* However many workers scan and whenever their leases run out or they die, a version
\* passes only on the evidence of a run that finished under its lease and found nothing,
\* and runs are open only while their job is at work on them.
THEOREM VerdictsStayEvidenced == Spec => []VerdictsAreEvidenced
<1>1. ProgressInv => VerdictsAreEvidenced
  BY DEF ProgressInv, VerdictsAreEvidenced, Scan!IInv
<1> QED
  BY <1>1, ProgressInvHolds, PTL

\* No retry, late worker or exhaustion of the attempts replaces a verdict.
THEOREM VerdictsStayFinal == Spec => VerdictIsFinal
<1>1. ProgressInv /\ [Next]_vars => (part = "scans" => Scan!VerdictIsFinalStep)
  BY ScanSteps, ScansKept DEF ProgressInv, Scan!VerdictIsFinalStep
<1> QED
  BY <1>1, ProgressInvHolds, PTL DEF Spec, VerdictIsFinal

\* Every protocol keeps its variables in their types.
THEOREM ProgressTypes == Spec => []TypesOK
<1>1. Queue!IInv => Queue!TypeOK
  BY DEF Queue!IInv, Queue!TypeInv
<1>2. Store!IInv /\ TodoFits => Store!TypeOK
  BY DEF Store!IInv, Store!TypeOK, TodoFits
<1>3. Scan!IInv => Scan!TypeOK
  BY DEF Scan!IInv
<1>4. ProgressInv => TypesOK
  BY <1>1, <1>2, <1>3, MailSound, CheckSound, RootSound, InstallSound DEF ProgressInv, TypesOK
<1> QED
  BY <1>4, ProgressInvHolds, PTL

=============================================================================
