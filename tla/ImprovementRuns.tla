--------------------------- MODULE ImprovementRuns ---------------------------
(***************************************************************************)
(* The runs of one improvement plan (apps/api/src/improvements/service.ts, *)
(* postgres-store.ts; packages/core/src/improvement-run.ts).  A runner on  *)
(* the user's machine reports numbered events; the service reads the run,  *)
(* checks event and plan against that reading, and stores the event with   *)
(* the progress it computed under the version it has read.  Answers get    *)
(* lost and events are sent again.  Meanwhile the plan expires or loses    *)
(* its standing, the run is cancelled, and other attempts are made.        *)
(* Not modelled: bindings of digests (one tree, one suite), disclosure,    *)
(* capabilities, evidence, audit.                                          *)
(***************************************************************************)
EXTENDS Naturals, Sequences, SequencesExt

CONSTANTS
  Calls,        \* concurrent requests
  Keys,         \* idempotency keys of createRun
  Events,       \* events runners report in this instance
  MaxAttempts,  \* policy.maxAttempts of the plan
  HasSuite,     \* the plan has a suite to evaluate with
  HasIdentity   \* the plan names the release a candidate would become

VARIABLES
  expired,   \* the plan's time is over
  standing,  \* what recheckPlan says of it now
  runs,      \* rows of improvement_runs; the position is the attempt
  journal,   \* per run, its improvement_run_events
  call,      \* what each request has read and is about to store
  acked      \* events answered for: <<run, sequence, event>>

vars == <<expired, standing, runs, journal, call, acked>>

Standings == {"valid", "stale", "blocked", "revoked"}
Stopped == {"failed", "cancelled", "expired"}
Idle == [at |-> "idle"]

---------------------------------------------------------------------------
(* applyImprovementRunEvent                                                *)

Rank == [analyze |-> 1, propose |-> 2, evaluate |-> 3]

Fresh == [state |-> "running", open |-> "none", done |-> {}, candidate |-> FALSE, evals |-> {}]

\* The stage that was completed last.
LastDone(p, s) == s \in p.done /\ \A t \in p.done : Rank[t] <= Rank[s]

StartAllowed(p, s) ==
  /\ p.open = "none"
  /\ p.done = {} => s = "analyze"
  /\ \A t \in p.done : Rank[t] < Rank[s]
  /\ s = "evaluate" => HasSuite

FreezeAllowed(p) ==
  /\ HasIdentity /\ ~p.candidate
  /\ p.open = "propose" \/ (p.open = "none" /\ LastDone(p, "propose"))

EvaluationAllowed(p, subject) ==
  /\ p.open = "evaluate" /\ subject \notin p.evals
  /\ subject = "candidate" => p.candidate

CompletionAllowed(p, disposition) ==
  /\ p.open = "none" /\ "analyze" \in p.done
  /\ disposition = "candidate" => p.candidate

Allowed(p, e) ==
  /\ p.state = "running"
  /\ \/ e.type = "stage.started" /\ StartAllowed(p, e.of)
     \/ e.type = "stage.completed" /\ p.open = e.of
     \/ e.type = "candidate.frozen" /\ FreezeAllowed(p)
     \/ e.type = "evaluation.recorded" /\ EvaluationAllowed(p, e.of)
     \/ e.type = "run.completed" /\ CompletionAllowed(p, e.of)
     \/ e.type = "run.failed"

Applied(p, e) ==
  CASE e.type = "stage.started" -> [p EXCEPT !.open = e.of]
    [] e.type = "stage.completed" -> [p EXCEPT !.open = "none", !.done = @ \cup {e.of}]
    [] e.type = "candidate.frozen" -> [p EXCEPT !.candidate = TRUE]
    [] e.type = "evaluation.recorded" -> [p EXCEPT !.evals = @ \cup {e.of}]
    [] e.type = "run.completed" -> [p EXCEPT !.state = "completed"]
    [] e.type = "run.failed" -> [p EXCEPT !.state = "failed", !.open = "none"]

\* What terminate makes of a run's progress.
Ended(p, state) == [p EXCEPT !.state = state, !.open = "none"]

---------------------------------------------------------------------------
Init ==
  /\ expired = FALSE
  /\ standing = "valid"
  /\ runs = <<>>
  /\ journal = <<>>
  /\ call = [c \in Calls |-> Idle]
  /\ acked = {}

State(r) == runs[r].progress.state
Done(c) == call' = [call EXCEPT ![c] = Idle]
plan == <<expired, standing>>

\* createRun lists the attempts and rechecks the plan; the key is new.
BeginRun(c, k) ==
  /\ call[c] = Idle
  /\ ~expired /\ standing = "valid"
  /\ \A r \in DOMAIN runs : runs[r].key # k /\ State(r) \in Stopped
  /\ Len(runs) < MaxAttempts
  /\ call' = [call EXCEPT ![c] = [at |-> "create", key |-> k, attempt |-> Len(runs) + 1]]
  /\ UNCHANGED <<plan, runs, journal, acked>>

\* Faulty: looks for an active run only.
NoneIsActive(attempt) == \A r \in DOMAIN runs : State(r) # "running"

\* Under the lock of the plan: no attempt is running, and nobody has made this
\* attempt meanwhile.
AttemptIsFree(attempt) ==
  /\ \A r \in DOMAIN runs : State(r) # "running"
  /\ attempt \notin DOMAIN runs

\* The store's createRun; the key may have been used meanwhile, too.
CreateRun(c) ==
  /\ call[c].at = "create"
  /\ IF AttemptIsFree(call[c].attempt) /\ \A r \in DOMAIN runs : runs[r].key # call[c].key
       THEN /\ runs' = Append(runs, [key |-> call[c].key, version |-> 1, last |-> 0, progress |-> Fresh])
            /\ journal' = Append(journal, <<>>)
       ELSE UNCHANGED <<runs, journal>>
  /\ Done(c)
  /\ UNCHANGED <<plan, acked>>

\* Faulty: answers for whatever has the number.
IsRecordedNumber(r, n, e) == n \in DOMAIN journal[r]

\* replayedEvent: the number is taken, by the same event.
IsRecorded(r, n, e) == n \in DOMAIN journal[r] /\ journal[r][n] = e

\* An event that is sent again is answered as it was the first time.
ReplayEvent(r, n, e) ==
  /\ n <= runs[r].last /\ IsRecorded(r, n, e)
  /\ acked' = acked \cup {<<r, n, e>>}
  /\ UNCHANGED <<plan, runs, journal, call>>

\* appendRunEvent reads the run.
ReadRun(c, r, e) ==
  /\ call[c] = Idle
  /\ State(r) = "running"
  /\ call' = [call EXCEPT ![c] = [at |-> "check", run |-> r, event |-> e, version |-> runs[r].version,
                                  n |-> runs[r].last + 1, progress |-> runs[r].progress]]
  /\ UNCHANGED <<plan, runs, journal, acked>>

\* A request is about to store the progress it computed.
WillStore(c, at, p) == call' = [call EXCEPT ![c] = [@ EXCEPT !.at = at, !.progress = p]]

\* It compares with newer attempts, the plan's time and standing, and the
\* stages of the run it has read.
CheckEvent(c) ==
  /\ call[c].at = "check"
  /\ LET e == call[c].event
         p == call[c].progress
     IN  \/ call[c].run < Len(runs) /\ Done(c)
         \/ /\ call[c].run = Len(runs)
            /\ \/ expired /\ WillStore(c, "stop", Ended(p, "expired"))
               \/ /\ ~expired /\ e.type = "stage.started" /\ standing # "valid"
                  /\ WillStore(c, "stop", Ended(p, "failed"))
               \/ /\ ~expired /\ (e.type = "stage.started" => standing = "valid")
                  /\ IF Allowed(p, e) THEN WillStore(c, "append", Applied(p, e)) ELSE Done(c)
  /\ UNCHANGED <<plan, runs, journal, acked>>

\* Faulty: any running run is taken for the one that was read.
IsRunning(r, version) == State(r) = "running"

\* lockRunVersion, and the trigger that keeps terminal rows.
IsCurrent(r, version) == runs[r].version = version /\ State(r) = "running"

Stored(r, last, p) ==
  runs' = [runs EXCEPT ![r] = [key |-> runs[r].key, version |-> runs[r].version + 1, last |-> last,
                               progress |-> p]]

\* The store's appendRunEvent; after a conflict the request looks whether the
\* same event was stored by another one.
AppendRunEvent(c) ==
  /\ call[c].at = "append"
  /\ LET r == call[c].run
         n == call[c].n
         e == call[c].event
     IN  IF IsCurrent(r, call[c].version) /\ n \notin DOMAIN journal[r]
           THEN /\ Stored(r, n, call[c].progress)
                /\ journal' = [journal EXCEPT ![r] = Append(@, e)]
                /\ acked' = acked \cup {<<r, n, e>>}
           ELSE /\ acked' = IF n <= runs[r].last /\ IsRecorded(r, n, e)
                              THEN acked \cup {<<r, n, e>>} ELSE acked
                /\ UNCHANGED <<runs, journal>>
  /\ Done(c)
  /\ UNCHANGED plan

\* cancelRun has read a running run, or any request one whose plan is over.
BeginStop(c, r) ==
  /\ call[c] = Idle
  /\ State(r) = "running"
  /\ LET why == IF expired THEN "expired" ELSE "cancelled"
     IN  call' = [call EXCEPT ![c] = [at |-> "stop", run |-> r, version |-> runs[r].version,
                                      progress |-> Ended(runs[r].progress, why)]]
  /\ UNCHANGED <<plan, runs, journal, acked>>

\* terminate: updateRun under the version that was read.
Terminate(c) ==
  /\ call[c].at = "stop"
  /\ LET r == call[c].run
     IN  IF IsCurrent(r, call[c].version) THEN Stored(r, runs[r].last, call[c].progress)
         ELSE UNCHANGED runs
  /\ Done(c)
  /\ UNCHANGED <<plan, journal, acked>>

PlanExpires ==
  /\ ~expired
  /\ expired' = TRUE
  /\ UNCHANGED <<standing, runs, journal, call, acked>>

StandingChanges ==
  /\ standing' \in Standings \ {standing}
  /\ UNCHANGED <<expired, runs, journal, call, acked>>

Next ==
  \/ \E c \in Calls :
       \/ \E k \in Keys : BeginRun(c, k)
       \/ CreateRun(c) \/ CheckEvent(c) \/ AppendRunEvent(c) \/ Terminate(c)
       \/ \E r \in DOMAIN runs : BeginStop(c, r) \/ \E e \in Events : ReadRun(c, r, e)
  \/ \E r \in DOMAIN runs : \E n \in DOMAIN journal[r], e \in Events : ReplayEvent(r, n, e)
  \/ PlanExpires \/ StandingChanges

Spec == Init /\ [][Next]_vars

---------------------------------------------------------------------------
TypeOK ==
  /\ expired \in BOOLEAN /\ standing \in Standings
  /\ journal \in Seq(Seq(Events)) /\ Len(journal) = Len(runs)
  /\ \A r \in DOMAIN runs : /\ runs[r].key \in Keys /\ runs[r].last \in Nat
                            /\ State(r) \in {"running", "completed"} \cup Stopped
                            /\ runs[r].progress.open \in {"none"} \cup DOMAIN Rank

\* What events come to, applied one after the other.
Replay(events) ==
  LET p[n \in 0 .. Len(events)] == IF n = 0 THEN Fresh ELSE Applied(p[n - 1], events[n])
  IN  p[Len(events)]

\* What a run's row says is what its events come to, but for the state of a run
\* that was stopped in between.
ProgressIsTheJournal ==
  \A r \in DOMAIN runs :
    LET p == Replay(journal[r])
    IN  /\ runs[r].last = Len(journal[r])
        /\ \/ runs[r].progress = p
           \/ p.state = "running" /\ State(r) \in Stopped /\ runs[r].progress = Ended(p, State(r))

\* An event that was answered for is in the journal, at its number.
AnsweredIsRecorded == \A a \in acked : a[2] \in DOMAIN journal[a[1]] /\ journal[a[1]][a[2]] = a[3]

\* Attempts are made one after the other, as many as the plan permits, each
\* under a key of its own, and none after one that was completed.
OneAttemptAtATime ==
  /\ Len(runs) <= MaxAttempts
  /\ \A r \in DOMAIN runs :
       /\ r < Len(runs) => State(r) \in Stopped
       /\ \A s \in DOMAIN runs : runs[r].key = runs[s].key => r = s

\* Why it is so.  Rows and journals are sequences of the same length, the number of the
\* last event is the length of its journal,
HistoriesAgree ==
  /\ runs \in Seq({runs[r] : r \in DOMAIN runs})
  /\ journal \in Seq({journal[r] : r \in DOMAIN journal}) /\ Len(journal) = Len(runs)
  /\ \A r \in DOMAIN runs :
       /\ runs[r] = [key |-> runs[r].key, version |-> runs[r].version, last |-> runs[r].last,
                     progress |-> runs[r].progress]
       /\ runs[r].version \in Nat
       /\ journal[r] \in Seq({journal[r][n] : n \in DOMAIN journal[r]})
       /\ runs[r].last = Len(journal[r])

\* whoever finds the version it has read still there has the next number,
ReadingsAreBehind(m) ==
  /\ m.at \in {"check", "append", "stop"} =>
       /\ m.run \in DOMAIN runs
       /\ m.version \in Nat /\ m.version <= runs[m.run].version
  /\ m.at \in {"check", "append"} =>
       m.n \in Nat /\ (m.version = runs[m.run].version => m.n = runs[m.run].last + 1)
  /\ m.at = "check" =>
       m = [at |-> "check", run |-> m.run, event |-> m.event, version |-> m.version, n |-> m.n,
            progress |-> m.progress]

\* and whoever finds its attempt free has seen all others stopped.
AttemptsAreKnown(m) ==
  m.at = "create" =>
    /\ m.attempt \in 1 .. (Len(runs) + 1) /\ m.attempt <= MaxAttempts
    /\ m.attempt = Len(runs) + 1 => \A r \in DOMAIN runs : State(r) \in Stopped

IInv ==
  /\ HistoriesAgree
  /\ DOMAIN call = Calls
  /\ \A c \in Calls : ReadingsAreBehind(call[c]) /\ AttemptsAreKnown(call[c])
  /\ \A a \in acked : a[1] \in DOMAIN journal
  /\ AnsweredIsRecorded
  /\ OneAttemptAtATime

SettledRunsStayStep ==
  \A r \in DOMAIN runs :
    /\ IsPrefix(journal[r], journal'[r])
    /\ State(r) # "running" => runs'[r] = runs[r] /\ journal'[r] = journal[r]

\* A run that is over stays as it is, whatever late requests still store, and
\* no event is ever taken back.
SettledRunsStay == [][SettledRunsStayStep]_vars
==============================================================================
