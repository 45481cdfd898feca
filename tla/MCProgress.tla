----------------------------- MODULE MCProgress ------------------------------
(***************************************************************************)
(* Progress of the protocols that run by themselves: the companion queue,  *)
(* the storage of artifacts, scan jobs, the outbox, library checks, the    *)
(* lock of a root and the transactions under it. They share no row, so a   *)
(* behaviour of any of them is a behaviour in which the others rest: part, *)
(* chosen at the start, names the one that moves.                          *)
(***************************************************************************)
EXTENDS Naturals, FiniteSets

CONSTANTS
  Worker, Other, Third,   \* workers, checks or processes
  None,                   \* no holder, no lock, no entry, no journal
  Cleaners, Keys, Key1, Key2, ListLimit, MaxFailures,  \* ArtifactWrites
  Workers, Jobs, Job1, Job2, MaxAttempts, MaxDeaths,   \* ScanJobs, NotificationOutbox
  Intents,                                       \* NotificationOutbox
  Names, MaxTrouble,                             \* LibraryChecks
  MaxTx, MaxStops, MaxEdits, NoTree, Edited, Partial   \* InstallTransaction

\* A cleaner is none of the marks a lock on an intent has besides.
ASSUME StorageAssumption ==
  {"free", "writer", "compensation"} \cap Cleaners = {} /\ MaxFailures \in Nat

\* A job may be attempted.
ASSUME ScanAssumption == MaxAttempts \in Nat \ {0} /\ MaxDeaths \in Nat

VARIABLES
  part,   \* the protocol that moves
  s1, s2, s3, s4, s5, s6, s7, s8, s9, s10, s11   \* its variables, in their order there

vars == <<part, s1, s2, s3, s4, s5, s6, s7, s8, s9, s10, s11>>

Key == <<Key1, Key2>>
Job == <<Job1, Job2>>
Proc == <<Worker, Other, Third>>

\* Three versions; the last two have the same bytes.
BytesOf == <<"one", "two", "two">>

Queue == INSTANCE TargetOperationsProofs WITH
  ops <- s1, sync <- s2, cursor <- s3, polls <- s4, grants <- s5, generation <- s6,
  consent <- s7, policy <- s8, evidence <- s9, Ops <- {1, 2}, Holders <- {Worker},
  MaxVersion <- 1, MaxGeneration <- 2, LeaseTime <- 1, PageLimit <- 1, MaxFence <- 2,
  MaxSyncFence <- 0, Consents <- {}, Policies <- {}, PollsMayDie <- FALSE,
  NoHolder <- None

Store == INSTANCE ArtifactWrites WITH
  intents <- s1, objects <- s2, inFlight <- s3, artifacts <- s4, lock <- s5,
  doomed <- s6, pc <- s7, todo <- s8, failures <- s9

Scan == INSTANCE ScanJobs WITH
  job <- s1, run <- s2, version <- s3, worker <- s4, deaths <- s5

Mail == INSTANCE NotificationOutbox WITH
  outbox <- s1, token <- s2, account <- s3, delivery <- s4, accepted <- s5,
  Workers <- {Worker}

Check == INSTANCE LibraryChecks WITH
  entry <- s1, curator <- s2, upstream <- s3, snaps <- s4, events <- s5, call <- s6,
  disc <- s7, view <- s8, spent <- s9, Checks <- {Worker, Other}, MaxPushes <- 0,
  MaxRenames <- 0, MaxFaults <- 1, MaxAbsences <- 1

Root == INSTANCE InstallRootLock WITH
  lock <- s1, pc <- s2, calls <- s3, seen <- s4, listed <- s5, raced <- s6,
  Procs <- {Worker, Other} \cup {Third}, MaxCalls <- 1, NoLock <- None

Install == INSTANCE InstallTransaction WITH
  active <- s1, stage <- s2, snaps <- s3, journal <- s4, registry <- s5, managed <- s6,
  pc <- s7, after <- s8, txs <- s9, stops <- s10, edits <- s11, Reinstalls <- FALSE,
  NotInstalled <- None, NoJournal <- None, Versions <- DOMAIN BytesOf, Absent <- NoTree

\* None is no process and no user, and a lock, an entry and a journal are something.
ASSUME NobodyAssumption ==
  /\ None \notin {Worker, "user", "no"}
  /\ None \notin Root!LockDirs
  /\ None \notin Install!Entries /\ None \notin Install!Journals

\* Checks are neither nobody nor a discovery.
ASSUME CheckAssumption ==
  {Check!Free, Check!Nobody, "discovery"} \cap {Worker, Other} = {}

\* What is no package is none, and transactions are counted.
ASSUME InstallAssumption ==
  /\ MaxTx \in Nat /\ MaxStops \in Nat /\ MaxEdits \in Nat
  /\ {NoTree, Edited, Partial} \cap Install!Packages = {}
  /\ NoTree \notin {Edited, Partial} /\ Edited # Partial

Init ==
  \/ part = "queue" /\ Queue!Init
      /\ s10 = 0 /\ s11 = 0
  \/ part = "artifacts" /\ Store!Init
      /\ s10 = 0 /\ s11 = 0
  \/ part = "scans" /\ Scan!Init
      /\ s6 = 0 /\ s7 = 0 /\ s8 = 0 /\ s9 = 0 /\ s10 = 0 /\ s11 = 0
  \/ part = "outbox" /\ Mail!Init
      /\ s6 = 0 /\ s7 = 0 /\ s8 = 0 /\ s9 = 0 /\ s10 = 0 /\ s11 = 0
  \/ part = "checks" /\ Check!Init
      /\ s10 = 0 /\ s11 = 0
  \/ part = "root" /\ Root!Init
      /\ s7 = 0 /\ s8 = 0 /\ s9 = 0 /\ s10 = 0 /\ s11 = 0
  \/ part = "install" /\ Install!Init

Queueing == part = "queue" /\ Queue!Next /\ UNCHANGED <<part, s10, s11>>
Storing == part = "artifacts" /\ Store!Next /\ UNCHANGED <<part, s10, s11>>
Scanning == part = "scans" /\ Scan!Next /\ UNCHANGED <<part, s6, s7, s8, s9, s10, s11>>
Mailing == part = "outbox" /\ Mail!Next /\ UNCHANGED <<part, s6, s7, s8, s9, s10, s11>>
Checking == part = "checks" /\ Check!Next /\ UNCHANGED <<part, s10, s11>>
RootLocking == part = "root" /\ Root!Next /\ UNCHANGED <<part, s7, s8, s9, s10, s11>>
Installing == part = "install" /\ Install!Next /\ UNCHANGED part

Next ==
  \/ Queueing \/ Storing \/ Scanning \/ Mailing \/ Checking \/ RootLocking
  \/ Installing

queueVars == <<s1, s2, s3, s4, s5, s6, s7, s8, s9>>
artifactsVars == <<s1, s2, s3, s4, s5, s6, s7, s8, s9>>
scansVars == <<s1, s2, s3, s4, s5>>
outboxVars == <<s1, s2, s3, s4, s5>>
checksVars == <<s1, s2, s3, s4, s5, s6, s7, s8, s9>>
rootVars == <<s1, s2, s3, s4, s5, s6>>
installVars == <<s1, s2, s3, s4, s5, s6, s7, s8, s9, s10, s11>>

Spec == Init /\ [][Next]_vars

\* The fairness each module states, for the time its protocol moves.
Fairness ==
  /\ SF_queueVars(part = "queue" /\ Queue!Poll(Worker, s6))
  /\ WF_queueVars(part = "queue" /\ Queue!ClaimStep(Worker))
  /\ WF_queueVars(part = "queue" /\ Queue!Tick)
  /\ \A o \in 1 .. 2 : WF_queueVars(part = "queue" /\ (\E g \in s5 : g.op = o /\ Queue!Complete(g, "failed")))
  /\ \A n \in 1 .. 2 : WF_artifactsVars(part = "artifacts" /\ Store!Submission(Key[n]))
  /\ \A n \in 1 .. 2 : WF_artifactsVars(part = "artifacts" /\ Store!LatePut(Key[n]))
  /\ \A c \in Cleaners : WF_artifactsVars(part = "artifacts" /\ Store!Reconciliation(c))
  /\ WF_artifactsVars(part = "artifacts" /\ Store!Age)
  /\ \A w \in Workers : WF_scansVars(part = "scans" /\ Scan!Work(w))
  /\ \A n \in 1 .. 2 : WF_scansVars(part = "scans" /\ Scan!LeaseExpires(Job[n]))
  /\ \A n \in 1 .. 2 : WF_scansVars(part = "scans" /\ Scan!BecomesDue(Job[n]))
  /\ WF_outboxVars(part = "outbox" /\ Mail!Work(Worker))
  /\ \A i \in Intents : WF_outboxVars(part = "outbox" /\ Mail!LeaseExpires(i))
  /\ \A i \in Intents : WF_outboxVars(part = "outbox" /\ Mail!BecomesDue(i))
  /\ \A c \in {Worker, Other} : WF_checksVars(part = "checks" /\ Check!Claim(c))
  /\ \A c \in {Worker, Other} : WF_checksVars(part = "checks" /\ Check!Phase(c))
  /\ WF_checksVars(part = "checks" /\ (Check!Orphaned /\ Check!LeaseLapses))
  /\ WF_checksVars(part = "checks" /\ Check!CheckIsDue)
  /\ \A n \in 1 .. 3 : WF_rootVars(part = "root" /\ Root!Step(Proc[n]))
  /\ WF_installVars(part = "install" /\ Install!Command)

FairSpec == Spec /\ Fairness

\* Every protocol keeps its variables in their types.
TypesOK ==
  /\ part = "queue" => Queue!TypeOK
  /\ part = "artifacts" => Store!TypeOK
  /\ part = "scans" => Scan!TypeOK
  /\ part = "outbox" => Mail!TypeOK
  /\ part = "checks" => Check!TypeOK
  /\ part = "root" => Root!TypeOK
  /\ part = "install" => Install!TypeOK

\* The object of a committed artifact is stored, and an object nothing refers to has a
\* row that leads to it.
ObjectsAreAccountedFor ==
  part = "artifacts" =>
    /\ Store!CommittedIsStored
    /\ Store!OrphansAreRemembered

\* A passed version has the evidence of a scan, and open runs belong to the job that is
\* at work.
VerdictsAreEvidenced ==
  part = "scans" =>
    /\ Scan!PassedIsEvidenced
    /\ Scan!RunsFollowTheJob

\* A verdict stays, whatever late workers report.
VerdictIsFinal ==
  [][part = "scans" => Scan!VerdictIsFinalStep]_vars

\* Who waits, and what the wait ends with: a queued operation is claimed or settled, unless
\* poisoned ones are in front; an artifact nobody refers to is removed; a submitted version is
\* judged; an intent is sent or given up; a due check is made, put off or stopped; a contender
\* for a root enters or gives up, unless the lock is stuck; a journal left behind is resolved.
Waits(n) ==
  \/ part = "queue" /\ n < 3 /\ Queue!Queued(n)
  \/ part = "artifacts" /\ n < 3 /\ Store!HasIntent(Key[n])
  \/ part = "scans" /\ n < 3 /\ ~Scan!Judged(Job[n])
  \/ part = "outbox" /\ n < 3 /\ Mail!OnItsWay(n)
  \/ part = "checks" /\ n = 1 /\ Check!Due
  \/ part = "root" /\ Root!Contends(Proc[n])
  \/ part = "install" /\ n = 1 /\ Install!Journaled
Served(n) ==
  \/ part = "queue" /\ n < 3 /\ Queue!Passed(n)
  \/ part = "artifacts" /\ n < 3 /\ Store!Cleaned(Key[n])
  \/ part = "scans" /\ n < 3 /\ Scan!Judged(Job[n])
  \/ part = "outbox" /\ n < 3 /\ ~Mail!OnItsWay(n)
  \/ part = "checks" /\ n = 1 /\ Check!Handled
  \/ part = "root" /\ (~Root!Contends(Proc[n]) \/ Root!Stuck)
  \/ part = "install" /\ n = 1 /\ Install!Resolved

\* Nobody waits for ever, in any of the protocols.
WaitsEnd == \A n \in 1 .. 3 : Waits(n) ~> Served(n)

==============================================================================
