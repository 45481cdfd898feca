----------------------------- MODULE MCRegistry ------------------------------
(***************************************************************************)
(* The protocols about skills: submissions and reviews, author drafts,     *)
(* libraries with their checks, imports and adoptions, improvement runs    *)
(* (two requests with few events, or one with all), and at last the root a *)
(* skill is installed under, with its lock and its transactions. They      *)
(* share no row, so a behaviour of any of them is a behaviour in which the *)
(* others rest: part, chosen at the start, names the one that moves.       *)
(***************************************************************************)
EXTENDS Naturals, TLC

CONSTANTS
  Requests,    \* requests, deliveries or checks that run at the same time
  Twins,       \* two library entries, or two names of a repository
  Third,       \* one more process on a machine
  Reviewers,   \* calls of reviewers
  Versions, Contents, MaxRevision,               \* Submissions, AuthorDrafts
  MaxCommit, MaxSnapshots, MaxCandidates,        \* LibraryImports
  Releases, MaxAdoptions, MaxBindings,           \* LibraryAdoptions
  MaxPushes, MaxRenames, MaxEdits, MaxFaults, MaxAbsences, MaxTrouble,  \* LibraryChecks
  MaxCalls, NoLock,                              \* InstallRootLock
  BytesOf, MaxTx, MaxStops, NoTree, Edited, Partial   \* InstallTransaction


\* A draft has room for the revision it starts with.
ASSUME DraftAssumption == MaxRevision \in Nat \ {0}

VARIABLES
  part,   \* the protocol that moves
  s1, s2, s3, s4, s5, s6, s7, s8, s9, s10, s11   \* its variables, in their order there

vars == <<part, s1, s2, s3, s4, s5, s6, s7, s8, s9, s10, s11>>

\* The first two contents declare the same version.
VersionOf == [c \in Contents |-> IF c = 3 THEN 2 ELSE 1]

\* Two commits; the second has other bytes.
DigestOf(m) == IF m = 2 THEN "b" ELSE "a"

Event(type, of) == [type |-> type, of |-> of]

\* What a runner reports: a stage and the end; or everything.
FewEvents ==
  {Event("stage.started", "analyze"), Event("stage.completed", "analyze"),
   Event("run.completed", "none"), Event("run.failed", "none")}
AllEvents ==
  FewEvents \cup {Event(t, s) : t \in {"stage.started", "stage.completed"}, s \in {"propose", "evaluate"}}
    \cup {Event("evaluation.recorded", s) : s \in {"baseline", "candidate"}}
    \cup {Event("candidate.frozen", "none"), Event("run.completed", "candidate")}

\* Three versions; the last two have the same bytes.
PackageBytes == <<"one", "two", "two">>

Symmetry == Permutations(Requests) \cup Permutations(Twins) \cup Permutations(Releases)

Sub == INSTANCE Submissions WITH
  skill <- s1, version <- s2, call <- s3, Calls <- Reviewers

Draft == INSTANCE AuthorDrafts WITH
  head <- s1, revisions <- s2, submissions <- s3, call <- s4, Calls <- Requests

Imp == INSTANCE LibraryImports WITH
  active <- s1, linked <- s2, snaps <- s3, lineage <- s4, cands <- s5, build <- s6,
  Entries <- Twins

Adopt == INSTANCE LibraryAdoptions WITH
  current <- s1, active <- s2, adoptions <- s3, release <- s4, bindings <- s5,
  adopting <- s6, binding <- s7, Entries <- Twins, Versions <- Releases

Check == INSTANCE LibraryChecks WITH
  entry <- s1, curator <- s2, upstream <- s3, snaps <- s4, events <- s5, call <- s6,
  disc <- s7, view <- s8, spent <- s9, Checks <- Requests, Names <- Twins

\* Adoptions are counted, and checks are neither nobody nor a discovery.
ASSUME LibraryAssumption ==
  MaxAdoptions \in Nat /\ {Check!Free, Check!Nobody, "discovery"} \cap Requests = {}

Improve == INSTANCE ImprovementRuns WITH
  expired <- s1, standing <- s2, runs <- s3, journal <- s4, call <- s5, acked <- s6,
  Calls <- Requests, Keys <- Releases, Events <- FewEvents, MaxAttempts <- 2,
  HasSuite <- TRUE, HasIdentity <- TRUE

Report == INSTANCE ImprovementRuns WITH
  expired <- s1, standing <- s2, runs <- s3, journal <- s4, call <- s5, acked <- s6,
  Calls <- {Third}, Keys <- Releases, Events <- AllEvents, MaxAttempts <- 1,
  HasSuite <- TRUE, HasIdentity <- TRUE

Root == INSTANCE InstallRootLock WITH
  lock <- s1, pc <- s2, calls <- s3, seen <- s4, listed <- s5, raced <- s6,
  Procs <- Requests \cup {Third}

\* A directory is not no directory.
ASSUME RootAssumption == MaxCalls \in Nat /\ NoLock \notin Root!LockDirs

Install == INSTANCE InstallTransaction WITH
  active <- s1, stage <- s2, snaps <- s3, journal <- s4, registry <- s5, managed <- s6,
  pc <- s7, after <- s8, txs <- s9, stops <- s10, edits <- s11, Reinstalls <- FALSE,
  NotInstalled <- NoLock, NoJournal <- NoLock, Versions <- DOMAIN BytesOf, Absent <- NoTree

\* Versions are ordered, and what is no entry, journal or package is none.
ASSUME InstallAssumption ==
  /\ DOMAIN BytesOf \subseteq Nat /\ MaxTx \in Nat /\ MaxStops \in Nat /\ MaxEdits \in Nat
  /\ NoLock \notin Install!Entries /\ NoLock \notin Install!Journals
  /\ {NoTree, Edited, Partial} \cap Install!Packages = {}
  /\ NoTree \notin {Edited, Partial} /\ Edited # Partial

Init ==
  \/ part = "submissions" /\ Sub!Init
      /\ s4 = 0 /\ s5 = 0 /\ s6 = 0 /\ s7 = 0 /\ s8 = 0 /\ s9 = 0 /\ s10 = 0 /\ s11 = 0
  \/ part = "drafts" /\ Draft!Init
      /\ s5 = 0 /\ s6 = 0 /\ s7 = 0 /\ s8 = 0 /\ s9 = 0 /\ s10 = 0 /\ s11 = 0
  \/ part = "imports" /\ Imp!Init
      /\ s7 = 0 /\ s8 = 0 /\ s9 = 0 /\ s10 = 0 /\ s11 = 0
  \/ part = "adoptions" /\ Adopt!Init
      /\ s8 = 0 /\ s9 = 0 /\ s10 = 0 /\ s11 = 0
  \/ part = "checks" /\ Check!Init
      /\ s10 = 0 /\ s11 = 0
  \/ part = "improvements" /\ Improve!Init
      /\ s7 = 0 /\ s8 = 0 /\ s9 = 0 /\ s10 = 0 /\ s11 = 0
  \/ part = "reports" /\ Report!Init
      /\ s7 = 0 /\ s8 = 0 /\ s9 = 0 /\ s10 = 0 /\ s11 = 0
  \/ part = "root" /\ Root!Init
      /\ s7 = 0 /\ s8 = 0 /\ s9 = 0 /\ s10 = 0 /\ s11 = 0
  \/ part = "install" /\ Install!Init

Submission == part = "submissions" /\ Sub!Next /\ UNCHANGED <<part, s4, s5, s6, s7, s8, s9, s10, s11>>
Authoring == part = "drafts" /\ Draft!Next /\ UNCHANGED <<part, s5, s6, s7, s8, s9, s10, s11>>
Importing == part = "imports" /\ Imp!Next /\ UNCHANGED <<part, s7, s8, s9, s10, s11>>
Adopting == part = "adoptions" /\ Adopt!Next /\ UNCHANGED <<part, s8, s9, s10, s11>>
Checking == part = "checks" /\ Check!Next /\ UNCHANGED <<part, s10, s11>>
Improving == part = "improvements" /\ Improve!Next /\ UNCHANGED <<part, s7, s8, s9, s10, s11>>
Reporting == part = "reports" /\ Report!Next /\ UNCHANGED <<part, s7, s8, s9, s10, s11>>
RootLocking == part = "root" /\ Root!Next /\ UNCHANGED <<part, s7, s8, s9, s10, s11>>
Installing == part = "install" /\ Install!Next /\ UNCHANGED part

Next ==
  \/ Submission \/ Authoring \/ Importing \/ Adopting \/ Checking \/ Improving
  \/ Reporting \/ RootLocking \/ Installing

Spec == Init /\ [][Next]_vars

\* Every protocol keeps its variables in their types.
TypesOK ==
  /\ part = "submissions" => Sub!TypeOK
  /\ part = "drafts" => Draft!TypeOK
  /\ part = "imports" => Imp!TypeOK
  /\ part = "adoptions" => Adopt!TypeOK
  /\ part = "checks" => Check!TypeOK
  /\ part = "improvements" => Improve!TypeOK
  /\ part = "reports" => Report!TypeOK
  /\ part = "root" => Root!TypeOK
  /\ part = "install" => Install!TypeOK

\* A skill is approved only once a version was published, and shared beyond its owner
\* only on reviews of others.
SharedIsReviewed ==
  part = "submissions" =>
    /\ Sub!ApprovedSkillWasPublished
    /\ Sub!SharedIsReviewed

\* Publication takes the bytes and verdicts the reviewer saw, and nobody in flight
\* changes what was published or brings back what was deleted; the history of a draft
\* only grows, and so does the journal of an improvement run until it is over.
WhatWasReviewedStays ==
  [][/\ part = "submissions" =>
          /\ Sub!PublishesWhatWasReviewedStep
          /\ Sub!PublicationIsFinalStep
          /\ Sub!DeletedStaysDeletedStep
     /\ part = "drafts" => Draft!HistoryIsKeptStep
     /\ part = "improvements" => Improve!SettledRunsStayStep
     /\ part = "reports" => Report!SettledRunsStayStep]_vars

\* The state of an improvement run is what its events say one after the other, events
\* that were answered for are among them, and attempts follow each other under keys of
\* their own.
ImprovementsAreReplayable ==
  /\ part = "improvements" =>
       /\ Improve!ProgressIsTheJournal
       /\ Improve!AnsweredIsRecorded
       /\ Improve!OneAttemptAtATime
  /\ part = "reports" =>
       /\ Report!ProgressIsTheJournal
       /\ Report!AnsweredIsRecorded
       /\ Report!OneAttemptAtATime

\* The receipt of a revision names the submission of its content, and a repeated
\* request finds the submission of the first.
DraftsAreSubmittedOnce ==
  part = "drafts" =>
    /\ Draft!ReceiptsAreTrue
    /\ Draft!RepetitionIsReplayed

\* Lineages are the chains of the imports that were accepted, and adoptions form chains
\* of their own; removed sources propose nothing, a lost curation keeps its pin, and
\* curators are shown the change that waits and a complete snapshot.
LibrariesAreConsistent ==
  /\ part = "imports" =>
       /\ Imp!RevisionsAreImports
       /\ Imp!OneCandidatePerSnapshot
       /\ Imp!RemovedSourcesProposeNothing
  /\ part = "adoptions" =>
       /\ Adopt!AdoptionsFormAChain
       /\ Adopt!LostCurationKeepsThePin
  /\ part = "checks" =>
       /\ Check!PendingIsShown
       /\ Check!GoodIsComplete

\* Going back to an older commit takes an acknowledged import, an adoption a release
\* that is still available, a new identity the curator who saw it; and a check that was
\* overtaken replaces nothing.
LibrariesMoveKnowingly ==
  [][/\ part = "imports" => Imp!HeadGoesBackKnowinglyStep
     /\ part = "adoptions" => Adopt!OnlyAvailableIsAdoptedStep
     /\ part = "checks" =>
          /\ Check!AcceptsWhatWasSeenStep
          /\ Check!ChecksMoveForwardStep]_vars

\* Whichever processes die, and wherever: one of them works on a root at a time, and it
\* owns the lock, until two have reaped the lock of one dead owner at the same time.
RootHasOneOwner ==
  part = "root" =>
    /\ Root!MutualExclusionOfTheLiving
    /\ Root!HolderOwnsLock

\* The installed tree is what the registry says, its history and the previous tree can
\* be gone back to, and recovery is refused only a tree that is torn or edited.
InstallationIsRecoverable ==
  part = "install" =>
    /\ Install!TreeMatchesRegistry
    /\ Install!HistoryIsBacked
    /\ Install!PreviousIsKept
    /\ Install!RecoveryConvergesUnlessTorn

\* A committed transaction is never undone, recovery brings nothing new into the root,
\* and edits of the user survive both.
RecoveryKeepsItsSide ==
  [][part = "install" =>
       /\ Install!CommitIsFinalStep
       /\ Install!RecoveryNeverPromotesStep
       /\ Install!EditsSurviveStep]_vars

==============================================================================
