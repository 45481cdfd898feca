-------------------------- MODULE ArtifactWrites --------------------------
(***************************************************************************)
(* Package artifacts and the intents that recover them                     *)
(* (apps/api/src/submissions/postgres-submission-store.ts).  A submission  *)
(* reserves a key in artifact_write_intents, then in one transaction locks *)
(* the reservation, writes the object to the object storage, inserts the   *)
(* artifact row and deletes the reservation.  The storage takes no part in *)
(* the transaction, so an object can outlive a rollback: compensation      *)
(* after a failure and a periodic reconciliation remove it.                *)
(*                                                                         *)
(* Every submission draws a fresh key (randomUUID), so a key stands for    *)
(* the submission.  What decides whether the transaction commits is the    *)
(* subject of Submissions; here it may always fail.  A write that the      *)
(* storage refuses by itself has happened or never will; only one given up *)
(* at its timeout may still arrive.                                        *)
(***************************************************************************)
EXTENDS Naturals, Sequences

CONSTANTS
  Keys,          \* storage keys, one per submission
  Cleaners,      \* API processes that reconcile
  ListLimit,     \* intents one reconciliation looks at (100 in the code)
  MaxFailures    \* deletions the storage refuses in this instance

VARIABLES
  intents,   \* rows of artifact_write_intents, least recently updated first
  objects,   \* keys present in the object storage
  inFlight,  \* keys of writes that were given up but may still arrive
  artifacts, \* keys of committed skill_artifacts rows
  lock,      \* per key, who holds the row lock of its intent
  doomed,    \* keys whose lock holder found no row that refers to the object
  pc,        \* per key, where the submission is
  todo,      \* per cleaner, the keys its reconciliation has left
  failures   \* deletions refused so far

vars == <<intents, objects, inFlight, artifacts, lock, doomed, pc, todo, failures>>

Free == "free"

Intent == [key : Keys, stale : BOOLEAN]

StoreTypeOK ==
  /\ intents \in Seq(Intent)
  /\ objects \subseteq Keys /\ inFlight \subseteq Keys /\ artifacts \subseteq Keys
  /\ doomed \subseteq Keys
  /\ lock \in [Keys -> {Free, "writer", "compensation"} \cup Cleaners]
  /\ pc \in [Keys -> {"new", "reserved", "writing", "written", "timeout", "failed", "ended"}]
  /\ failures \in 0 .. MaxFailures
TypeOK == StoreTypeOK /\ todo \in [Cleaners -> Seq(Keys)]

Init ==
  /\ intents = <<>> /\ objects = {} /\ inFlight = {} /\ artifacts = {}
  /\ lock = [k \in Keys |-> Free] /\ doomed = {}
  /\ pc = [k \in Keys |-> "new"]
  /\ todo = [c \in Cleaners |-> <<>>]
  /\ failures = 0

HasIntent(k) == \E i \in DOMAIN intents : intents[i].key = k
IsStale(k) == \E i \in DOMAIN intents : intents[i].key = k /\ intents[i].stale

\* A key has one row at most.
Others(k) ==
  IF HasIntent(k)
    THEN LET n == CHOOSE i \in DOMAIN intents : intents[i].key = k IN
         [i \in 1 .. Len(intents) - 1 |-> IF i < n THEN intents[i] ELSE intents[i + 1]]
    ELSE intents
Removed(k) == intents' = Others(k)
\* updatedAt becomes now: the row is the most recently updated one.
Touched(k) ==
  intents' = IF HasIntent(k) THEN Append(Others(k), [key |-> k, stale |-> FALSE]) ELSE intents

At(k, place) == pc' = [pc EXCEPT ![k] = place]
Lock(k, who) == lock' = [lock EXCEPT ![k] = who]

---------------------------------------------------------------------------
(* The submission of key k.                                                *)

Reserve(k) ==
  /\ pc[k] = "new"
  /\ intents' = Append(intents, [key |-> k, stale |-> FALSE])
  /\ At(k, "reserved")
  /\ UNCHANGED <<objects, inFlight, artifacts, lock, doomed, todo, failures>>

\* Faulty: does not look whether the reservation is still there.
BeginUnchecked(k) ==
  /\ pc[k] = "reserved" /\ lock[k] = Free
  /\ At(k, "writing") /\ Lock(k, "writer")
  /\ UNCHANGED <<intents, objects, inFlight, artifacts, doomed, todo, failures>>

\* The transaction takes the row lock.  A reservation that was cleaned up
\* meanwhile ends the submission before anything is written.
Begin(k) ==
  /\ pc[k] = "reserved" /\ lock[k] = Free
  /\ IF HasIntent(k) THEN At(k, "writing") /\ Lock(k, "writer")
                     ELSE At(k, "failed") /\ UNCHANGED lock
  /\ UNCHANGED <<intents, objects, inFlight, artifacts, doomed, todo, failures>>

PutSucceeds(k) ==
  /\ pc[k] = "writing"
  /\ objects' = objects \cup {k}
  /\ At(k, "written")
  /\ UNCHANGED <<intents, inFlight, artifacts, lock, doomed, todo, failures>>

\* The request is aborted after its timeout.  The object is there, is not, or
\* arrives later; the transaction rolls back.
PutTimesOut(k) ==
  /\ pc[k] = "writing"
  /\ \/ objects' = objects \cup {k} /\ UNCHANGED inFlight
     \/ UNCHANGED <<objects, inFlight>>
     \/ inFlight' = inFlight \cup {k} /\ UNCHANGED objects /\ ~IsStale(k)
  /\ At(k, "timeout") /\ Lock(k, Free)
  /\ UNCHANGED <<intents, artifacts, doomed, todo, failures>>

\* The transaction fails before it holds the lock.
BeginFails(k) ==
  /\ pc[k] = "reserved"
  /\ At(k, "failed")
  /\ UNCHANGED <<intents, objects, inFlight, artifacts, lock, doomed, todo, failures>>

\* Any other failure of the write, or of a check or statement after it.
Rollback(k) ==
  /\ pc[k] \in {"writing", "written"}
  /\ objects' = objects \/ (pc[k] = "writing" /\ objects' = objects \cup {k})
  /\ At(k, "failed") /\ Lock(k, Free)
  /\ UNCHANGED <<intents, inFlight, artifacts, doomed, todo, failures>>

\* The artifact row appears and the reservation goes in one commit.  The answer
\* to the commit may be lost, and then the caller compensates.
Commit(k) ==
  /\ pc[k] = "written"
  /\ artifacts' = artifacts \cup {k}
  /\ Removed(k)
  /\ At(k, "ended") \/ At(k, "failed")
  /\ Lock(k, Free)
  /\ UNCHANGED <<objects, inFlight, doomed, todo, failures>>

\* The process dies.  A write it was sending arrives or not.
Die(k) ==
  /\ pc[k] \in {"reserved", "writing", "written", "timeout", "failed"}
  /\ objects' = objects \/ (pc[k] = "writing" /\ objects' = objects \cup {k})
  /\ At(k, "ended")
  /\ IF lock[k] \in {"writer", "compensation"}
       THEN Lock(k, Free) /\ doomed' = doomed \ {k}
       ELSE UNCHANGED <<lock, doomed>>
  /\ UNCHANGED <<intents, inFlight, artifacts, todo, failures>>

\* The write that was given up reaches the storage, or never does.
LatePut(k) ==
  /\ k \in inFlight
  /\ inFlight' = inFlight \ {k}
  /\ objects' \in {objects, objects \cup {k}}
  /\ UNCHANGED <<intents, artifacts, lock, doomed, pc, todo, failures>>

\* Faulty: cleans up at once after a timeout too.
KeepNothing(k) ==
  /\ pc[k] = "timeout"
  /\ At(k, "failed")
  /\ UNCHANGED <<intents, objects, inFlight, artifacts, lock, doomed, todo, failures>>

\* compensateArtifactWrite after a timeout keeps the reservation for later.
KeepForLater(k) ==
  /\ pc[k] = "timeout" /\ lock[k] = Free
  /\ Touched(k)
  /\ At(k, "ended")
  /\ UNCHANGED <<objects, inFlight, artifacts, lock, doomed, todo, failures>>

---------------------------------------------------------------------------
(* cleanupArtifactWrite: after a failure, and for each stale intent.       *)

\* The row lock on the intent of k goes to who, who then looks for an artifact
\* row that refers to k.
LockAndLook(k, who) ==
  /\ Lock(k, who)
  /\ doomed' = IF k \in artifacts THEN doomed \ {k} ELSE doomed \cup {k}

\* The transaction waits for whoever holds the lock.
Compensate(k) ==
  /\ pc[k] = "failed" /\ lock[k] = Free
  /\ IF HasIntent(k) THEN LockAndLook(k, "compensation") /\ UNCHANGED pc
                     ELSE At(k, "ended") /\ UNCHANGED <<lock, doomed>>
  /\ UNCHANGED <<intents, objects, inFlight, artifacts, todo, failures>>

\* The keys of the first n intents.
FirstKeys(n) == [i \in 1 .. n |-> intents[i].key]

\* reconcilePendingArtifactWrites lists the stalest intents.  They are the first ones, as
\* the rows are in the order of their updates.
List(c) ==
  /\ todo[c] = <<>>
  /\ \A k \in Keys : lock[k] # c
  /\ \E n \in DOMAIN intents :
       /\ n <= ListLimit /\ \A i \in 1 .. n : intents[i].stale
       /\ (n < ListLimit /\ n < Len(intents)) => ~intents[n + 1].stale
       /\ todo' = [todo EXCEPT ![c] = FirstKeys(n)]
  /\ UNCHANGED <<intents, objects, inFlight, artifacts, lock, doomed, pc, failures>>

Candidate(c) == Head(todo[c])
DropFirst(c) == todo' = [todo EXCEPT ![c] = Tail(@)]

\* Faulty: takes the row from whoever has it.
TakeLocked(c) ==
  /\ todo[c] # <<>> /\ IsStale(Candidate(c))
  /\ \A k \in Keys : lock[k] # c
  /\ LockAndLook(Candidate(c), c)
  /\ DropFirst(c)
  /\ UNCHANGED <<intents, objects, inFlight, artifacts, pc, failures>>

\* A listed intent that is still there, still stale and locked by nobody.
Take(c) ==
  /\ todo[c] # <<>>
  /\ \A k \in Keys : lock[k] # c
  /\ IF IsStale(Candidate(c)) /\ lock[Candidate(c)] = Free
       THEN LockAndLook(Candidate(c), c)
       ELSE UNCHANGED <<lock, doomed>>
  /\ DropFirst(c)
  /\ UNCHANGED <<intents, objects, inFlight, artifacts, pc, failures>>

\* Faulty: forgets the intent of an object the storage did not delete.
CleanUpOnce(k) ==
  /\ Removed(k)
  /\ \/ objects' = objects \ doomed /\ UNCHANGED failures
     \/ k \in doomed /\ failures < MaxFailures /\ failures' = failures + 1 /\ UNCHANGED objects

\* An object that a committed row refers to stays.  Any other is deleted from
\* the storage; if that fails, the intent stays and becomes the freshest.
CleanUp(k) ==
  \/ k \notin doomed /\ Removed(k) /\ UNCHANGED <<objects, failures>>
  \/ /\ k \in doomed
     /\ objects' = objects \ {k} /\ Removed(k) /\ UNCHANGED failures
  \/ /\ k \in doomed /\ failures < MaxFailures
     /\ failures' = failures + 1
     /\ Touched(k) /\ UNCHANGED objects

FinishCompensation(k) ==
  /\ lock[k] = "compensation"
  /\ CleanUp(k)
  /\ Lock(k, Free) /\ doomed' = doomed \ {k} /\ At(k, "ended")
  /\ UNCHANGED <<inFlight, artifacts, todo>>

FinishCleanUp(c, k) ==
  /\ lock[k] = c
  /\ CleanUp(k)
  /\ Lock(k, Free) /\ doomed' = doomed \ {k}
  /\ UNCHANGED <<inFlight, artifacts, pc, todo>>

\* The cleaner's process dies, possibly between the deletion in the storage and
\* its commit: the object is gone and the intent still there.
CleanerDies(c) ==
  /\ todo[c] # <<>> \/ \E k \in Keys : lock[k] = c
  /\ failures < MaxFailures
  /\ failures' = failures + 1
  /\ objects' \in {objects} \cup
       {objects \ {k} : k \in {x \in doomed : lock[x] = c}}
  /\ doomed' = {k \in doomed : lock[k] # c}
  /\ lock' = [k \in Keys |-> IF lock[k] = c THEN Free ELSE lock[k]]
  /\ todo' = [todo EXCEPT ![c] = <<>>]
  /\ UNCHANGED <<intents, inFlight, artifacts, pc>>

---------------------------------------------------------------------------
\* Fifteen minutes after its last update an intent is stale.  A write that was
\* given up has arrived or been dropped by then.
Age ==
  \E i \in DOMAIN intents :
    /\ ~intents[i].stale /\ \A j \in 1 .. i - 1 : intents[j].stale
    /\ intents[i].key \notin inFlight
    /\ intents' = [intents EXCEPT ![i].stale = TRUE]
    /\ UNCHANGED <<objects, inFlight, artifacts, lock, doomed, pc, todo, failures>>

Submission(k) ==
  \/ Begin(k) \/ BeginFails(k) \/ PutSucceeds(k) \/ PutTimesOut(k) \/ Rollback(k) \/ Commit(k)
  \/ KeepForLater(k) \/ Compensate(k) \/ FinishCompensation(k)

Reconciliation(c) == List(c) \/ Take(c) \/ \E k \in Keys : FinishCleanUp(c, k)

Next ==
  \/ \E k \in Keys : Reserve(k) \/ Submission(k) \/ Die(k) \/ LatePut(k)
  \/ \E c \in Cleaners : Reconciliation(c) \/ CleanerDies(c)
  \/ Age

Spec == Init /\ [][Next]_vars

\* A submission goes on until it ends or its process dies, reconciliation runs
\* at start-up and every fifteen minutes, and time passes.
Fairness ==
  /\ \A k \in Keys : WF_vars(Submission(k)) /\ WF_vars(LatePut(k))
  /\ \A c \in Cleaners : WF_vars(Reconciliation(c))
  /\ WF_vars(Age)

FairSpec == Spec /\ Fairness

---------------------------------------------------------------------------
\* The object of every committed artifact is in the storage: neither
\* compensation after a lost commit answer nor a reconciliation that overlaps
\* the submission ever removes it.
CommittedIsStored == artifacts \subseteq objects

\* Every object nobody refers to is remembered by an intent, or a submission is
\* still to decide about it: recovery evidence is never erased early ("Keep its
\* durable reservation for stale cleanup rather than erase recovery evidence").
OrphansAreRemembered ==
  \A k \in (objects \cup inFlight) \ artifacts : HasIntent(k)

\* Why it is so.  Whoever holds the lock of an intent does with it what it says;
\* a removal has looked for the row under the lock, so no commit comes between;
\* a write that may still arrive keeps its intent fresh, so nobody takes it.
CleanUpLock(k) == lock[k] = "compensation" \/ lock[k] \in Cleaners
LocksAreHonoured(k) ==
  /\ pc[k] \in {"writing", "written"} <=> lock[k] = "writer"
  /\ lock[k] = "compensation" => pc[k] = "failed"
  /\ CleanUpLock(k) => (k \in artifacts <=> k \notin doomed)
  /\ ~CleanUpLock(k) => k \notin doomed
WriteHasIntent(k) ==
  /\ pc[k] \in {"reserved", "writing", "written", "new"} => k \notin artifacts
  /\ pc[k] \in {"writing", "written"} => HasIntent(k)
  /\ pc[k] = "written" => k \in objects
  /\ pc[k] = "new" => ~HasIntent(k)
GivenUpWriteIsFresh(k) ==
  k \in inFlight => ~IsStale(k) /\ pc[k] \in {"timeout", "ended"} /\ ~CleanUpLock(k)
AccountedFor(k) ==
  /\ k \in artifacts => k \in objects
  /\ k \in objects \cup inFlight => k \in artifacts \/ HasIntent(k)
OneIntentPerKey ==
  \A i, j \in DOMAIN intents : intents[i].key = intents[j].key => i = j

KeyInv(k) ==
  LocksAreHonoured(k) /\ WriteHasIntent(k) /\ GivenUpWriteIsFresh(k) /\ AccountedFor(k)
IInv == StoreTypeOK /\ OneIntentPerKey /\ \A k \in Keys : KeyInv(k)

Cleaned(k) == ~HasIntent(k) /\ (k \in objects => k \in artifacts)

\* Objects nobody refers to and their intents are removed in the end, however
\* often processes die, as long as the storage accepts deletions at last, and
\* no intent starves behind others that keep failing.
OrphansAreRemoved == \A k \in Keys : HasIntent(k) ~> Cleaned(k)
===========================================================================
