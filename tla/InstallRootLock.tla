-------------------------- MODULE InstallRootLock --------------------------
(***************************************************************************)
(* The lock of an installation root (apps/cli/src/install-filesystem.ts).  *)
(* MySkills processes on one machine take turns on a root by making the    *)
(* directory write.lock and writing who they are into its owner.json.  A   *)
(* contender that finds the owner's process dead removes the lock; the     *)
(* subdirectory reaping keeps two contenders from doing so at once.        *)
(*                                                                         *)
(* One action is one call to the file system, so processes interleave      *)
(* between any two of them, and any of them may die there.  All calls name *)
(* files by path: they act on whatever lock is there by then.  A process   *)
(* id is not given to another process.                                     *)
(*                                                                         *)
(* Operators marked "Faulty" stand for plausible bugs and are not part of  *)
(* the model.                                                              *)
(***************************************************************************)
EXTENDS Integers

CONSTANTS
  Procs,      \* processes that use the root
  MaxCalls,   \* bound on the calls of withInstallRootLock one process makes
  NoLock      \* no directory write.lock

\* One call of withInstallRootLock: it makes one random token.
Calls == Procs \X (1 .. MaxCalls)
Nobody == <<"nobody", 0>>

\* The directory with its entries: the call that made it, the call that made
\* owner.json and whether that is written, the reaping directory.
LockDirs == [dir : Calls, owner : Calls \cup {Nobody}, written : BOOLEAN, reaping : BOOLEAN]

VARIABLES
  lock,   \* the directory write.lock
  pc,     \* per process, the file system call it makes next
  calls,  \* per process, the number of its calls begun so far
  seen,   \* per process, the owner it has read
  listed, \* per process, the entries its recursive removal has yet to remove
  raced   \* recorded only: a lock was reaped by two processes at the same time

vars == <<lock, pc, calls, seen, listed, raced>>

Outside == {"idle", "dead"}
Contending == {"mkdir", "read", "claim", "reread", "unclaim", "wait"}
Holding == {"inside", "leave"}
Removing == {"list", "unlink"}
Steps == Outside \cup Contending \cup Holding \cup Removing \cup {"create", "write", "undo", "rmdir"}

TypeOK ==
  /\ lock \in LockDirs \cup {NoLock}
  /\ pc \in [Procs -> Steps]
  /\ calls \in [Procs -> 0 .. MaxCalls]
  /\ seen \in [Procs -> Calls \cup {Nobody}]
  /\ listed \in [Procs -> SUBSET {"owner", "reaping"}]
  /\ raced \in BOOLEAN

Init ==
  /\ lock = NoLock
  /\ pc = [p \in Procs |-> "idle"]
  /\ calls = [p \in Procs |-> 0]
  /\ seen = [p \in Procs |-> Nobody]
  /\ listed = [p \in Procs |-> {}]
  /\ raced = FALSE

Exists == lock # NoLock
Me(p) == <<p, calls[p]>>

\* What readLockOwner returns: null without a directory or an owner.json.  An
\* owner.json that is not written yet does not parse, and the call fails.
OwnerRead == IF Exists THEN lock.owner ELSE Nobody
Unreadable == Exists /\ lock.owner # Nobody /\ ~lock.written

\* Faulty: takes a process it may not signal for dead.
ExistsToMe(c) == FALSE

\* Faulty: takes any process id for a living process.
AlwaysExists(c) == TRUE

ProcessExists(c) == pc[c[1]] # "dead"

Goto(p, step) == pc' = [pc EXCEPT ![p] = step]

---------------------------------------------------------------------------
(* Taking the lock.                                                        *)

Begin(p) ==
  /\ pc[p] = "idle" /\ calls[p] < MaxCalls
  /\ calls' = [calls EXCEPT ![p] = @ + 1]
  /\ Goto(p, "mkdir")
  /\ UNCHANGED <<lock, seen, listed, raced>>

\* The lstat by which the call will know its directory again is taken with mkdir.
MakeLock(p) ==
  /\ pc[p] = "mkdir"
  /\ IF Exists
     THEN Goto(p, "read") /\ UNCHANGED lock
     ELSE /\ lock' = [dir |-> Me(p), owner |-> Nobody, written |-> FALSE, reaping |-> FALSE]
          /\ Goto(p, "create")
  /\ UNCHANGED <<calls, seen, listed, raced>>

\* Faulty: writes the process id and no token.
CreateOwnerWithoutToken(p) ==
  /\ pc[p] = "create"
  /\ IF Exists /\ lock.owner = Nobody
     THEN lock' = [lock EXCEPT !.owner = <<p, 0>>, !.written = FALSE] /\ Goto(p, "write")
     ELSE Goto(p, "undo") /\ UNCHANGED lock
  /\ UNCHANGED <<calls, seen, listed, raced>>

\* owner.json is created exclusively; if that fails the attempt is undone.
CreateOwner(p) ==
  /\ pc[p] = "create"
  /\ IF Exists /\ lock.owner = Nobody
     THEN lock' = [lock EXCEPT !.owner = Me(p), !.written = FALSE] /\ Goto(p, "write")
     ELSE Goto(p, "undo") /\ UNCHANGED lock
  /\ UNCHANGED <<calls, seen, listed, raced>>

\* The open file is written, wherever its directory entry is by now.
WriteOwner(p) ==
  /\ pc[p] = "write"
  /\ lock' = IF Exists /\ lock.owner = Me(p) THEN [lock EXCEPT !.written = TRUE] ELSE lock
  /\ Goto(p, "inside")
  /\ UNCHANGED <<calls, seen, listed, raced>>

\* The call fails; it looks whether the directory is still the one it made,
UndoLock(p) ==
  /\ pc[p] = "undo"
  /\ Goto(p, IF Exists /\ lock.dir = Me(p) THEN "rmdir" ELSE "idle")
  /\ UNCHANGED <<lock, calls, seen, listed, raced>>

\* and removes the directory that is there by then, when it is empty.
RemoveUndone(p) ==
  /\ pc[p] = "rmdir"
  /\ lock' = IF Exists /\ lock.owner = Nobody /\ ~lock.reaping THEN NoLock ELSE lock
  /\ Goto(p, "idle")
  /\ UNCHANGED <<calls, seen, listed, raced>>

---------------------------------------------------------------------------
(* Reclaiming the lock of a dead owner.                                    *)

ReadOwner(p) ==
  /\ pc[p] = "read"
  /\ seen' = [seen EXCEPT ![p] = OwnerRead]
  /\ Goto(p, IF Unreadable THEN "idle"
             ELSE IF OwnerRead = Nobody \/ ProcessExists(OwnerRead) THEN "wait" ELSE "claim")
  /\ UNCHANGED <<lock, calls, listed, raced>>

ClaimReaping(p) ==
  /\ pc[p] = "claim"
  /\ IF Exists /\ ~lock.reaping
     THEN lock' = [lock EXCEPT !.reaping = TRUE] /\ Goto(p, "reread")
     ELSE Goto(p, "wait") /\ UNCHANGED lock
  /\ UNCHANGED <<calls, seen, listed, raced>>

\* p removes a lock because its owner is dead.
Reaps(p) == pc[p] \in Removing /\ ~ProcessExists(seen[p])

\* Faulty: trusts the owner read before the claim.
RereadNobody(p) ==
  /\ pc[p] = "reread"
  /\ Goto(p, "list") /\ raced' = (raced \/ \E q \in Procs : Reaps(q))
  /\ UNCHANGED <<lock, calls, seen, listed>>

RereadOwner(p) ==
  /\ pc[p] = "reread"
  /\ IF ~Unreadable /\ OwnerRead = seen[p] /\ ~ProcessExists(seen[p])
     THEN Goto(p, "list") /\ raced' = (raced \/ \E q \in Procs : Reaps(q))
     ELSE Goto(p, IF Unreadable THEN "idle" ELSE "unclaim") /\ UNCHANGED raced
  /\ UNCHANGED <<lock, calls, seen, listed>>

\* rmdir throws when the directory is gone.
Unclaim(p) ==
  /\ pc[p] = "unclaim"
  /\ IF Exists /\ lock.reaping
     THEN lock' = [lock EXCEPT !.reaping = FALSE] /\ Goto(p, "wait")
     ELSE Goto(p, "idle") /\ UNCHANGED lock
  /\ UNCHANGED <<calls, seen, listed, raced>>

Retry(p) ==
  /\ pc[p] = "wait"
  /\ Goto(p, "mkdir")
  /\ UNCHANGED <<lock, calls, seen, listed, raced>>

\* The deadline has passed.
GiveUp(p) ==
  /\ pc[p] = "wait"
  /\ Goto(p, "idle")
  /\ UNCHANGED <<lock, calls, seen, listed, raced>>

---------------------------------------------------------------------------
(* Leaving, and the recursive removal that leaving and reaping share: its  *)
(* entries are listed, removed in any order, then the directory itself.    *)

LeaveWork(p) ==
  /\ pc[p] = "inside"
  /\ Goto(p, "leave")
  /\ UNCHANGED <<lock, calls, seen, listed, raced>>

Release(p) ==
  /\ pc[p] = "leave"
  /\ seen' = [seen EXCEPT ![p] = OwnerRead]
  /\ Goto(p, IF ~Unreadable /\ OwnerRead = Me(p) THEN "list" ELSE "idle")
  /\ UNCHANGED <<lock, calls, listed, raced>>

Entries ==
  {e \in {"owner", "reaping"} :
     Exists /\ (IF e = "owner" THEN lock.owner # Nobody ELSE lock.reaping)}

ListEntries(p) ==
  /\ pc[p] = "list"
  /\ listed' = [listed EXCEPT ![p] = Entries]
  /\ Goto(p, "unlink")
  /\ UNCHANGED <<lock, calls, seen, raced>>

\* A listed entry that is gone by now is passed over.
UnlinkEntry(p, e) ==
  /\ pc[p] = "unlink" /\ e \in listed[p]
  /\ lock' = IF e \notin Entries THEN lock
             ELSE IF e = "owner" THEN [lock EXCEPT !.owner = Nobody, !.written = FALSE]
             ELSE [lock EXCEPT !.reaping = FALSE]
  /\ listed' = [listed EXCEPT ![p] = @ \ {e}]
  /\ UNCHANGED <<pc, calls, seen, raced>>

\* A directory that is not empty fails the call.  Otherwise the holder is done,
\* and the reaper, whose turn it was to wait, tries again.
RemoveLock(p) ==
  /\ pc[p] = "unlink" /\ listed[p] = {}
  /\ IF Entries # {}
     THEN Goto(p, "idle") /\ UNCHANGED lock
     ELSE lock' = NoLock /\ Goto(p, IF seen[p] = Me(p) THEN "idle" ELSE "wait")
  /\ UNCHANGED <<calls, seen, listed, raced>>

Die(p) ==
  /\ pc[p] \notin Outside
  /\ Goto(p, "dead")
  /\ UNCHANGED <<lock, calls, seen, listed, raced>>

---------------------------------------------------------------------------
\* A call goes on by itself from here.
Step(p) ==
  \/ MakeLock(p) \/ CreateOwner(p) \/ WriteOwner(p) \/ UndoLock(p) \/ RemoveUndone(p)
  \/ ReadOwner(p) \/ ClaimReaping(p) \/ RereadOwner(p) \/ Unclaim(p) \/ Retry(p)
  \/ LeaveWork(p) \/ Release(p) \/ ListEntries(p) \/ RemoveLock(p)
  \/ \E e \in {"owner", "reaping"} : UnlinkEntry(p, e)

Next == \E p \in Procs : Begin(p) \/ Step(p) \/ GiveUp(p) \/ Die(p)

Spec == Init /\ [][Next]_vars

---------------------------------------------------------------------------
(* Safety.                                                                 *)

Inside(p) == pc[p] = "inside"

\* Two processes never work on the root at once ("locks serialize cooperating
\* MySkills processes").
MutualExclusion == \A p, q \in Procs : Inside(p) /\ Inside(q) => p = q

\* They do not whoever dies and whenever, until two contenders have reaped the
\* lock of one dead owner at the same time: late contenders that read, claim,
\* unclaim and remove by path never take the lock of a living process.
MutualExclusionOfTheLiving == ~raced => MutualExclusion

\* Until then, whoever works on the root owns the lock others see.
HolderOwnsLock ==
  ~raced => \A p \in Procs : Inside(p) => Exists /\ lock.owner = Me(p) /\ lock.written

\* Why it is so: whoever is between making the directory and removing it is the
\* one who made it, or alone reaps what a dead process made.
MadeByMe(p) == Exists /\ lock.dir = Me(p)
OwnedByMe(p) == MadeByMe(p) /\ lock.owner = Me(p)
MadeByTheDead(p) == Exists /\ lock.dir = seen[p] /\ ~ProcessExists(seen[p])
Turn(p) ==
  /\ pc[p] \notin {"undo", "rmdir"}
  /\ pc[p] = "create" => MadeByMe(p) /\ lock.owner = Nobody
  /\ pc[p] = "write" => OwnedByMe(p)
  /\ pc[p] \in Holding => OwnedByMe(p) /\ lock.written
  /\ pc[p] \in Removing => MadeByTheDead(p) \/ (MadeByMe(p) /\ seen[p] = Me(p))
  /\ pc[p] = "list" => lock.owner = seen[p]
  /\ pc[p] = "unlink" => lock.owner = Nobody \/ (lock.owner = seen[p] /\ "owner" \in listed[p])
TurnsAreTaken ==
  ~raced =>
    /\ Exists => lock.owner \in {Nobody, lock.dir}
    /\ \A p \in Procs : Turn(p)
    /\ \A p, q \in Procs : Reaps(p) /\ Reaps(q) => p = q

\* A contender claims and rereads, and a removal goes on, with an owner in mind; to
\* reap, the owner was dead.
OwnersAreKnown ==
  /\ \A p \in Procs : pc[p] \in {"claim", "reread"} => seen[p] \in Calls /\ ~ProcessExists(seen[p])
  /\ \A p \in Procs : pc[p] \in Removing => seen[p] \in Calls

\* A call under way has its number.
CallsAreCounted == \A p \in Procs : pc[p] # "idle" => Me(p) \in Calls

IInv == TypeOK /\ CallsAreCounted /\ OwnersAreKnown /\ TurnsAreTaken

---------------------------------------------------------------------------
(* Liveness.                                                               *)

Fairness == \A p \in Procs : WF_vars(Step(p))
FairSpec == Spec /\ Fairness

\* The lock is half made, half removed or half reaped and no living process is
\* at work on it: that is left to an operator.  A crash leads there, and so does
\* a late reaper whose directory makes a release fail.
AtWork == {"create", "write", "undo", "rmdir", "reread", "unclaim"} \cup Holding \cup Removing
Stuck == Exists /\ (~lock.written \/ lock.reaping) /\ \A p \in Procs : pc[p] \notin AtWork

Contends(p) == pc[p] \in Contending

\* A contender that keeps trying gets somewhere: the lock of a dead owner is
\* reclaimed and that of a live one released.
ContenderEnters == \A p \in Procs : Contends(p) ~> ~Contends(p) \/ Stuck
===========================================================================
