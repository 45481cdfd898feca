------------------------------ MODULE Companion ------------------------------
(***************************************************************************)
(* "myskills companion run-once" (apps/cli/src/cli.ts, companion-lease.ts):*)
(* under the lock of an enrolled root it claims an operation of the target,*)
(* swaps the trees of one skill from release 1 to release 2, and reports.  *)
(* It renews its claim at checkpoints, and a timer renews it in between;   *)
(* renewals are sent one after the other.  Requests are slow, get lost or  *)
(* outlive their process, processes die, claims are withdrawn, and the     *)
(* user edits the tree or runs commands of his own.                        *)
(*                                                                         *)
(* The queue behind the requests is TargetOperations, the lock is          *)
(* InstallRootLock and the journaled transaction InstallTransaction: here  *)
(* they are one operation, a holder, and one step each for what a command  *)
(* makes durable and for what the next one recovers.  Client and server    *)
(* read the same clock.                                                    *)
(***************************************************************************)
EXTENDS Naturals, Sequences

CONSTANTS
  Companions,   \* processes
  NoCompanion,  \* nobody
  LeaseTime,    \* leaseSeconds, in ticks
  MaxTime,      \* when the clock stops
  MaxClaims,    \* claims of the operation
  MaxStops,     \* deaths and lost answers
  MaxEdits      \* edits and commands of the user

VARIABLES
  now,
  op,         \* the operation's row: state, fence, end of its lease
  withdrawn,  \* TRUE once the target refuses the operation's claims
  calls,      \* requests on their way
  lock,       \* who works on the root
  disk,       \* the active tree, the registry's release, the journal
  cli,        \* what each companion is doing
  checked,    \* the last durable step of each was followed by a granted renewal
  seen,       \* fences whose companion has read the planned release back
  stops, edits

vars == <<now, op, withdrawn, calls, lock, disk, cli, checked, seen, stops, edits>>

Active == {"claimed", "applying", "verifying"}
Gone == [at |-> "gone"]

Init ==
  /\ now = 0
  /\ op = [state |-> "queued", fence |-> 0, expires |-> 0]
  /\ withdrawn = FALSE
  /\ calls = {}
  /\ lock = NoCompanion
  /\ disk = [tree |-> 1, registry |-> 1, journal |-> "none"]
  /\ cli = [p \in Companions |-> Gone]
  /\ checked = [p \in Companions |-> FALSE]
  /\ seen = {}
  /\ stops = 0 /\ edits = 0

At(p, at) == cli[p].at = at
Goto(p, at) == cli' = [cli EXCEPT ![p] = [@ EXCEPT !.at = at]]
LocalOnly == UNCHANGED <<now, op, withdrawn, stops, edits>>

---------------------------------------------------------------------------
(* The server, as far as one claim of one operation goes.                  *)

Current(q) == op.state \in Active /\ op.fence = q.fence /\ now < op.expires

AdvanceFrom(s) == IF s = "applying" THEN {"claimed", "applying"} ELSE {"applying", "verifying"}

Renewable(q) == Current(q) /\ ~withdrawn /\ op.state \in AdvanceFrom(q.state)

\* A failure is recorded even if the target refuses claims by now; a success
\* needs the verifying state too.
Completable(q) ==
  /\ Current(q) /\ op.state \in {"applying", "verifying"}
  /\ (q.state = "succeeded") => (op.state = "verifying" /\ ~withdrawn)

---------------------------------------------------------------------------
(* CompanionLease.                                                         *)

IsFresh(p) == ~cli[p].failed /\ ~cli[p].stopped /\ now < cli[p].expires

Call(p, s) == [from |-> p, fence |-> cli[p].fence, state |-> s]
Renewals == {q \in calls : q.state \in {"applying", "verifying"}}
OnItsWay(p) == \E q \in Renewals : q.from = p

\* Faulty: a renewal does not wait for the one before it.
RenewAtOnce(p, by, s, at) ==
  /\ calls' = calls \cup {Call(p, s)}
  /\ cli' = [cli EXCEPT ![p] = [@ EXCEPT !.at = at, !.said = s, !.timer = FALSE,
                                      !.queue = Append(cli[p].queue, [by |-> by, state |-> s])]]

\* checkpoint: a renewal waits for the ones before it.
Renew(p, by, s, at) ==
  /\ cli' = [cli EXCEPT ![p] = [@ EXCEPT !.at = at, !.timer = cli[p].timer /\ by # "timer",
                                      !.queue = Append(cli[p].queue, [by |-> by, state |-> s])]]
  /\ UNCHANGED calls

\* A checkpoint of the command; it goes on at "then".
Checkpoint(p, from, s, then) ==
  /\ At(p, from)
  /\ Renew(p, then, s, "wait")
  /\ LocalOnly /\ UNCHANGED <<lock, disk, checked, seen>>

\* The timer set by the last renewal, with the state that was sent last. A
\* renewal that may be sent is sent before the timer gets its turn, and a request
\* times out well before the next timer.
TimerFires(p) ==
  /\ ~At(p, "gone") /\ cli[p].timer
  /\ cli[p].queue # <<>> => OnItsWay(p)
  /\ \A i \in DOMAIN cli[p].queue : cli[p].queue[i].by # "timer"
  /\ Renew(p, "timer", cli[p].said, cli[p].at)
  /\ LocalOnly /\ UNCHANGED <<lock, disk, checked, seen>>

\* A failure is kept: all that wait fail, and so does every later checkpoint.
Failed(p) ==
  cli' = [cli EXCEPT ![p] = [@ EXCEPT !.failed = TRUE, !.queue = <<>>, !.timer = FALSE,
                                      !.at = IF At(p, "wait") THEN "fail" ELSE cli[p].at]]

SendRenewal(p) ==
  /\ ~At(p, "gone") /\ cli[p].queue # <<>> /\ ~OnItsWay(p)
  /\ LET s == Head(cli[p].queue).state
     IN  IF IsFresh(p)
           THEN calls' = calls \cup {Call(p, s)} /\ cli' = [cli EXCEPT ![p] = [@ EXCEPT !.said = s]]
           ELSE Failed(p) /\ UNCHANGED calls
  /\ LocalOnly /\ UNCHANGED <<lock, disk, checked, seen>>

\* The answer to the renewal at the head: the next one may be sent, the timer is
\* set, and the command goes on if it was its own.
Renewed(p) ==
  LET h == Head(cli[p].queue)
  IN  cli' = [cli EXCEPT ![p] = [@ EXCEPT !.expires = now + LeaseTime, !.queue = Tail(cli[p].queue),
                                          !.timer = ~cli[p].stopped,
                                          !.at = IF h.by = "timer" THEN cli[p].at ELSE h.by]]

\* The store's advance, and its answer to whoever waits for it.
ServeRenewal(q) ==
  /\ q \in Renewals
  /\ calls' = calls \ {q}
  /\ IF Renewable(q)
       THEN /\ op' = [op EXCEPT !.state = q.state, !.expires = now + LeaseTime]
            /\ checked' = IF q.from = NoCompanion THEN checked ELSE [checked EXCEPT ![q.from] = TRUE]
       ELSE UNCHANGED <<op, checked>>
  /\ IF q.from = NoCompanion THEN UNCHANGED cli
     ELSE IF Renewable(q) /\ cli[q.from].queue # <<>> THEN Renewed(q.from) ELSE Failed(q.from)
  /\ UNCHANGED <<now, withdrawn, lock, disk, seen, stops, edits>>

---------------------------------------------------------------------------
(* companionCommand, executeTargetOperation, installSkillVersion.          *)

\* Faulty: "companion" is not among the commands that take the lock.
IsFreeForAll == TRUE

IsFree == lock = NoCompanion

\* It takes the lock of the root and claims.
Claim(p) ==
  /\ At(p, "gone") /\ IsFree
  /\ op.state = "queued" \/ (op.state \in Active /\ op.expires <= now)
  /\ ~withdrawn /\ op.fence < MaxClaims
  /\ lock' = p
  /\ op' = [state |-> "claimed", fence |-> op.fence + 1, expires |-> now + LeaseTime]
  /\ cli' = [cli EXCEPT ![p] = [at |-> "claimed", fence |-> op.fence + 1, expires |-> now + LeaseTime,
               failed |-> FALSE, said |-> "applying", queue |-> <<>>, timer |-> FALSE, stopped |-> FALSE]]
  /\ checked' = [checked EXCEPT ![p] = FALSE]
  /\ UNCHANGED <<now, withdrawn, calls, disk, seen, stops, edits>>

\* Recovery forgets a transaction whose tree is the registered one. In an
\* enrolled workspace it touches nothing else, and the command that starts it
\* fails.
Recovered == [disk EXCEPT !.journal = "none"]
Unrecoverable == disk.journal # "none" /\ disk.tree # disk.registry

\* Does the root hold the planned release already, or the one it starts from?
Plan(p) ==
  /\ At(p, "read")
  /\ IF Unrecoverable THEN Goto(p, "fail") /\ UNCHANGED disk
     ELSE /\ disk' = Recovered
          /\ Goto(p, CASE disk'.registry = 2 /\ disk'.tree = 2 -> "executed"
                       [] disk'.registry = 1 /\ disk'.tree = 1 -> "stage"
                       [] OTHER -> "fail")
  /\ LocalOnly /\ UNCHANGED <<calls, lock, checked, seen>>

\* A durable step has to be followed by a checkpoint.
Durable(p, from, to, d) ==
  /\ At(p, from)
  /\ disk' = d
  /\ checked' = [checked EXCEPT ![p] = FALSE]
  /\ Goto(p, to)
  /\ LocalOnly /\ UNCHANGED <<calls, lock, seen>>

Prepare(p) == Durable(p, "stage", "prepared", [disk EXCEPT !.journal = "prepared"])

\* assertInstalledBytes, and the rename of the old tree.
MoveAside(p) ==
  \/ /\ disk.tree = 1
     /\ Durable(p, "move", "moved", [disk EXCEPT !.tree = 0, !.journal = "previous-staged"])
  \/ /\ At(p, "move") /\ disk.tree # 1
     /\ Goto(p, "fail")
     /\ LocalOnly /\ UNCHANGED <<calls, lock, disk, checked, seen>>

\* Faulty: trusts the checkpoint before the old tree was moved.
CheckpointOnce(p) ==
  /\ At(p, "moved") /\ Goto(p, "promote")
  /\ LocalOnly /\ UNCHANGED <<calls, lock, disk, checked, seen>>

\* checkpointInstallPromotion: recovery after a failure is refused here.
CheckPromotion(p) == Checkpoint(p, "moved", "applying", "promote")

Promote(p) == Durable(p, "promote", "promoted", [disk EXCEPT !.tree = 2, !.journal = "installed"])

\* The registry and the journal, once the promoted bytes are verified.
Commit(p) ==
  \/ /\ disk.tree = 2
     /\ Durable(p, "promoted", "committed", [disk EXCEPT !.registry = 2, !.journal = "registry-committed"])
  \/ /\ At(p, "promoted") /\ disk.tree # 2
     /\ Goto(p, "fail")
     /\ LocalOnly /\ UNCHANGED <<calls, lock, disk, checked, seen>>

Finish(p) ==
  /\ At(p, "committed")
  /\ disk' = [disk EXCEPT !.journal = "none"]
  /\ Goto(p, "executed")
  /\ LocalOnly /\ UNCHANGED <<calls, lock, checked, seen>>

\* Faulty: believes the registry.
IsRegistered == disk.registry = 2

\* The readback: the registry's release and the bytes of the tree.
IsInstalled == disk.registry = 2 /\ disk.tree = 2

ReadBack(p) ==
  /\ At(p, "readback")
  /\ Goto(p, IF IsInstalled THEN "verified" ELSE "fail")
  /\ seen' = IF disk.registry = 2 /\ disk.tree = 2 THEN seen \cup {cli[p].fence} ELSE seen
  /\ LocalOnly /\ UNCHANGED <<calls, lock, disk, checked>>

\* A receipt; the one of a failure is sent whatever the failure was.
SendReceipt(p, from, s) ==
  /\ At(p, from)
  /\ calls' = calls \cup {Call(p, s)}
  /\ Goto(p, s)
  /\ LocalOnly /\ UNCHANGED <<lock, disk, checked, seen>>

\* After the receipt of a success the command is done; one that is refused is
\* followed by the receipt of a failure.
Answered(p, s, accepted) ==
  cli' = [cli EXCEPT ![p] = [@ EXCEPT !.at = IF s = "succeeded" /\ ~accepted THEN "fail" ELSE "stop"]]

ServeReceipt(q) ==
  /\ q \in calls /\ q.state \in {"succeeded", "failed"}
  /\ calls' = calls \ {q}
  /\ op' = IF Completable(q) THEN [op EXCEPT !.state = q.state] ELSE op
  /\ IF q.from = NoCompanion THEN UNCHANGED cli ELSE Answered(q.from, q.state, Completable(q))
  /\ UNCHANGED <<now, withdrawn, lock, disk, checked, seen, stops, edits>>

\* stop waits for the renewals that were asked for; the lock is released.
Stop(p) ==
  /\ At(p, "stop")
  /\ cli' = [cli EXCEPT ![p] = [@ EXCEPT !.at = "leave", !.stopped = TRUE, !.timer = FALSE]]
  /\ LocalOnly /\ UNCHANGED <<calls, lock, disk, checked, seen>>

Leave(p) ==
  /\ At(p, "leave") /\ ~OnItsWay(p) /\ cli[p].queue = <<>>
  /\ cli' = [cli EXCEPT ![p] = Gone]
  /\ lock' = NoCompanion
  /\ LocalOnly /\ UNCHANGED <<calls, disk, checked, seen>>

---------------------------------------------------------------------------
(* What goes wrong.                                                        *)

Orphaned(q) == (calls \ {q}) \cup {[q EXCEPT !.from = NoCompanion]}

\* A request times out and arrives later, or its answer is lost.
LoseAnswer(q) ==
  /\ q \in calls /\ q.from # NoCompanion /\ stops < MaxStops
  /\ stops' = stops + 1
  /\ calls' = Orphaned(q)
  /\ IF q.state \in {"succeeded", "failed"} THEN Answered(q.from, q.state, FALSE) ELSE Failed(q.from)
  /\ UNCHANGED <<now, op, withdrawn, lock, disk, checked, seen, edits>>

\* A process dies; the lock is taken from it (InstallRootLock).
Die(p) ==
  /\ ~At(p, "gone") /\ stops < MaxStops
  /\ stops' = stops + 1
  /\ calls' = {IF q.from = p THEN [q EXCEPT !.from = NoCompanion] ELSE q : q \in calls}
  /\ cli' = [cli EXCEPT ![p] = Gone]
  /\ lock' = IF lock = p THEN NoCompanion ELSE lock
  /\ UNCHANGED <<now, op, withdrawn, disk, checked, seen, edits>>

\* Consent or policy change, the target moves on, somebody cancels.
Withdraw ==
  /\ ~withdrawn /\ withdrawn' = TRUE
  /\ UNCHANGED <<now, op, calls, lock, disk, cli, checked, seen, stops, edits>>

\* The user edits installed files.
Edit ==
  /\ disk.tree \in {1, 2} /\ edits < MaxEdits
  /\ edits' = edits + 1
  /\ disk' = [disk EXCEPT !.tree = 3]
  /\ UNCHANGED <<now, op, withdrawn, calls, lock, cli, checked, seen, stops>>

\* The user updates or rolls back the skill with a command of his own.
UserCommand ==
  /\ lock = NoCompanion /\ edits < MaxEdits /\ ~Unrecoverable
  /\ edits' = edits + 1
  /\ LET d == Recovered
     IN  /\ d.tree = d.registry
         /\ disk' = [d EXCEPT !.tree = 3 - @, !.registry = 3 - @]
  /\ UNCHANGED <<now, op, withdrawn, calls, lock, cli, checked, seen, stops>>

Tick ==
  /\ now < MaxTime
  /\ now' = now + 1
  /\ UNCHANGED <<op, withdrawn, calls, lock, disk, cli, checked, seen, stops, edits>>

Work(p) ==
  \/ Claim(p) \/ Plan(p) \/ Prepare(p) \/ MoveAside(p) \/ CheckPromotion(p)
  \/ Promote(p) \/ Commit(p) \/ Finish(p) \/ ReadBack(p) \/ Stop(p) \/ Leave(p)
  \/ Checkpoint(p, "claimed", "applying", "read")
  \/ Checkpoint(p, "prepared", "applying", "move")
  \/ Checkpoint(p, "executed", "verifying", "readback")
  \/ Checkpoint(p, "verified", "verifying", "report")
  \/ SendReceipt(p, "report", "succeeded") \/ SendReceipt(p, "fail", "failed")

Next ==
  \/ \E p \in Companions : Work(p) \/ TimerFires(p) \/ SendRenewal(p) \/ Die(p)
  \/ \E q \in calls : ServeRenewal(q) \/ ServeReceipt(q) \/ LoseAnswer(q)
  \/ Withdraw \/ Edit \/ UserCommand \/ Tick

Spec == Init /\ [][Next]_vars

---------------------------------------------------------------------------
(* Properties.                                                             *)

Requests ==
  [from : Companions \cup {NoCompanion}, fence : 1..MaxClaims,
   state : {"applying", "verifying", "succeeded", "failed"}]

TypeOK ==
  /\ now \in 0..MaxTime /\ withdrawn \in BOOLEAN
  /\ op \in [state : Active \cup {"queued", "succeeded", "failed"}, fence : 0..MaxClaims, expires : 0..MaxTime + LeaseTime]
  /\ calls \subseteq Requests
  /\ lock \in Companions \cup {NoCompanion}
  /\ disk \in [tree : 0..3, registry : 1..2,
               journal : {"none", "prepared", "previous-staged", "installed", "registry-committed"}]
  /\ \A p \in Companions : At(p, "gone") \/ Len(cli[p].queue) <= 2
  /\ checked \in [Companions -> BOOLEAN]
  /\ seen \subseteq 1..MaxClaims
  /\ stops \in 0..MaxStops /\ edits \in 0..MaxEdits

\* A companion moves the old tree away or the new one in only while its claim is
\* the newest of the operation, and only after the server renewed the claim
\* since its last durable step (withInstallRootLock, beforeInstallPromotion,
\* checkpointInstallPromotion): a companion that was slow or dead never works
\* beside its successor.
MovesUnderNewestClaimStep ==
  \A p \in Companions :
    (At(p, "move") \/ At(p, "promote")) /\ disk'.tree # disk.tree =>
      \/ edits' # edits
      \/ cli[p].fence = op.fence /\ checked[p]

\* A renewal that is served while its claim is current and its target accepts
\* claims is granted: the renewals of the timer and those of the command never
\* overtake each other (CompanionLease.pending), or the late one would cost the
\* companion its lease in the middle of a promotion.
RenewalsAreOrderedStep ==
  \A q \in Renewals :
    Current(q) /\ ~withdrawn /\ q \notin calls' /\ [q EXCEPT !.from = NoCompanion] \notin calls' =>
      op'.state = q.state /\ op'.expires = now + LeaseTime

\* An operation that succeeded was read back under its last claim: the registry
\* named the planned release and the active tree held its bytes.
SuccessIsReadBack == op.state = "succeeded" => op.fence \in seen
---------------------------------------------------------------------------
(* Why they hold: an invariant that every step keeps.                      *)

\* Bounds are numbers, and nobody is not a companion.
CompanionAssumption ==
  /\ LeaseTime \in Nat /\ MaxTime \in Nat /\ MaxClaims \in Nat /\ MaxStops \in Nat /\ MaxEdits \in Nat
  /\ NoCompanion \notin Companions

\* Where a companion can be before and after the first renewal of its claim, and
\* where it is while it executes the operation, before it asks to verify.
Early == {"claimed", "wait", "fail", "failed", "stop", "leave"}
Executing == {"claimed", "read", "stage", "prepared", "move", "moved", "promote", "promoted",
              "committed", "executed"}
ReadBackSeen == {"verified", "report", "succeeded"}
Places == Early \cup Executing \cup {"readback"} \cup ReadBackSeen

\* What a renewal in the queue was asked for: the timer, or where the command goes on.
Asked == [by : {"timer", "read", "move", "promote", "readback", "report"},
          state : {"applying", "verifying"}]

\* The queue of a companion has at most one renewal of the timer, with the state that
\* was sent last, and at most one of the command, which waits for it.  A first renewal
\* as "verifying" is the last of the queue.
QueueFits(m) ==
  /\ m.queue \in Seq(Asked) /\ Len(m.queue) <= 2
  /\ \A i \in 1 .. Len(m.queue) :
       LET e == m.queue[i] IN
       /\ e.by = "timer" => e.state = m.said
       /\ e.by # "timer" => m.at = "wait"
       /\ e.by \in {"read", "move", "promote"} => m.said = "applying" /\ e.state = "applying"
       /\ e.by \in {"readback", "report"} => e.state = "verifying"
       /\ e.state # m.said => m.said = "applying" /\ i = Len(m.queue)
  /\ \A i, j \in 1 .. Len(m.queue) :
       (m.queue[i].by = "timer" <=> m.queue[j].by = "timer") => i = j

CliFits(m) ==
  /\ m = [at |-> m.at, fence |-> m.fence, expires |-> m.expires, failed |-> m.failed,
          said |-> m.said, queue |-> m.queue, timer |-> m.timer, stopped |-> m.stopped]
  /\ m.at \in Places /\ m.fence \in 1 .. MaxClaims /\ m.said \in {"applying", "verifying"}
  /\ m.at \in Executing => m.said = "applying"
  /\ QueueFits(m)

\* A companion at work has the lock and the newest claim; what it is about to move was
\* checked, and what it reports was read back.
CliAgrees(p, m) ==
  /\ lock = p /\ m.fence = op.fence
  /\ op.state = "verifying" => m.said = "verifying"
  /\ op.state = "claimed" =>
       /\ m.at \in Early /\ m.said = "applying"
       /\ \A i \in 1 .. Len(m.queue) : m.queue[i].by \in {"timer", "read"}
  /\ m.at \in {"move", "promote"} => checked[p]
  /\ m.at \in ReadBackSeen => m.fence \in seen
  /\ \A i \in 1 .. Len(m.queue) : m.queue[i].by = "report" => m.fence \in seen

\* A renewal under the newest claim is one that the server may grant, the only one, and
\* the head of its companion's queue, unless nobody waits for it any more.
RenewalAgrees(q) ==
  /\ q.state = "verifying" => op.state # "claimed"
  /\ q.state = "applying" => op.state # "verifying"
  /\ \A p \in Companions : ~At(p, "gone") =>
       /\ q.state = cli[p].said
       /\ q.from = p => cli[p].queue # <<>> /\ Head(cli[p].queue).state = cli[p].said
       /\ q.from = NoCompanion => cli[p].failed
  /\ \A other \in Renewals : other.fence = op.fence => other = q

CallsFit ==
  /\ calls \subseteq Requests
  /\ \A q \in calls :
       /\ q.fence <= op.fence
       /\ q.from # NoCompanion => ~At(q.from, "gone")
       /\ q.from # NoCompanion => q.fence = op.fence
       /\ q.from # NoCompanion /\ q.state \in {"succeeded", "failed"} => At(q.from, q.state)
       /\ q.state = "succeeded" => q.fence \in seen
  /\ \A q \in Renewals : q.fence = op.fence => RenewalAgrees(q)

IInv ==
  /\ TypeOK
  /\ cli = [p \in Companions |-> cli[p]]
  /\ \A p \in Companions : ~At(p, "gone") => CliFits(cli[p]) /\ CliAgrees(p, cli[p])
  /\ CallsFit
  /\ SuccessIsReadBack
=============================================================================
