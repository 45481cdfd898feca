---------------------------- MODULE LibraryChecks ----------------------------
(***************************************************************************)
(* Tracking of one source entry of a library: leased checks by the workers *)
(* and by users (checkNow), discovery without a lease, tracking edits,     *)
(* removal, and the review of a renamed repository.                        *)
(* Upstream is an external actor that pushes commits and renames the       *)
(* repository.  A check is a call that reads, asks GitHub, and writes in   *)
(* several transactions, each fenced by the lease id; other actors move    *)
(* between them.  Time shows as two facts only: the lease has lapsed, the  *)
(* next check is due.  Candidates are in module LibraryImports.            *)
(***************************************************************************)
EXTENDS Naturals, Sequences, SequencesExt

CONSTANTS Checks,       \* calls of runCheck that may run at the same time
          Names,        \* full names of the repository
          MaxPushes,    \* commits upstream after the first one
          MaxRenames,   \* renames upstream
          MaxEdits,     \* tracking edits
          MaxFaults,    \* calls that die or outlast their lease, truncated trees
          MaxAbsences,  \* times the team is without an effective owner
          MaxTrouble    \* all of these together, pushes apart

Free == "free"
Nobody == "nobody"
Review == "identity-change-review"
Healths == {"healthy", "failing", "not-tracked", "paused", Review}

VARIABLES entry,     \* the library_entries row; goodBy (who set the last good
                     \* snapshot) and halted (paused, no edit since) are history
          curator,   \* the owning team has an effective owner
          upstream,  \* name and newest commit at the provider
          snaps,     \* snapshot rows by sequence
          events,    \* announced transitions <<from commit, to commit>>
          call,      \* local state of each check
          disc,      \* local state of a discovery
          view,      \* revision and pending name a curator last looked at
          spent      \* renames, edits, faults and absences, for the bounds
vars == <<entry, curator, upstream, snaps, events, call, disc, view, spent>>

Idle == [pc |-> "idle", ack |-> Nobody, good |-> 0, name |-> Nobody, commit |-> 0, snap |-> 0]

\* A source that was just put on a schedule.
Init == /\ \E n \in Names :
             /\ entry = [status |-> "active", mode |-> "scheduled", next |-> "later", health |-> "healthy",
                         ack |-> n, pending |-> Nobody, lease |-> Free, lapsed |-> FALSE,
                         revision |-> 1, good |-> 0, goodBy |-> Nobody, halted |-> FALSE]
             /\ upstream = [name |-> n, commit |-> 1]
        /\ curator = TRUE
        /\ snaps = <<>>
        /\ events = {}
        /\ call = [c \in Checks |-> Idle]
        /\ disc = Idle
        /\ view = [revision |-> 0, pending |-> Nobody]
        /\ spent = [renames |-> 0, edits |-> 0, faults |-> 0, absences |-> 0]

-----------------------------------------------------------------------------
(* Rows and fences *)

Active == entry.status = "active"
\* The lock that pauseUnauthorizedTracking takes: the lease id alone.
Holds(c) == Active /\ entry.lease = c
\* lockEntryForWrite with a lease: the team still has a curator, the id is the
\* same.  Expiry is not asked for.
Fenced(c) == curator /\ Holds(c)
\* renewLease also asks that the lease has not lapsed.
Renewable(c) == Fenced(c) /\ ~entry.lapsed

AvailableWhenFree == entry.lease = Free
Available == entry.lease = Free \/ entry.lapsed
Release(row) == [row EXCEPT !.lease = Free, !.lapsed = FALSE]
Scheduled(m) == IF m = "scheduled" THEN "later" ELSE "none"
CommitOf(s) == IF s = 0 THEN 0 ELSE snaps[s].commit

\* The newest snapshot is used again when it is complete and of this commit.
Reusable(commit) == snaps # <<>> /\ Last(snaps).complete /\ Last(snaps).commit = commit

\* The bounds of the instance.
May(n, max) ==
  n < max /\ spent.renames + spent.edits + spent.faults + spent.absences < MaxTrouble

Goto(c, pc) == call' = [call EXCEPT ![c].pc = pc]
Done(c) == call' = [call EXCEPT ![c] = Idle]

-----------------------------------------------------------------------------
(* Starting a check *)

Start(c) ==
  /\ call[c].pc = "idle"
  /\ entry' = [entry EXCEPT !.lease = c, !.lapsed = FALSE]
  /\ call' = [call EXCEPT ![c] = [Idle EXCEPT !.pc = "begin", !.ack = entry.ack, !.good = entry.good]]
  /\ UNCHANGED <<curator, upstream, snaps, events, disc, view, spent>>

\* What a worker may claim.
Claimable == /\ Active
             /\ entry.mode = "scheduled" /\ entry.next = "due"
             /\ entry.health \notin {Review, "paused"} /\ entry.pending = Nobody
             /\ Available
Claim(c) == Claimable /\ Start(c)

CheckNow(c) == /\ Active /\ curator /\ entry.health # "paused" /\ Available
               /\ Start(c)

-----------------------------------------------------------------------------
(* The phases of runCheck *)

\* Every phase that loses the lease ends the check without a write.  A phase
\* that finds no curator goes to pause the tracking instead.
LeaseLost(c) ==
  /\ call[c].pc \notin {"idle", "unauthorized"}
  /\ curator
  /\ ~Holds(c) \/ (call[c].pc \in {"begin", "renew"} /\ entry.lapsed)
  /\ Done(c)
  /\ UNCHANGED <<entry, curator, upstream, snaps, events, disc, view, spent>>

Unauthorized(c) ==
  /\ call[c].pc \notin {"idle", "unauthorized"}
  /\ ~curator
  /\ Goto(c, "unauthorized")
  /\ UNCHANGED <<entry, curator, upstream, snaps, events, disc, view, spent>>

\* The renewal, then the repository by its id, then the ref.  A commit that is
\* the last good one needs nothing more; the newest snapshot is used again; any
\* other needs a tree request and another renewal.
NextPhase(c) == IF upstream.name # call[c].ack THEN "renamed"
                ELSE IF CommitOf(call[c].good) = upstream.commit THEN "finish"
                ELSE IF Reusable(upstream.commit) THEN "announce" ELSE "renew"
SnapshotFor(c) == IF NextPhase(c) = "finish" THEN call[c].good
                  ELSE IF NextPhase(c) = "announce" THEN Len(snaps) ELSE 0
Begin(c) ==
  /\ call[c].pc = "begin" /\ Renewable(c)
  /\ call' = [call EXCEPT ![c].pc = NextPhase(c), ![c].snap = SnapshotFor(c), ![c].ack = Nobody,
                          ![c].name = IF NextPhase(c) = "renamed" THEN upstream.name ELSE Nobody,
                          ![c].commit = IF NextPhase(c) = "renew" THEN upstream.commit ELSE 0]
  /\ UNCHANGED <<entry, curator, upstream, snaps, events, disc, view, spent>>

\* A name that is new to the entry also moves the revision.
MarkedSilently(name) == [entry EXCEPT !.health = Review, !.pending = name]
Marked(name) == [entry EXCEPT !.health = Review, !.pending = name,
                              !.revision = IF entry.pending = name THEN @ ELSE @ + 1]
MarkIdentityChange(c) ==
  /\ call[c].pc = "renamed" /\ Fenced(c)
  /\ entry' = Release(Marked(call[c].name))
  /\ Done(c)
  /\ UNCHANGED <<curator, upstream, snaps, events, disc, view, spent>>

Renew(c) ==
  /\ call[c].pc = "renew" /\ Renewable(c)
  /\ Goto(c, "store")
  /\ UNCHANGED <<entry, curator, upstream, snaps, events, disc, view, spent>>

\* insertSnapshot looks for a reusable one again, inside its transaction.
Insert(commit) ==
  \E whole \in BOOLEAN :
    /\ ~whole => May(spent.faults, MaxFaults)
    /\ spent' = [spent EXCEPT !.faults = IF whole THEN @ ELSE @ + 1]
    /\ snaps' = IF whole /\ Reusable(commit) THEN snaps
                ELSE Append(snaps, [commit |-> commit, complete |-> whole])

\* A store that forgets to look whether the tree was truncated.
StoreTruncated(c) ==
  /\ call[c].pc = "store" /\ Fenced(c)
  /\ Insert(call[c].commit)
  /\ call' = [call EXCEPT ![c].snap = Len(snaps'), ![c].commit = 0, ![c].pc = "announce"]
  /\ UNCHANGED <<entry, curator, upstream, events, disc, view>>
Store(c) ==
  /\ call[c].pc = "store" /\ Fenced(c)
  /\ Insert(call[c].commit)
  /\ call' = [call EXCEPT ![c].snap = Len(snaps'), ![c].commit = 0,
                          ![c].pc = IF Last(snaps').complete THEN "announce" ELSE "broken"]
  /\ UNCHANGED <<entry, curator, upstream, events, disc, view>>

\* rootChangeEvents: one transaction, nothing to announce before a first
\* good snapshot; a key that exists is not written again.
Announce(c) ==
  /\ call[c].pc = "announce"
  /\ call[c].good # 0 => Fenced(c)
  /\ events' = IF call[c].good = 0 THEN events
               ELSE events \cup {<<CommitOf(call[c].good), CommitOf(call[c].snap)>>}
  /\ Goto(c, "finish")
  /\ UNCHANGED <<entry, curator, upstream, snaps, disc, view, spent>>

\* finishCheck after a success and after a failure.
Succeeded(c) == [entry EXCEPT !.health = "healthy", !.pending = Nobody,
                              !.next = Scheduled(entry.mode),
                              !.good = call[c].snap, !.goodBy = c]
FailedPlainly == [entry EXCEPT !.health = "failing", !.next = Scheduled(entry.mode)]
Failed == [entry EXCEPT !.health = IF entry.pending # Nobody THEN Review ELSE "failing",
                        !.next = Scheduled(entry.mode)]

\* A finish that trusts its own copy of the lease.
FinishUnfenced(c) ==
  /\ call[c].pc = "finish" /\ curator /\ Active
  /\ entry' = Release(Succeeded(c))
  /\ Done(c)
  /\ UNCHANGED <<curator, upstream, snaps, events, disc, view, spent>>
FinishCheck(c) ==
  /\ call[c].pc = "finish" /\ Fenced(c)
  /\ entry' = Release(Succeeded(c))
  /\ Done(c)
  /\ UNCHANGED <<curator, upstream, snaps, events, disc, view, spent>>

\* The provider fails while it is asked, or the tree is truncated.
FailCheck(c) ==
  /\ call[c].pc \in {"begin", "renew", "broken"} /\ Fenced(c)
  /\ entry' = Release(Failed)
  /\ Done(c)
  /\ UNCHANGED <<curator, upstream, snaps, events, disc, view, spent>>

\* pauseUnauthorizedTracking: pauses if there is still no curator, and gives
\* the lease back in any case, as long as it is this check's.
PauseUnauthorizedTracking(c) ==
  /\ call[c].pc = "unauthorized"
  /\ entry' = IF ~Holds(c) THEN entry
              ELSE IF curator THEN Release(entry)
              ELSE Release([entry EXCEPT !.health = "paused", !.next = "none", !.halted = TRUE,
                                    !.revision = @ + 1])
  /\ Done(c)
  /\ UNCHANGED <<curator, upstream, snaps, events, disc, view, spent>>

Die(c) == /\ call[c].pc # "idle" /\ May(spent.faults, MaxFaults)
          /\ spent' = [spent EXCEPT !.faults = @ + 1]
          /\ Done(c)
          /\ UNCHANGED <<entry, curator, upstream, snaps, events, disc, view>>

-----------------------------------------------------------------------------
(* Discovery: no lease; the last good snapshot it sets is the first one, as
   far as it read at its start. *)

DiscoveryWriter == Active /\ curator

Discover ==
  /\ disc.pc = "idle" /\ DiscoveryWriter
  /\ IF upstream.name # entry.ack
     THEN entry' = Marked(upstream.name) /\ UNCHANGED disc
     ELSE /\ CommitOf(entry.good) # upstream.commit
          /\ disc' = [Idle EXCEPT !.pc = "capture", !.good = entry.good, !.commit = upstream.commit]
          /\ UNCHANGED entry
  /\ UNCHANGED <<curator, upstream, snaps, events, call, view, spent>>

\* captureSnapshot of a discovery.  markLastGoodSnapshot writes only over no
\* snapshot; insertSnapshot writes whatever is there now.
Capture ==
  /\ disc.pc = "capture"
  /\ disc' = Idle
  /\ \/ ~DiscoveryWriter /\ UNCHANGED <<entry, snaps, spent>>
     \/ /\ DiscoveryWriter /\ Reusable(disc.commit)
        /\ entry' = IF disc.good = 0 /\ entry.good = 0
                    THEN [entry EXCEPT !.good = Len(snaps), !.goodBy = "discovery"] ELSE entry
        /\ UNCHANGED <<snaps, spent>>
     \/ /\ DiscoveryWriter /\ ~Reusable(disc.commit)
        /\ Insert(disc.commit)
        /\ entry' = IF disc.good = 0 /\ Last(snaps').complete
                    THEN [entry EXCEPT !.good = Len(snaps'), !.goodBy = "discovery"] ELSE entry
  /\ UNCHANGED <<curator, upstream, events, call, view>>

-----------------------------------------------------------------------------
(* Curators, upstream and time *)

\* A curator reads about a rename and may answer much later.
LookAtEntry == /\ entry.pending # Nobody
               /\ view' = [revision |-> entry.revision, pending |-> entry.pending]
               /\ UNCHANGED <<entry, curator, upstream, snaps, events, call, disc, spent>>

\* updateTracking with the revision that the curator saw.  An edit that
\* accepts no name is made from a fresh look: a stale one is refused whatever
\* it says.  A schedule needs that no name is left pending.
EditedHealth(mode, accept) ==
  IF entry.pending # Nobody /\ ~accept THEN Review
  ELSE IF mode = "off" THEN "not-tracked"
  ELSE IF entry.health \in {"not-tracked", Review, "paused"} THEN "healthy" ELSE entry.health
\* The same without the comparison of revisions.
UpdateTrackingUnseen(mode, accept) ==
  /\ Active /\ curator
  /\ May(spent.edits, MaxEdits) /\ spent' = [spent EXCEPT !.edits = @ + 1]
  /\ accept => entry.pending # Nobody
  /\ (entry.pending # Nobody /\ mode = "scheduled") => accept
  /\ entry' = Release([entry EXCEPT !.mode = mode, !.next = Scheduled(mode),
                                    !.health = EditedHealth(mode, accept),
                                    !.ack = IF accept THEN entry.pending ELSE @,
                                    !.pending = IF accept THEN Nobody ELSE @, !.halted = FALSE,
                                    !.revision = @ + 1])
  /\ UNCHANGED <<curator, upstream, snaps, events, call, disc, view>>
UpdateTracking(mode, accept) ==
  /\ Active /\ curator
  /\ May(spent.edits, MaxEdits) /\ spent' = [spent EXCEPT !.edits = @ + 1]
  /\ accept => (entry.pending # Nobody /\ view.revision = entry.revision)
  /\ (entry.pending # Nobody /\ mode = "scheduled") => accept
  /\ entry' = Release([entry EXCEPT !.mode = mode, !.next = Scheduled(mode),
                                    !.health = EditedHealth(mode, accept),
                                    !.ack = IF accept THEN entry.pending ELSE @,
                                    !.pending = IF accept THEN Nobody ELSE @, !.halted = FALSE,
                                    !.revision = @ + 1])
  /\ UNCHANGED <<curator, upstream, snaps, events, call, disc, view>>

RemoveEntry ==
  /\ Active /\ curator
  /\ entry' = Release([entry EXCEPT !.status = "removed", !.mode = "off", !.next = "none",
                                    !.health = "not-tracked", !.revision = @ + 1])
  /\ UNCHANGED <<curator, upstream, snaps, events, call, disc, view, spent>>

Push == /\ upstream.commit <= MaxPushes
        /\ upstream' = [upstream EXCEPT !.commit = @ + 1]
        /\ UNCHANGED <<entry, curator, snaps, events, call, disc, view, spent>>
Rename == /\ May(spent.renames, MaxRenames)
          /\ \E n \in Names \ {upstream.name} : upstream' = [upstream EXCEPT !.name = n]
          /\ spent' = [spent EXCEPT !.renames = @ + 1]
          /\ UNCHANGED <<entry, curator, snaps, events, call, disc, view>>

\* Memberships change.
CuratorChanges == /\ curator => May(spent.absences, MaxAbsences)
                  /\ curator' = ~curator
                  /\ spent' = [spent EXCEPT !.absences = IF curator THEN @ + 1 ELSE @]
                  /\ UNCHANGED <<entry, upstream, snaps, events, call, disc, view>>

\* A lease (120 s) lapses when its call has died; under a call that is still
\* working only MaxFaults times, as a check has a deadline of 60 s.
Orphaned == entry.lease # Free /\ call[entry.lease].pc = "idle"
LeaseLapses == /\ entry.lease # Free /\ ~entry.lapsed
               /\ ~Orphaned => May(spent.faults, MaxFaults)
               /\ entry' = [entry EXCEPT !.lapsed = TRUE]
               /\ spent' = [spent EXCEPT !.faults = IF Orphaned THEN @ ELSE @ + 1]
               /\ UNCHANGED <<curator, upstream, snaps, events, call, disc, view>>
CheckIsDue == /\ entry.next = "later"
              /\ entry' = [entry EXCEPT !.next = "due"]
              /\ UNCHANGED <<curator, upstream, snaps, events, call, disc, view, spent>>

Phase(c) == \/ LeaseLost(c) \/ Unauthorized(c)
            \/ Begin(c) \/ MarkIdentityChange(c) \/ Renew(c) \/ Store(c)
            \/ Announce(c) \/ FinishCheck(c) \/ FailCheck(c) \/ PauseUnauthorizedTracking(c)

Next == \/ \E c \in Checks : Claim(c) \/ CheckNow(c) \/ Phase(c) \/ Die(c)
        \/ Discover \/ Capture
        \/ LookAtEntry \/ (\E m \in {"off", "scheduled"}, a \in BOOLEAN : UpdateTracking(m, a))
        \/ RemoveEntry \/ Push \/ Rename \/ CuratorChanges \/ LeaseLapses \/ CheckIsDue

Spec == Init /\ [][Next]_vars

\* A worker polls for ever and a running check goes on; time passes.
Fairness == /\ \A c \in Checks : WF_vars(Claim(c)) /\ WF_vars(Phase(c))
            /\ WF_vars(Orphaned /\ LeaseLapses) /\ WF_vars(CheckIsDue)
FairSpec == Spec /\ Fairness

-----------------------------------------------------------------------------
(* Properties *)

TypeOK == /\ entry.status \in {"active", "removed"} /\ entry.mode \in {"off", "scheduled"}
          /\ entry.next \in {"none", "later", "due"} /\ entry.health \in Healths
          /\ entry.ack \in Names /\ entry.pending \in Names \cup {Nobody}
          /\ entry.lease \in Checks \cup {Free} /\ entry.lapsed \in BOOLEAN
          /\ entry.good \in 0..Len(snaps)
          /\ \A c \in Checks : call[c].snap \in 0..Len(snaps) /\ call[c].good \in 0..Len(snaps)

\* A pending rename shows as a review (or a pause) until it is settled, so no
\* failing check, tracking edit or race hides it from the curator.
PendingIsShown == (Active /\ entry.pending # Nobody) => entry.health \in {Review, "paused"}

\* The last good snapshot is complete, whoever stored it.
GoodIsComplete == entry.good # 0 => snaps[entry.good].complete

AcceptsWhatWasSeenStep ==
  entry'.ack # entry.ack => entry'.ack = view.pending

\* A curator only ever accepts a name that the curator looked at: detection of
\* another rename in between makes the acknowledgement fail.
AcceptsWhatWasSeen == [][AcceptsWhatWasSeenStep]_vars

ChecksMoveForwardStep ==
  (entry.goodBy \in Checks /\ entry'.goodBy \in Checks /\ entry'.good # entry.good) =>
     /\ snaps'[entry'.good].commit >= snaps[entry.good].commit
     /\ \/ snaps'[entry'.good].commit = snaps[entry.good].commit
        \/ <<snaps[entry.good].commit, snaps'[entry'.good].commit>> \in events

\* What a check found last is replaced by a check only with the same or a
\* newer commit, and not before the transition was announced.  A stale check,
\* overtaken after its lease lapsed, would break both.
ChecksMoveForward == [][ChecksMoveForwardStep]_vars

\* Tracking that lost its last curator is not claimed again before a curator
\* saves it, although curators come back and a manual check may run.
PausedUntilSaved == entry.halted => ~Claimable

Due == Active /\ entry.next = "due"
Handled == entry.next # "due" \/ entry.health \in {Review, "paused"} \/ ~Active \/ ~curator

\* A due check is made, put off or stopped: also when workers die on it.
DueIsHandled == Due ~> Handled

-----------------------------------------------------------------------------
(* Why they hold: an invariant that every step keeps.                      *)

Points == {"idle", "begin", "renamed", "renew", "store", "broken", "announce", "finish", "unauthorized",
           "capture"}
CallRow == [pc : Points, ack : Names \cup {Nobody}, good : 0..Len(snaps), name : Names \cup {Nobody},
            commit : Nat, snap : 0..Len(snaps)]
EntryRow == [status : {"active", "removed"}, mode : {"off", "scheduled"}, next : {"none", "later", "due"},
             health : Healths, ack : Names, pending : Names \cup {Nobody}, lease : Checks \cup {Free},
             lapsed : BOOLEAN, revision : Nat, good : 0..Len(snaps),
             goodBy : Checks \cup {Nobody, "discovery"}, halted : BOOLEAN]

\* What is stored was pushed.
SnapsFit ==
  /\ snaps \in Seq([commit : Nat \ {0}, complete : BOOLEAN])
  /\ upstream \in [name : Names, commit : Nat \ {0}]
  /\ \A s \in DOMAIN snaps : snaps[s].commit <= upstream.commit

\* A check compares with a complete snapshot, never with a newer commit than
\* the one it brings, and comes to its end with an announced transition.
CallFits(r) ==
  /\ r \in CallRow
  /\ r.good # 0 => snaps[r.good].complete
  /\ r.pc = "renamed" => r.name \in Names
  /\ r.pc \in {"renew", "store", "capture"} => r.commit \in 1..upstream.commit
  /\ r.pc \in {"renew", "store"} => CommitOf(r.good) <= r.commit
  /\ r.pc \in {"announce", "finish"} =>
       r.snap # 0 /\ snaps[r.snap].complete /\ CommitOf(r.good) <= CommitOf(r.snap)
  /\ r.pc = "finish" => \/ r.good = 0 \/ CommitOf(r.good) = CommitOf(r.snap)
                        \/ <<CommitOf(r.good), CommitOf(r.snap)>> \in events

EntryFits(row) ==
  /\ row \in EntryRow
  /\ (row.status = "active" /\ row.pending # Nobody) => row.health \in {Review, "paused"}
  /\ row.good # 0 => snaps[row.good].complete
  /\ row.goodBy \in Checks => row.good # 0

\* A curator who looked at this revision has seen the name that is pending.
ViewFits(row) ==
  /\ view.revision <= row.revision
  /\ (view.revision = row.revision /\ row.pending # Nobody) => view.pending = row.pending

\* What a check found last was found before the check that has the lease began.
LeaseFits(row) ==
  \A c \in Checks : (row.lease = c /\ call[c].pc # "idle" /\ row.goodBy \in Checks) => row.good = call[c].good

IInv == /\ SnapsFit /\ EntryFits(entry) /\ CallFits(disc)
        /\ call \in [Checks -> CallRow] /\ (\A c \in Checks : CallFits(call[c]))
        /\ view \in [revision : Nat, pending : Names \cup {Nobody}]
        /\ curator \in BOOLEAN
        /\ ViewFits(entry) /\ LeaseFits(entry)
=============================================================================
