---------------------------- MODULE LibraryImports ----------------------------
(***************************************************************************)
(* From snapshots of a source to revisions of an imported skill.  Several  *)
(* source entries of one owner feed one lineage.  A preview, or a tracking *)
(* check, reads the lineage, fetches the files, and inserts a candidate    *)
(* much later; a curator imports or ignores candidates; they expire; a     *)
(* source entry is removed.  The head of the lineage moves only by an      *)
(* import.  The lease of a tracking check is in module LibraryChecks:      *)
(* here a build may be given up at any time.                               *)
(***************************************************************************)
EXTENDS Naturals, Sequences, FiniteSets

CONSTANTS Entries,      \* source entries that share the lineage
          MaxCommit,    \* commits of the linear history; a force push goes back
          DigestOf(_),  \* bytes of the skill at a commit
          MaxSnapshots, MaxCandidates

VARIABLES active,   \* source entries that are not removed
          linked,   \* entries whose library holds the imported skill
          snaps,    \* snapshots by time of observation: [entry, commit]
          lineage,  \* [revision, head, digest]; head is a snapshot, 0 for none
          cands,    \* candidates: [entry, snap, prior, order, state]
          build     \* per entry and kind of call, a candidate being built
vars == <<active, linked, snaps, lineage, cands, build>>

\* An entry's previews and its tracking check build independently.
Calls == {"preview", "tracking"}
NoBuild == [snap |-> 0, prior |-> 0, order |-> "initial"]
NoDigest == "none"

Init == /\ active = Entries /\ linked = {}
        /\ snaps = <<>> /\ cands = <<>>
        /\ lineage = [revision |-> 0, head |-> 0, digest |-> NoDigest]
        /\ build = [b \in Entries \X Calls |-> NoBuild]

-----------------------------------------------------------------------------
SnapshotsOf(e) == {s \in DOMAIN snaps : snaps[s].entry = e}
Newest(e) == CHOOSE s \in SnapshotsOf(e) : \A t \in SnapshotsOf(e) : t <= s
Digest(s) == DigestOf(snaps[s].commit)
Pending(c) == cands[c].state = "ready-for-review"
ActiveFor(s) == {c \in DOMAIN cands : cands[c].snap = s /\ cands[c].state \in {"ready-for-review", "accepted"}}

\* Bytes that this entry has proposed already, whatever became of them unless
\* they expired or were superseded.
Proposed(e, s) == \E c \in DOMAIN cands :
  /\ cands[c].entry = e /\ Digest(cands[c].snap) = Digest(s)
  /\ cands[c].state \in {"ready-for-review", "accepted", "ignored"}

\* candidateOrder: against the commit that the lineage imported last.
Order(s) == IF lineage.revision = 0 THEN "initial"
            ELSE IF snaps[lineage.head].commit = snaps[s].commit THEN "identical"
            ELSE IF snaps[lineage.head].commit < snaps[s].commit THEN "ahead" ELSE "unverified"

-----------------------------------------------------------------------------
\* A check or a discovery stores what it found, unless it is what the newest
\* snapshot of the entry shows.
Observe(e, commit) ==
  /\ e \in active /\ Len(snaps) < MaxSnapshots
  /\ SnapshotsOf(e) # {} => snaps[Newest(e)].commit # commit
  /\ snaps' = Append(snaps, [entry |-> e, commit |-> commit])
  /\ UNCHANGED <<active, linked, lineage, cands, build>>

\* buildCandidate up to its provider calls: what it takes from the lineage.
StartBuild(b, s) ==
  /\ build[b] = NoBuild /\ ActiveFor(s) = {}
  /\ build' = [build EXCEPT ![b] = [snap |-> s, prior |-> lineage.revision, order |-> Order(s)]]
  /\ UNCHANGED <<active, linked, snaps, lineage, cands>>

Preview(e, s) == e \in active /\ s \in SnapshotsOf(e) /\ StartBuild(<<e, "preview">>, s)

TrackLineage(e) ==
  /\ e \in active \cap linked /\ SnapshotsOf(e) # {}
  /\ ~Proposed(e, Newest(e)) /\ Digest(Newest(e)) # lineage.digest
  /\ StartBuild(<<e, "tracking">>, Newest(e))

GiveUp(b) == /\ build[b] # NoBuild
             /\ build' = [build EXCEPT ![b] = NoBuild]
             /\ UNCHANGED <<active, linked, snaps, lineage, cands>>

\* insertCandidate under the lineage's lock: an active candidate of the
\* snapshot is taken as it is, older pending ones of the entry are superseded.
Superseded(q, cs) ==
  [c \in DOMAIN q |-> IF q[c].state = "ready-for-review" /\ c \in cs
                      THEN [q[c] EXCEPT !.state = "superseded"] ELSE q[c]]
NewCandidate(b) == [entry |-> b[1], snap |-> build[b].snap, prior |-> build[b].prior,
                    order |-> build[b].order, state |-> "ready-for-review"]
\* The same without the lock on the entry, or without the look for another.
InsertCandidateBlindly(b) ==
  /\ build[b] # NoBuild
  /\ Len(cands) < MaxCandidates
  /\ LET Older == {c \in DOMAIN cands : cands[c].entry = b[1] /\ cands[c].snap < build[b].snap}
     IN cands' = Append(Superseded(cands, Older), NewCandidate(b))
  /\ build' = [build EXCEPT ![b] = NoBuild]
  /\ UNCHANGED <<active, linked, snaps, lineage>>
InsertCandidateAgain(b) == b[1] \in active /\ InsertCandidateBlindly(b)
InsertCandidate(b) ==
  /\ build[b] # NoBuild /\ b[1] \in active
  /\ IF ActiveFor(build[b].snap) # {} THEN UNCHANGED cands
     ELSE /\ Len(cands) < MaxCandidates
          /\ LET Older == {c \in DOMAIN cands : cands[c].entry = b[1] /\ cands[c].snap < build[b].snap}
             IN cands' = Append(Superseded(cands, Older), NewCandidate(b))
  /\ build' = [build EXCEPT ![b] = NoBuild]
  /\ UNCHANGED <<active, linked, snaps, lineage>>

-----------------------------------------------------------------------------
\* importCandidate: what the service asks of the candidate it read, then the
\* checks of importBinding inside the submission's transaction.
OrderAccepted(c, acknowledged) == (cands[c].order = "unverified") <=> acknowledged
IsNotOlder(c) == lineage.head = 0 \/ cands[c].snap >= lineage.head
IsNext(c) == /\ lineage.revision = cands[c].prior
             /\ IsNotOlder(c)
Accept(c) ==
  /\ lineage' = [revision |-> lineage.revision + 1, head |-> cands[c].snap, digest |-> Digest(cands[c].snap)]
  /\ cands' = [Superseded(cands, DOMAIN cands \ {c}) EXCEPT ![c].state = "accepted"]
  /\ linked' = linked \cup {cands[c].entry}
  /\ UNCHANGED <<active, snaps, build>>
ImportCandidate(c, acknowledged) ==
  /\ Pending(c) /\ OrderAccepted(c, acknowledged)
  /\ IsNext(c) /\ cands[c].entry \in active
  /\ Accept(c)

IgnoreCandidate(c) ==
  /\ Pending(c) /\ cands[c].entry \in active
  /\ cands' = [cands EXCEPT ![c].state = "ignored"]
  /\ UNCHANGED <<active, linked, snaps, lineage, build>>

\* purgeExpired, or an import that finds the candidate expired.
Expire(c) ==
  /\ Pending(c)
  /\ cands' = [cands EXCEPT ![c].state = "expired"]
  /\ UNCHANGED <<active, linked, snaps, lineage, build>>

RemoveEntry(e) ==
  /\ e \in active
  /\ active' = active \ {e}
  /\ cands' = [c \in DOMAIN cands |-> IF Pending(c) /\ cands[c].entry = e
                                      THEN [cands[c] EXCEPT !.state = "ignored"] ELSE cands[c]]
  /\ UNCHANGED <<linked, snaps, lineage, build>>

Next == \/ \E e \in Entries : \/ \E m \in 1..MaxCommit : Observe(e, m)
                              \/ \E s \in DOMAIN snaps : Preview(e, s)
                              \/ TrackLineage(e) \/ RemoveEntry(e)
        \/ \E b \in Entries \X Calls : GiveUp(b) \/ InsertCandidate(b)
        \/ \E c \in DOMAIN cands : \/ \E a \in BOOLEAN : ImportCandidate(c, a)
                                   \/ IgnoreCandidate(c) \/ Expire(c)

Spec == Init /\ [][Next]_vars

-----------------------------------------------------------------------------
Accepted == {c \in DOMAIN cands : cands[c].state = "accepted"}

TypeOK == /\ active \subseteq Entries /\ linked \subseteq Entries
          /\ snaps \in Seq([entry : Entries, commit : 1..MaxCommit])
          /\ cands \in Seq([entry : Entries, snap : DOMAIN snaps, prior : Nat,
                            order : {"initial", "identical", "ahead", "unverified"},
                            state : {"ready-for-review", "accepted", "ignored", "superseded", "expired"}])
          /\ lineage.head \in 0..Len(snaps)

\* The revisions of the lineage are exactly the accepted candidates, one for
\* each number, and the head is the last of them: two curators who import at
\* the same time never make one revision twice.
RevisionsAreImports ==
  /\ {cands[c].prior : c \in Accepted} = 0..(lineage.revision - 1)
  /\ Cardinality(Accepted) = lineage.revision
  /\ lineage.revision > 0 => \E c \in Accepted : cands[c].prior = lineage.revision - 1 /\ cands[c].snap = lineage.head

\* One snapshot has one candidate that counts, although a preview and a check
\* may build it at the same time.
OneCandidatePerSnapshot == \A s \in DOMAIN snaps : Cardinality(ActiveFor(s)) <= 1

\* A removed source leaves nothing to review, also when a build was under way.
RemovedSourcesProposeNothing == \A c \in DOMAIN cands : Pending(c) => cands[c].entry \in active

HeadGoesBackKnowinglyStep ==
  (lineage.head # 0 /\ lineage'.head # lineage.head
    /\ snaps[lineage'.head].commit < snaps[lineage.head].commit)
     => \E c \in DOMAIN cands : /\ Pending(c) /\ cands'[c].state = "accepted"
                                /\ cands[c].order = "unverified"

\* The head goes back in the source's history only by an import that the
\* curator acknowledged, however old the order was that the candidate shows.
HeadGoesBackKnowingly == [][HeadGoesBackKnowinglyStep]_vars

-----------------------------------------------------------------------------
(* Why they hold: an invariant that every step keeps.                      *)

Orders == {"initial", "identical", "ahead", "unverified"}

\* Numbers of revisions are those of the lineage until now, and only builds
\* under way are of a snapshot.
NumbersFit ==
  /\ lineage.revision \in Nat
  /\ lineage.head = 0 <=> lineage.revision = 0
  /\ build \in [Entries \X Calls ->
                  {NoBuild} \cup [snap : DOMAIN snaps, prior : 0..lineage.revision, order : Orders]]
  /\ \A c \in DOMAIN cands : cands[c].prior \in 0..lineage.revision

Counts(c) == cands[c].state \in {"ready-for-review", "accepted"}

\* Of two candidates of a snapshot one was given up.
CountsOnce == \A c, d \in DOMAIN cands :
  (Counts(c) /\ Counts(d) /\ cands[c].snap = cands[d].snap) => c = d

\* What may still be imported shows its order as of now: a proposal from before the last
\* import has the number of an older revision, and is not the next.
OrdersAreCurrent ==
  /\ \A c \in DOMAIN cands :
       (Pending(c) /\ cands[c].prior = lineage.revision) => cands[c].order = Order(cands[c].snap)
  /\ \A b \in Entries \X Calls :
       (build[b] # NoBuild /\ build[b].prior = lineage.revision) => build[b].order = Order(build[b].snap)

IInv == /\ TypeOK /\ NumbersFit /\ CountsOnce /\ OrdersAreCurrent
        /\ RevisionsAreImports /\ RemovedSourcesProposeNothing
=============================================================================
