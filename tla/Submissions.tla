---------------------------- MODULE Submissions ----------------------------
(***************************************************************************)
(* The versions of one skill from submission to publication and after      *)
(* (apps/api/src/submissions/postgres-submission-store.ts), and the        *)
(* sharing of the skill (repositories/postgres-skill-repository.ts).       *)
(*                                                                         *)
(* approve, publish, self-review and elevate read the row and the bytes    *)
(* first, outside any transaction, and then revalidate under row locks in a *)
(* second step: a call is a variable of its own, and everything may happen *)
(* between its two steps.  The other operations are one transaction.       *)
(*                                                                         *)
(* Every operation may also be refused for reasons left out here (roles,   *)
(* settings, teams, publication guard): Refuse ends any call, and a single *)
(* transaction that is refused is no step.                                 *)
(***************************************************************************)
EXTENDS Naturals

CONSTANTS
  Versions,   \* the versions submitted in this instance, 1 .. n
  Calls       \* concurrent reviewers' calls

VARIABLES
  skill,      \* the skill row: life and whether it is shared beyond its owner
  version,    \* per version, its row, artifact, scans and attestations
  call        \* per call, the version and digest it prepared

vars == <<skill, version, call>>

None == "none"
Idle == [kind |-> "idle"]
Digests == {"original", "drifted"}
Lives == {"submitted", "review", "approved", "deprecated", "unpublished", "revoked", "archived"}
Kinds == {"approve", "publish", "self-review", "elevate"}

Version ==
  [life : Lives \cup {"absent"},
   review : {"unreviewed", "changes-requested", "approved", "rejected"},
   security : {"not-run", "passed", "warning", "failed"},
   approved : Digests \cup {None},     \* approvedArtifactSha256
   published : BOOLEAN, deleted : BOOLEAN,
   artifact : Digests,                 \* what row and storage hold now
   clean : SUBSET Digests,             \* digests with a succeeded clean scan
   shared : BOOLEAN,                   \* visibility in its manifest
   selfReviewed : Digests \cup {None}, elevated : BOOLEAN]

Call == {Idle} \cup [kind : Kinds, v : Versions, digest : Digests, approved : Digests \cup {None}]

TypeOK ==
  /\ skill \in [life : Lives \cup {"absent"}, shared : BOOLEAN]
  /\ version \in [Versions -> Version]
  /\ call \in [Calls -> Call]

Absent ==
  [life |-> "absent", review |-> "unreviewed", security |-> "not-run", approved |-> None,
   published |-> FALSE, deleted |-> FALSE, artifact |-> "original", clean |-> {},
   shared |-> FALSE, selfReviewed |-> None, elevated |-> FALSE]

Init ==
  /\ skill = [life |-> "absent", shared |-> FALSE]
  /\ version = [v \in Versions |-> Absent]
  /\ call = [c \in Calls |-> Idle]

Known(v) == version[v].life # "absent"
Active(v) ==
  /\ Known(v) /\ ~version[v].deleted
  /\ version[v].life # "archived" /\ skill.life # "archived"
Undecided(v) == version[v].review \in {"unreviewed", "changes-requested"}
\* requireApplicableScan: a clean scan of exactly these bytes.
Scanned(v) == version[v].artifact \in version[v].clean

UpdateVersion(v, row) == version' = [version EXCEPT ![v] = row]
UpdateSkill(life) == skill' = [skill EXCEPT !.life = life]

---------------------------------------------------------------------------
(* Submission and scan.                                                    *)

\* A version that is new; its visibility must be that of the skill.  A skill
\* that is not approved, an archived one too, counts as submitted again.
Create(v, shared) ==
  /\ ~Known(v) /\ \A w \in 1 .. v - 1 : Known(w)
  /\ skill.life # "absent" => shared = skill.shared
  /\ skill' = [life |-> IF skill.life = "approved" THEN "approved" ELSE "submitted", shared |-> shared]
  /\ UpdateVersion(v, [Absent EXCEPT !.life = "submitted", !.shared = shared])
  /\ UNCHANGED call

\* The scan job of the version ends (ScanJobs).  Bytes that are not those
\* submitted fail it, and a version that was decided about keeps its verdict.
Scan(v) ==
  /\ Known(v) /\ version[v].security = "not-run"
  /\ Undecided(v) /\ ~version[v].published /\ ~version[v].deleted
  /\ \/ /\ version[v].artifact = "original"
        /\ UpdateVersion(v, [version[v] EXCEPT !.security = "passed", !.clean = {"original"}])
     \/ \E verdict \in {"warning", "failed"} :
          UpdateVersion(v, [version[v] EXCEPT !.security = verdict])
  /\ UNCHANGED <<skill, call>>

\* The stored artifact and its row change together, behind the application.
Drift(v) ==
  /\ Known(v) /\ version[v].artifact = "original"
  /\ UpdateVersion(v, [version[v] EXCEPT !.artifact = "drifted"])
  /\ UNCHANGED <<skill, call>>

---------------------------------------------------------------------------
(* Review.                                                                 *)

Gone(row) == [row EXCEPT !.review = "rejected", !.life = "archived", !.deleted = TRUE]

\* The submitter takes an undecided version back.
Withdraw(v) ==
  /\ Known(v) /\ Undecided(v) /\ ~version[v].published /\ ~version[v].deleted
  /\ UpdateVersion(v, Gone(version[v]))
  /\ UNCHANGED <<skill, call>>

Reject(v) ==
  /\ Active(v) /\ Undecided(v)
  /\ UpdateVersion(v, Gone(version[v]))
  /\ UNCHANGED <<skill, call>>

RequestChanges(v) ==
  /\ Active(v) /\ Undecided(v)
  /\ UpdateVersion(v, [version[v] EXCEPT !.review = "changes-requested", !.life = "review"])
  /\ UNCHANGED <<skill, call>>

\* Faulty: any active version can be approved, a published one too.
ApprovableAgain(v) ==
  Active(v) /\ version[v].security = "passed" /\ (Scanned(v) \/ version[v].published)

Approvable(v) ==
  Active(v) /\ Undecided(v) /\ version[v].security = "passed" /\ Scanned(v)

Publishable(v) ==
  /\ Active(v) /\ version[v].review = "approved" /\ version[v].security = "passed"
  /\ ~version[v].published /\ Scanned(v) /\ version[v].approved # None
  /\ version[v].shared = skill.shared

\* The owner's private import that nobody has reviewed.
SelfReviewable(v) ==
  /\ Active(v) /\ version[v].review = "unreviewed" /\ ~version[v].published
  /\ version[v].security = "passed" /\ Scanned(v)
  /\ ~skill.shared /\ ~version[v].shared

Elevatable(v) ==
  /\ Known(v) /\ ~version[v].deleted
  /\ version[v].selfReviewed = version[v].artifact /\ ~version[v].elevated
  /\ version[v].review = "approved" /\ version[v].security = "passed"
  /\ version[v].approved = version[v].artifact /\ Scanned(v)

\* Row and bytes are read and compared; self-review and elevate check no more.
Prepare(c, kind, v) ==
  /\ call[c] = Idle /\ Known(v)
  /\ kind = "approve" => Approvable(v)
  /\ kind = "publish" => Publishable(v) /\ version[v].approved = version[v].artifact
  /\ call' = [call EXCEPT ![c] =
       [kind |-> kind, v |-> v, digest |-> version[v].artifact, approved |-> version[v].approved]]
  /\ UNCHANGED <<skill, version>>

Ended(c) == call' = [call EXCEPT ![c] = Idle]
\* The locked row still has the artifact the call prepared.
Revalidated(c, kind) == call[c].kind = kind /\ version[call[c].v].artifact = call[c].digest

Approve(c) ==
  /\ Revalidated(c, "approve") /\ Approvable(call[c].v)
  /\ UpdateVersion(call[c].v, [version[call[c].v] EXCEPT
       !.review = "approved", !.life = "review", !.approved = call[c].digest])
  /\ Ended(c) /\ UNCHANGED skill

\* Faulty: the transaction trusts what the call prepared.
PublishAsPrepared(c) ==
  /\ call[c].kind = "publish" /\ Active(call[c].v) /\ ~version[call[c].v].published
  /\ UpdateVersion(call[c].v, [version[call[c].v] EXCEPT !.published = TRUE, !.life = "approved"])
  /\ skill' = [life |-> "approved", shared |-> version[call[c].v].shared]
  /\ Ended(c)

Publish(c) ==
  /\ Revalidated(c, "publish") /\ Publishable(call[c].v)
  /\ version[call[c].v].approved = call[c].approved
  /\ UpdateVersion(call[c].v, [version[call[c].v] EXCEPT
       !.published = TRUE, !.life = "approved", !.deleted = FALSE])
  /\ skill' = [life |-> "approved", shared |-> version[call[c].v].shared]
  /\ Ended(c)

SelfReview(c) ==
  /\ Revalidated(c, "self-review") /\ SelfReviewable(call[c].v)
  /\ UpdateVersion(call[c].v, [version[call[c].v] EXCEPT
       !.review = "approved", !.life = "approved", !.approved = call[c].digest,
       !.published = TRUE, !.selfReviewed = call[c].digest])
  /\ UpdateSkill("approved") /\ Ended(c)

Elevate(c) ==
  /\ Revalidated(c, "elevate") /\ Elevatable(call[c].v)
  /\ UpdateVersion(call[c].v, [version[call[c].v] EXCEPT !.elevated = TRUE])
  /\ Ended(c) /\ UNCHANGED skill

\* The call is refused, or its process dies.
Refuse(c) ==
  /\ call[c] # Idle
  /\ Ended(c)
  /\ UNCHANGED <<skill, version>>

---------------------------------------------------------------------------
(* Managing the skill and its releases.                                    *)

Offered(v) ==
  /\ version[v].life \in {"approved", "deprecated"}
  /\ version[v].review = "approved" /\ version[v].security = "passed"
  /\ version[v].published /\ ~version[v].deleted

\* archive and delete are the same update.
ArchiveSkill ==
  /\ skill.life # "absent"
  /\ UpdateSkill("archived")
  /\ UNCHANGED <<version, call>>

\* Faulty: an approval is taken for a publication.
RestoredOptimistically ==
  IF \E v \in Versions : version[v].review = "approved" THEN "approved" ELSE "submitted"

Restored ==
  IF \E v \in Versions : Offered(v) THEN "approved"
  ELSE IF \E v \in Versions : version[v].published THEN "unpublished"
  ELSE IF \E v \in Versions : Known(v) /\ version[v].review # "rejected" THEN "submitted"
  ELSE "archived"

RestoreSkill ==
  /\ skill.life # "absent"
  /\ UpdateSkill(Restored)
  /\ UNCHANGED <<version, call>>

\* Faulty: what was deleted can be restored too.
ActionsOnArchived(v) ==
  IF version[v].life \in {"unpublished", "revoked", "archived"} THEN {"restore", "delete"} ELSE {}

\* releaseAllowedActions; a revoked release must be safe to be restored.
AllowedActions(v) ==
  IF version[v].review # "approved" \/ version[v].security # "passed" THEN {}
  ELSE IF ~version[v].published THEN {"delete"}
  ELSE IF version[v].life = "approved" THEN {"deprecate", "unpublish", "revoke"}
  ELSE IF version[v].life = "deprecated" THEN {"restore", "unpublish", "revoke"}
  ELSE IF version[v].life = "unpublished" THEN {"restore", "delete"}
  ELSE IF version[v].life = "revoked"
    THEN {"delete"} \cup
         {a \in {"restore"} : ~version[v].deleted /\ version[v].approved = version[v].artifact}
  ELSE {}

LifeAfter(action) ==
  IF action = "deprecate" THEN "deprecated"
  ELSE IF action = "unpublish" THEN "unpublished"
  ELSE IF action = "revoke" THEN "revoked"
  ELSE IF action = "restore" THEN "approved" ELSE "archived"

\* deletedAt is set by delete and cleared by every other action.
ReleaseAction(v, action) ==
  /\ Known(v) /\ action \in AllowedActions(v)
  /\ UpdateVersion(v, [version[v] EXCEPT !.life = LifeAfter(action), !.deleted = action = "delete"])
  /\ UNCHANGED <<skill, call>>

\* Faulty: looks at nothing but the skill.
ShareAnything(shared) ==
  /\ skill.life # "absent"
  /\ skill' = [skill EXCEPT !.shared = shared]
  /\ UNCHANGED <<version, call>>

\* Widening is refused while a self-reviewed version waits for its elevation.
SetSharing(shared) ==
  /\ skill.life # "absent"
  /\ shared => \A v \in Versions :
       version[v].selfReviewed # None /\ ~version[v].deleted => version[v].elevated
  /\ skill' = [skill EXCEPT !.shared = shared]
  /\ UNCHANGED <<version, call>>

ReleaseActions == {"deprecate", "unpublish", "revoke", "restore", "delete"}

Next ==
  \/ \E v \in Versions :
       \/ \E shared \in BOOLEAN : Create(v, shared)
       \/ Scan(v) \/ Drift(v) \/ Withdraw(v) \/ Reject(v) \/ RequestChanges(v)
       \/ \E action \in ReleaseActions : ReleaseAction(v, action)
       \/ \E c \in Calls, kind \in Kinds : Prepare(c, kind, v)
  \/ \E c \in Calls : Approve(c) \/ Publish(c) \/ SelfReview(c) \/ Elevate(c) \/ Refuse(c)
  \/ ArchiveSkill \/ RestoreSkill
  \/ \E shared \in BOOLEAN : SetSharing(shared)

Spec == Init /\ [][Next]_vars

---------------------------------------------------------------------------
\* A release visible to others than the owner was reviewed by somebody else:
\* the owner's own review never reaches them, whatever is shared, deleted and
\* restored in between.
SharedIsReviewed ==
  skill.shared /\ skill.life \in {"approved", "deprecated"} =>
    \A v \in Versions : Offered(v) /\ version[v].selfReviewed # None => version[v].elevated

PublishesWhatWasReviewedStep ==
  \A v \in Versions : version'[v].published /\ ~version[v].published =>
     /\ version'[v].approved = version'[v].artifact
     /\ version'[v].approved \in version'[v].clean

\* What becomes published is the artifact the reviewer approved, the one stored
\* at that moment and one that a scan found clean.
PublishesWhatWasReviewed == [][PublishesWhatWasReviewedStep]_vars

PublicationIsFinalStep ==
  \A v \in Versions : version[v].published =>
     version'[v].published /\ version'[v].approved = version[v].approved

\* A published version keeps its publication and the digest it was approved with.
PublicationIsFinal == [][PublicationIsFinalStep]_vars

DeletedStaysDeletedStep ==
  \A v \in Versions : version[v].deleted =>
     version'[v].deleted /\ version'[v].life = "archived"

\* What was rejected, withdrawn or deleted never comes back.
DeletedStaysDeleted == [][DeletedStaysDeletedStep]_vars

\* A skill shows as approved only if one of its versions was published.
ApprovedSkillWasPublished ==
  skill.life = "approved" => \E v \in Versions : version[v].published

\* Why it is so.  Self-reviewed versions that are not elevated wait while the skill is
\* private; what was deleted is archived for good; only what was approved is published;
\* and a publication goes on with the digest the reviewer approved.
NoneWaitsInAShared ==
  skill.shared =>
    \A v \in Versions :
      version[v].selfReviewed # None /\ ~version[v].deleted => version[v].elevated
RowsAreConsistent ==
  \A v \in Versions :
    /\ version[v].deleted => version[v].life = "archived"
    /\ version[v].published => version[v].review = "approved"
    /\ ~Known(v) => version[v] = Absent
    /\ skill.life = "absent" => ~Known(v)
PublishesTheApproved ==
  \A c \in Calls : call[c] # Idle /\ call[c].kind = "publish" => call[c].approved = call[c].digest

IInv ==
  /\ TypeOK /\ ApprovedSkillWasPublished
  /\ NoneWaitsInAShared /\ RowsAreConsistent /\ PublishesTheApproved
===========================================================================
