---------------------------- MODULE RegistryProofs ---------------------------
(***************************************************************************)
(* What holds of submissions and reviews, of author drafts, of the lock of *)
(* an installation root and of an installation for every number of         *)
(* versions, revisions, requests, processes, transactions, stops and edits, *)
(* and whatever bytes versions share: properties that MCRegistry checks on *)
(* small instances, as theorems of its specification.                      *)
(***************************************************************************)
EXTENDS MCRegistry, SequenceTheorems, TLAPS

---------------------------------------------------------------------------
(* Submissions and reviews.                                                *)

\* While versions are submitted and reviewed, a step is one of theirs or changes nothing
\* of theirs.
LEMMA SubSteps ==
  ASSUME part = "submissions", [Next]_vars
  PROVE  Sub!Next \/ UNCHANGED Sub!vars
BY DEF Next, vars, Sub!vars, Submission, Authoring, Importing, Adopting, Checking, Improving,
       Reporting, RootLocking, Installing

\* There is no skill at the start.
LEMMA SubInit == Sub!Init => Sub!IInv
<1> SUFFICES ASSUME Sub!Init PROVE Sub!IInv
  OBVIOUS
<1>1. Sub!Absent \in Sub!Version
  BY DEF Sub!Absent, Sub!Version, Sub!Lives, Sub!Digests, Sub!None
<1>2. Sub!TypeOK
  BY <1>1 DEF Sub!Init, Sub!TypeOK, Sub!Call
<1>3. \A v \in Versions : s2[v] = Sub!Absent
  BY DEF Sub!Init
<1>4. /\ Sub!Absent.life = "absent" /\ ~Sub!Absent.deleted /\ ~Sub!Absent.published
      /\ Sub!Absent.selfReviewed = Sub!None
  BY DEF Sub!Absent
<1> QED
  BY <1>2, <1>3, <1>4 DEF Sub!Init, Sub!IInv, Sub!ApprovedSkillWasPublished,
     Sub!NoneWaitsInAShared, Sub!RowsAreConsistent, Sub!PublishesTheApproved, Sub!Known, Sub!Idle

\* What a step may make of the row of one version, the others staying as they are.
RowMay(v, row) ==
  /\ row \in Sub!Version
  /\ row.deleted => row.life = "archived"
  /\ row.published => row.review = "approved"
  /\ row.life # "absent"
  /\ s2[v].deleted => row.deleted
  /\ s2[v].published => row.published /\ row.approved = s2[v].approved
  /\ row.published /\ ~s2[v].published =>
       row.approved = row.artifact /\ row.approved \in row.clean

\* What the skill may become: shared only when no self-reviewed version waits.
SkillMay(skill) ==
  /\ skill \in [life : Sub!Lives, shared : BOOLEAN]
  /\ skill.life = "approved" => \E v \in Versions : s2'[v].published
  /\ skill.shared => \A v \in Versions :
       s2'[v].selfReviewed # Sub!None /\ ~s2'[v].deleted => s2'[v].elevated

\* The steps the properties speak of.
SubGoal ==
  /\ Sub!IInv'
  /\ Sub!PublishesWhatWasReviewedStep /\ Sub!PublicationIsFinalStep /\ Sub!DeletedStaysDeletedStep

\* A step that does to one row what it may, and to the skill too, keeps everything.
LEMMA OneRowMoves ==
  ASSUME Sub!IInv, NEW v \in Versions, NEW row,
         s2' = [s2 EXCEPT ![v] = row], RowMay(v, row), SkillMay(s1'),
         s3' \in [Reviewers -> Sub!Call],
         \A c \in Reviewers : s3'[c] # s3[c] => s3'[c] = Sub!Idle
  PROVE  SubGoal
<1>1. /\ s2'[v] = row /\ \A w \in Versions : w # v => s2'[w] = s2[w]
      /\ s2' \in [Versions -> Sub!Version]
  BY DEF Sub!IInv, Sub!TypeOK, RowMay
<1>2. Sub!TypeOK'
  BY <1>1 DEF Sub!TypeOK, SkillMay
<1>3. Sub!RowsAreConsistent'
  <2> SUFFICES ASSUME NEW w \in Versions
               PROVE  /\ s2'[w].deleted => s2'[w].life = "archived"
                      /\ s2'[w].published => s2'[w].review = "approved"
                      /\ s2'[w].life = "absent" => s2'[w] = Sub!Absent
                      /\ s1'.life = "absent" => s2'[w].life = "absent"
    BY DEF Sub!RowsAreConsistent, Sub!Known
  <2>1. s1'.life # "absent"
    BY DEF SkillMay, Sub!Lives
  <2> QED
    BY <1>1, <2>1 DEF RowMay, Sub!IInv, Sub!RowsAreConsistent, Sub!Known
<1>4. Sub!ApprovedSkillWasPublished' /\ Sub!NoneWaitsInAShared'
  BY DEF SkillMay, Sub!ApprovedSkillWasPublished, Sub!NoneWaitsInAShared
<1>5. Sub!PublishesTheApproved'
  BY DEF Sub!IInv, Sub!PublishesTheApproved
<1>6. Sub!IInv'
  BY <1>2, <1>3, <1>4, <1>5 DEF Sub!IInv
<1>7. Sub!PublishesWhatWasReviewedStep
  BY <1>1 DEF RowMay, Sub!PublishesWhatWasReviewedStep
<1>8. Sub!PublicationIsFinalStep
  BY <1>1 DEF RowMay, Sub!PublicationIsFinalStep
<1>9. Sub!DeletedStaysDeletedStep
  BY <1>1 DEF RowMay, Sub!DeletedStaysDeletedStep, Sub!IInv, Sub!RowsAreConsistent
<1> QED
  BY <1>6, <1>7, <1>8, <1>9 DEF SubGoal

\* So does one that leaves the rows alone.
LEMMA NoRowMoves ==
  ASSUME Sub!IInv, s2' = s2, s1' = s1 \/ SkillMay(s1'),
         s3' \in [Reviewers -> Sub!Call],
         \A c \in Reviewers :
           s3'[c] # s3[c] /\ s3'[c] # Sub!Idle /\ s3'[c].kind = "publish" =>
             s3'[c].approved = s3'[c].digest
  PROVE  SubGoal
<1>1. Sub!TypeOK'
  BY DEF Sub!IInv, Sub!TypeOK, SkillMay
<1>2. Sub!RowsAreConsistent'
  BY DEF Sub!IInv, Sub!RowsAreConsistent, Sub!Known, SkillMay, Sub!Lives
<1>3. Sub!ApprovedSkillWasPublished' /\ Sub!NoneWaitsInAShared'
  BY DEF Sub!IInv, SkillMay, Sub!ApprovedSkillWasPublished, Sub!NoneWaitsInAShared
<1>4. Sub!PublishesTheApproved'
  BY DEF Sub!IInv, Sub!PublishesTheApproved
<1> QED
  BY <1>1, <1>2, <1>3, <1>4 DEF SubGoal, Sub!IInv, Sub!RowsAreConsistent,
     Sub!PublishesWhatWasReviewedStep, Sub!PublicationIsFinalStep, Sub!DeletedStaysDeletedStep

\* The rows of a state, as its invariant has them.
LEMMA RowsAre ==
  ASSUME Sub!IInv, NEW v \in Versions
  PROVE  /\ s2[v] \in Sub!Version
         /\ s2[v].deleted => s2[v].life = "archived"
         /\ s2[v].published => s2[v].review = "approved"
         /\ s2[v].life = "absent" => s2[v] = Sub!Absent
         /\ s1.life = "absent" => s2[v].life = "absent"
         /\ s1 \in [life : Sub!Lives \cup {"absent"}, shared : BOOLEAN]
BY DEF Sub!IInv, Sub!TypeOK, Sub!RowsAreConsistent, Sub!Known

\* A row that keeps its publication and attestations lets the skill be what it is.
LEMMA SkillRests ==
  ASSUME Sub!IInv, NEW v \in Versions, Sub!Known(v), NEW row, s1' = s1,
         s2' = [s2 EXCEPT ![v] = row],
         s2[v].published => row.published,
         \/ row.selfReviewed = s2[v].selfReviewed /\ (s2[v].elevated => row.elevated)
         \/ row.elevated,
         s2[v].deleted => row.deleted
  PROVE  SkillMay(s1')
<1>1. s2'[v] = row /\ \A w \in Versions : w # v => s2'[w] = s2[w]
  BY DEF Sub!IInv, Sub!TypeOK
<1>2. s1' \in [life : Sub!Lives, shared : BOOLEAN]
  BY RowsAre DEF Sub!Known
<1>3. s1'.life = "approved" => \E w \in Versions : s2'[w].published
  BY <1>1 DEF Sub!IInv, Sub!ApprovedSkillWasPublished
<1>4. s1'.shared => \A w \in Versions :
         s2'[w].selfReviewed # Sub!None /\ ~s2'[w].deleted => s2'[w].elevated
  BY <1>1 DEF Sub!IInv, Sub!NoneWaitsInAShared
<1> QED
  BY <1>2, <1>3, <1>4 DEF SkillMay

\* Rows that steps without a call make, under the guards of these steps.
LEMMA RowsMay ==
  ASSUME Sub!IInv, NEW v \in Versions, Sub!Known(v), NEW row,
         \/ /\ Sub!Undecided(v) /\ ~s2[v].deleted
            /\ \/ row = Sub!Gone(s2[v])
               \/ row = [s2[v] EXCEPT !.review = "changes-requested", !.life = "review"]
               \/ row = [s2[v] EXCEPT !.security = "passed", !.clean = {"original"}]
               \/ \E verdict \in {"warning", "failed"} : row = [s2[v] EXCEPT !.security = verdict]
         \/ row = [s2[v] EXCEPT !.artifact = "drifted"]
         \/ \E action \in Sub!ReleaseActions :
              /\ action \in Sub!AllowedActions(v)
              /\ row = [s2[v] EXCEPT !.life = Sub!LifeAfter(action), !.deleted = action = "delete"]
  PROVE  /\ RowMay(v, row)
         /\ row.selfReviewed = s2[v].selfReviewed /\ row.elevated = s2[v].elevated
         /\ s2[v].published => row.published
         /\ s2[v].deleted => row.deleted
<1> DEFINE Goal == /\ RowMay(v, row)
                   /\ row.selfReviewed = s2[v].selfReviewed /\ row.elevated = s2[v].elevated
                   /\ s2[v].published => row.published
                   /\ s2[v].deleted => row.deleted
<1>1. /\ s2[v] \in Sub!Version /\ s2[v].life # "absent"
      /\ s2[v].deleted => s2[v].life = "archived"
      /\ s2[v].published => s2[v].review = "approved"
  BY RowsAre DEF Sub!Known
<1>2. ASSUME Sub!Undecided(v), ~s2[v].deleted, row = Sub!Gone(s2[v]) PROVE Goal
  BY <1>1, <1>2 DEF Sub!Undecided, Sub!Gone, RowMay, Sub!Version, Sub!Lives
<1>3. ASSUME Sub!Undecided(v), ~s2[v].deleted,
             row = [s2[v] EXCEPT !.review = "changes-requested", !.life = "review"]
      PROVE  Goal
  BY <1>1, <1>3 DEF Sub!Undecided, RowMay, Sub!Version, Sub!Lives
<1>4. ASSUME Sub!Undecided(v), ~s2[v].deleted,
             row = [s2[v] EXCEPT !.security = "passed", !.clean = {"original"}]
      PROVE  Goal
  BY <1>1, <1>4 DEF Sub!Undecided, RowMay, Sub!Version, Sub!Lives, Sub!Digests
<1>5. ASSUME NEW verdict \in {"warning", "failed"}, row = [s2[v] EXCEPT !.security = verdict]
      PROVE  Goal
  BY <1>1, <1>5 DEF RowMay, Sub!Version, Sub!Lives
<1>6. ASSUME row = [s2[v] EXCEPT !.artifact = "drifted"] PROVE Goal
  BY <1>1, <1>6 DEF RowMay, Sub!Version, Sub!Lives, Sub!Digests
<1>7. ASSUME NEW action \in Sub!ReleaseActions, action \in Sub!AllowedActions(v),
             row = [s2[v] EXCEPT !.life = Sub!LifeAfter(action), !.deleted = action = "delete"]
      PROVE  Goal
  <2>1. s2[v].deleted => action = "delete"
    BY <1>1, <1>7 DEF Sub!AllowedActions
  <2>2. /\ Sub!LifeAfter(action) \in Sub!Lives
        /\ action = "delete" => Sub!LifeAfter(action) = "archived"
    BY <1>7 DEF Sub!LifeAfter, Sub!Lives, Sub!ReleaseActions
  <2> QED
    BY <1>1, <1>7, <2>1, <2>2 DEF RowMay, Sub!Version, Sub!Lives
<1> HIDE DEF Goal
<1>8. Goal
  BY <1>2, <1>3, <1>4, <1>5, <1>6, <1>7
<1> QED
  BY <1>8 DEF Goal

\* A call that ended is idle, the others are as they were.
LEMMA CallEnds ==
  ASSUME Sub!IInv, NEW c \in Reviewers, Sub!Ended(c)
  PROVE  /\ s3' \in [Reviewers -> Sub!Call]
         /\ \A d \in Reviewers : s3'[d] # s3[d] => s3'[d] = Sub!Idle
BY DEF Sub!IInv, Sub!TypeOK, Sub!Ended, Sub!Call

\* Steps without a call that change the row of a version.
LEMMA RowStepsKeep ==
  ASSUME Sub!IInv, NEW v \in Versions,
         \/ Sub!Scan(v) \/ Sub!Drift(v) \/ Sub!Withdraw(v) \/ Sub!Reject(v)
         \/ Sub!RequestChanges(v)
         \/ \E action \in Sub!ReleaseActions : Sub!ReleaseAction(v, action)
  PROVE  SubGoal
<1>1. PICK row :
        /\ s2' = [s2 EXCEPT ![v] = row] /\ s1' = s1 /\ s3' = s3 /\ Sub!Known(v)
        /\ \/ /\ Sub!Undecided(v) /\ ~s2[v].deleted
              /\ \/ row = Sub!Gone(s2[v])
                 \/ row = [s2[v] EXCEPT !.review = "changes-requested", !.life = "review"]
                 \/ row = [s2[v] EXCEPT !.security = "passed", !.clean = {"original"}]
                 \/ \E verdict \in {"warning", "failed"} :
                      row = [s2[v] EXCEPT !.security = verdict]
           \/ row = [s2[v] EXCEPT !.artifact = "drifted"]
           \/ \E action \in Sub!ReleaseActions :
                /\ action \in Sub!AllowedActions(v)
                /\ row = [s2[v] EXCEPT !.life = Sub!LifeAfter(action),
                                       !.deleted = action = "delete"]
  <2>1. CASE Sub!Scan(v)
    BY <2>1 DEF Sub!Scan, Sub!UpdateVersion
  <2>2. CASE Sub!Drift(v)
    BY <2>2 DEF Sub!Drift, Sub!UpdateVersion
  <2>3. CASE Sub!Withdraw(v) \/ Sub!Reject(v)
    BY <2>3 DEF Sub!Withdraw, Sub!Reject, Sub!Active, Sub!UpdateVersion
  <2>4. CASE Sub!RequestChanges(v)
    BY <2>4 DEF Sub!RequestChanges, Sub!Active, Sub!UpdateVersion
  <2>5. ASSUME NEW action \in Sub!ReleaseActions, Sub!ReleaseAction(v, action)
        PROVE  /\ Sub!Known(v) /\ s1' = s1 /\ s3' = s3 /\ action \in Sub!AllowedActions(v)
               /\ s2' = [s2 EXCEPT ![v] = [s2[v] EXCEPT !.life = Sub!LifeAfter(action),
                                                       !.deleted = action = "delete"]]
    BY <2>5 DEF Sub!ReleaseAction, Sub!UpdateVersion
  <2> QED
    BY <2>1, <2>2, <2>3, <2>4, <2>5
<1>2. /\ RowMay(v, row) /\ row.selfReviewed = s2[v].selfReviewed /\ row.elevated = s2[v].elevated
      /\ s2[v].published => row.published
      /\ s2[v].deleted => row.deleted
  BY <1>1, RowsMay
<1>3. SkillMay(s1')
  BY <1>1, <1>2, SkillRests
<1>4. s3' \in [Reviewers -> Sub!Call]
  BY <1>1 DEF Sub!IInv, Sub!TypeOK
<1> QED
  BY <1>1, <1>2, <1>3, <1>4, OneRowMoves

\* A new version is unreviewed, and as visible as the skill is.
LEMMA CreationKeeps ==
  ASSUME Sub!IInv, NEW v \in Versions, NEW shared \in BOOLEAN, Sub!Create(v, shared)
  PROVE  SubGoal
<1> DEFINE row == [Sub!Absent EXCEPT !.life = "submitted", !.shared = shared]
<1>1. s2' = [s2 EXCEPT ![v] = row] /\ s3' = s3 /\ s2[v] = Sub!Absent
  BY RowsAre DEF Sub!Create, Sub!UpdateVersion, Sub!Known
<1>2. RowMay(v, row)
  BY <1>1 DEF RowMay, Sub!Absent, Sub!Version, Sub!Lives, Sub!Digests, Sub!None
<1>3. row.selfReviewed = Sub!None /\ ~s2[v].published
  BY <1>1 DEF Sub!Absent
<1> HIDE DEF row
<1>4. s2'[v] = row /\ \A w \in Versions : w # v => s2'[w] = s2[w]
  BY <1>1 DEF Sub!IInv, Sub!TypeOK
<1>5. SkillMay(s1')
  <2>1. s1' = [life |-> IF s1.life = "approved" THEN "approved" ELSE "submitted", shared |-> shared]
    BY DEF Sub!Create
  <2>2. s1' \in [life : Sub!Lives, shared : BOOLEAN] /\ s1'.shared = shared
        /\ (s1'.life = "approved" => s1.life = "approved")
    BY <2>1 DEF Sub!Lives
  <2>3. s1'.life = "approved" => \E w \in Versions : s2'[w].published
    BY <1>3, <1>4, <2>2 DEF Sub!IInv, Sub!ApprovedSkillWasPublished
  <2>4. CASE s1.life = "absent"
    <3>1. \A w \in Versions : s2[w].selfReviewed = Sub!None
      BY <2>4, RowsAre DEF Sub!Absent
    <3> QED
      BY <1>3, <1>4, <2>2, <2>3, <3>1 DEF SkillMay
  <2>5. CASE s1.life # "absent"
    <3>1. shared = s1.shared
      BY <2>5 DEF Sub!Create
    <3> QED
      BY <1>3, <1>4, <2>2, <2>3, <3>1 DEF SkillMay, Sub!IInv, Sub!NoneWaitsInAShared
  <2> QED
    BY <2>4, <2>5
<1>6. s3' \in [Reviewers -> Sub!Call]
  BY <1>1 DEF Sub!IInv, Sub!TypeOK
<1> QED
  BY <1>1, <1>2, <1>5, <1>6, OneRowMoves

\* A call that commits is not idle; it is about a version.
LEMMA CallsAre ==
  ASSUME Sub!IInv, NEW c \in Reviewers, NEW kind \in Sub!Kinds, Sub!Revalidated(c, kind)
  PROVE  /\ s3[c].v \in Versions /\ s3[c].digest \in Sub!Digests /\ s3[c] # Sub!Idle
         /\ s3[c].kind = kind /\ s2[s3[c].v].artifact = s3[c].digest
<1>1. s3[c].kind # "idle" /\ s3[c] \in Sub!Call
  BY DEF Sub!Revalidated, Sub!Kinds, Sub!IInv, Sub!TypeOK
<1>2. s3[c] # Sub!Idle
  BY <1>1 DEF Sub!Idle
<1> QED
  BY <1>1, <1>2 DEF Sub!Call, Sub!Revalidated

\* An approval names the digest that is stored.
LEMMA ApprovalKeeps ==
  ASSUME Sub!IInv, NEW c \in Reviewers, Sub!Approve(c)
  PROVE  SubGoal
<1>1. PICK v \in Versions, digest \in Sub!Digests : v = s3[c].v /\ digest = s3[c].digest
  BY CallsAre DEF Sub!Approve, Sub!Kinds
<1> DEFINE row == [s2[v] EXCEPT !.review = "approved", !.life = "review", !.approved = digest]
<1>2. s2' = [s2 EXCEPT ![v] = row] /\ s1' = s1 /\ Sub!Approvable(v) /\ Sub!Ended(c)
  BY <1>1 DEF Sub!Approve, Sub!UpdateVersion
<1>3. s2[v] \in Sub!Version /\ ~s2[v].published /\ ~s2[v].deleted /\ Sub!Known(v)
  BY <1>2, RowsAre DEF Sub!Approvable, Sub!Active, Sub!Undecided
<1>4. /\ RowMay(v, row) /\ row.selfReviewed = s2[v].selfReviewed /\ row.elevated = s2[v].elevated
      /\ row.published = s2[v].published /\ row.deleted = s2[v].deleted
  BY <1>1, <1>3 DEF RowMay, Sub!Version, Sub!Lives
<1> HIDE DEF row
<1>5. SkillMay(s1')
  BY <1>2, <1>3, <1>4, SkillRests
<1> QED
  BY <1>2, <1>4, <1>5, CallEnds, OneRowMoves

\* A publication takes what was approved, is stored now and was scanned.
LEMMA PublicationKeeps ==
  ASSUME Sub!IInv, NEW c \in Reviewers, Sub!Publish(c)
  PROVE  SubGoal
<1>1. PICK v \in Versions : v = s3[c].v
  BY CallsAre DEF Sub!Publish, Sub!Kinds
<1> DEFINE row == [s2[v] EXCEPT !.published = TRUE, !.life = "approved", !.deleted = FALSE]
<1>2. /\ s2' = [s2 EXCEPT ![v] = row] /\ s1' = [life |-> "approved", shared |-> s2[v].shared]
      /\ Sub!Publishable(v) /\ Sub!Ended(c)
      /\ s2[v].approved = s3[c].approved
  BY <1>1 DEF Sub!Publish, Sub!UpdateVersion
<1>3. s2[v].artifact = s3[c].digest /\ s3[c].approved = s3[c].digest
  BY <1>1, CallsAre DEF Sub!Publish, Sub!Kinds, Sub!IInv, Sub!PublishesTheApproved
<1>4. /\ s2[v] \in Sub!Version /\ ~s2[v].published /\ ~s2[v].deleted
      /\ s2[v].review = "approved" /\ s2[v].artifact \in s2[v].clean
      /\ s2[v].shared = s1.shared
  BY <1>2, RowsAre DEF Sub!Publishable, Sub!Active, Sub!Scanned
<1>5. /\ RowMay(v, row) /\ row.selfReviewed = s2[v].selfReviewed /\ row.elevated = s2[v].elevated
      /\ row.published /\ ~row.deleted
  BY <1>2, <1>3, <1>4 DEF RowMay, Sub!Version, Sub!Lives
<1> HIDE DEF row
<1>6. s2'[v] = row /\ \A w \in Versions : w # v => s2'[w] = s2[w]
  BY <1>2 DEF Sub!IInv, Sub!TypeOK
<1>7. s1' \in [life : Sub!Lives, shared : BOOLEAN] /\ s1'.shared = s1.shared
  BY <1>2, <1>4 DEF Sub!Version, Sub!Lives
<1>8. SkillMay(s1')
  BY <1>4, <1>5, <1>6, <1>7 DEF SkillMay, Sub!IInv, Sub!NoneWaitsInAShared
<1> QED
  BY <1>2, <1>5, <1>8, CallEnds, OneRowMoves

\* An owner reviews only what nobody else can see.
LEMMA SelfReviewKeeps ==
  ASSUME Sub!IInv, NEW c \in Reviewers, Sub!SelfReview(c)
  PROVE  SubGoal
<1>1. PICK v \in Versions, digest \in Sub!Digests : v = s3[c].v /\ digest = s3[c].digest
  BY CallsAre DEF Sub!SelfReview, Sub!Kinds
<1> DEFINE row == [s2[v] EXCEPT !.review = "approved", !.life = "approved", !.approved = digest,
                                !.published = TRUE, !.selfReviewed = digest]
<1>2. /\ s2' = [s2 EXCEPT ![v] = row] /\ s1' = [s1 EXCEPT !.life = "approved"]
      /\ Sub!SelfReviewable(v) /\ Sub!Ended(c) /\ s2[v].artifact = digest
  BY <1>1, CallsAre DEF Sub!SelfReview, Sub!UpdateVersion, Sub!UpdateSkill, Sub!Kinds
<1>3. /\ s2[v] \in Sub!Version /\ ~s2[v].published /\ ~s2[v].deleted /\ ~s1.shared
      /\ s2[v].artifact \in s2[v].clean
      /\ s1 \in [life : Sub!Lives \cup {"absent"}, shared : BOOLEAN]
  BY <1>2, RowsAre DEF Sub!SelfReviewable, Sub!Active, Sub!Scanned
<1>4. row.published /\ ~row.deleted /\ row.review = "approved" /\ row.life = "approved"
      /\ row.approved = digest /\ row.artifact = digest /\ row.clean = s2[v].clean
  BY <1>1, <1>2, <1>3 DEF Sub!Version
<1>5. row \in Sub!Version
  BY <1>1, <1>3 DEF Sub!Version, Sub!Lives
<1>6. RowMay(v, row)
  BY <1>2, <1>3, <1>4, <1>5 DEF RowMay
<1> HIDE DEF row
<1>7. s2'[v] = row
  BY <1>2 DEF Sub!IInv, Sub!TypeOK
<1>8. SkillMay(s1')
  BY <1>2, <1>3, <1>4, <1>7 DEF SkillMay, Sub!Lives
<1> QED
  BY <1>2, <1>6, <1>8, CallEnds, OneRowMoves

\* Once somebody else has reviewed a version it no longer waits.
LEMMA ElevationKeeps ==
  ASSUME Sub!IInv, NEW c \in Reviewers, Sub!Elevate(c)
  PROVE  SubGoal
<1>1. PICK v \in Versions : v = s3[c].v
  BY CallsAre DEF Sub!Elevate, Sub!Kinds
<1> DEFINE row == [s2[v] EXCEPT !.elevated = TRUE]
<1>2. s2' = [s2 EXCEPT ![v] = row] /\ s1' = s1 /\ Sub!Elevatable(v) /\ Sub!Ended(c)
  BY <1>1 DEF Sub!Elevate, Sub!UpdateVersion
<1>3. /\ s2[v] \in Sub!Version /\ ~s2[v].deleted /\ Sub!Known(v)
      /\ s2[v].published => s2[v].review = "approved"
  BY <1>2, RowsAre DEF Sub!Elevatable
<1>4. /\ RowMay(v, row) /\ row.elevated
      /\ row.published = s2[v].published /\ row.deleted = s2[v].deleted
  BY <1>3 DEF RowMay, Sub!Version, Sub!Lives, Sub!Known
<1> HIDE DEF row
<1>5. SkillMay(s1')
  BY <1>2, <1>3, <1>4, SkillRests
<1> QED
  BY <1>2, <1>4, <1>5, CallEnds, OneRowMoves

\* Steps that leave the rows alone.
LEMMA SkillStepsKeep ==
  ASSUME Sub!IInv,
         \/ \E c \in Reviewers : Sub!Refuse(c)
         \/ \E c \in Reviewers, kind \in Sub!Kinds, v \in Versions : Sub!Prepare(c, kind, v)
         \/ Sub!ArchiveSkill \/ Sub!RestoreSkill
         \/ \E shared \in BOOLEAN : Sub!SetSharing(shared)
         \/ UNCHANGED Sub!vars
  PROVE  SubGoal
<1>1. ASSUME NEW c \in Reviewers, Sub!Refuse(c) PROVE SubGoal
  BY <1>1, CallEnds, NoRowMoves DEF Sub!Refuse
<1>2. ASSUME NEW c \in Reviewers, NEW kind \in Sub!Kinds, NEW v \in Versions,
             Sub!Prepare(c, kind, v)
      PROVE  SubGoal
  <2> DEFINE made == [kind |-> kind, v |-> v, digest |-> s2[v].artifact, approved |-> s2[v].approved]
  <2>1. s3' = [s3 EXCEPT ![c] = made] /\ s1' = s1 /\ s2' = s2
    BY <1>2 DEF Sub!Prepare
  <2>2. made \in Sub!Call /\ made.approved = s2[v].approved /\ made.digest = s2[v].artifact
        /\ made.kind = kind
    BY RowsAre DEF Sub!Call, Sub!Version
  <2>3. kind = "publish" => s2[v].approved = s2[v].artifact
    BY <1>2 DEF Sub!Prepare
  <2> HIDE DEF made
  <2>4. /\ s3' \in [Reviewers -> Sub!Call]
        /\ \A d \in Reviewers : s3'[d] # s3[d] => s3'[d] = made
    BY <2>1, <2>2 DEF Sub!IInv, Sub!TypeOK
  <2> QED
    BY <2>1, <2>2, <2>3, <2>4, NoRowMoves
<1>3. ASSUME NEW life \in Sub!Lives, s1' = [s1 EXCEPT !.life = life], s2' = s2, s3' = s3,
             life = "approved" => \E v \in Versions : s2[v].published
      PROVE  SubGoal
  <2>1. s1 \in [life : Sub!Lives \cup {"absent"}, shared : BOOLEAN] /\ s3 \in [Reviewers -> Sub!Call]
    BY DEF Sub!IInv, Sub!TypeOK
  <2>2. SkillMay(s1')
    BY <1>3, <2>1 DEF SkillMay, Sub!IInv, Sub!NoneWaitsInAShared
  <2> QED
    BY <1>3, <2>1, <2>2, NoRowMoves
<1>4. CASE Sub!ArchiveSkill
  BY <1>3, <1>4 DEF Sub!ArchiveSkill, Sub!UpdateSkill, Sub!Lives
<1>5. CASE Sub!RestoreSkill
  <2>1. Sub!Restored \in Sub!Lives
    BY DEF Sub!Restored, Sub!Lives
  <2>2. Sub!Restored = "approved" => \E v \in Versions : s2[v].published
    BY DEF Sub!Restored, Sub!Offered
  <2> QED
    BY <1>3, <1>5, <2>1, <2>2 DEF Sub!RestoreSkill, Sub!UpdateSkill
<1>6. ASSUME NEW shared \in BOOLEAN, Sub!SetSharing(shared) PROVE SubGoal
  <2>1. /\ s1 \in [life : Sub!Lives \cup {"absent"}, shared : BOOLEAN] /\ s3 \in [Reviewers -> Sub!Call]
        /\ s1.life = "approved" => \E v \in Versions : s2[v].published
    BY DEF Sub!IInv, Sub!TypeOK, Sub!ApprovedSkillWasPublished
  <2>2. /\ s1' = [s1 EXCEPT !.shared = shared] /\ s2' = s2 /\ s3' = s3 /\ s1.life # "absent"
        /\ shared => \A v \in Versions :
             s2[v].selfReviewed # Sub!None /\ ~s2[v].deleted => s2[v].elevated
    BY <1>6 DEF Sub!SetSharing
  <2>3. SkillMay(s1')
    BY <2>1, <2>2 DEF SkillMay
  <2> QED
    BY <2>1, <2>2, <2>3, NoRowMoves
<1>7. CASE UNCHANGED Sub!vars
  BY <1>7, NoRowMoves DEF Sub!vars, Sub!IInv, Sub!TypeOK
<1> QED
  BY <1>1, <1>2, <1>4, <1>5, <1>6, <1>7

\* Every step keeps the invariant of submissions and does what the properties say.
LEMMA SubKept ==
  ASSUME Sub!IInv, Sub!Next \/ UNCHANGED Sub!vars
  PROVE  SubGoal
BY RowStepsKeep, CreationKeeps, ApprovalKeeps, PublicationKeeps, SelfReviewKeeps, ElevationKeeps,
   SkillStepsKeep DEF Sub!Next

---------------------------------------------------------------------------
(* Author drafts.                                                          *)

\* While a draft is edited and submitted, a step is one of its own or changes nothing of it.
LEMMA DraftSteps ==
  ASSUME part = "drafts", [Next]_vars
  PROVE  Draft!Next \/ UNCHANGED Draft!vars
BY DEF Next, vars, Draft!vars, Submission, Authoring, Importing, Adopting, Checking, Improving,
       Reporting, RootLocking, Installing

\* The requests there may be.
DraftCalls ==
  [at : {"saving", "creating", "replaying"} \cup Draft!Answers,
   expected : 1 .. MaxRevision, content : Contents]

\* A request fits the draft and the submissions as they are.
CallFits(n) ==
  \/ n = Draft!Idle
  \/ /\ n \in DraftCalls /\ n.expected <= s1
     /\ n.at \in {"creating", "exists"} => n.content = s2[n.expected].content
     /\ n.at = "exists" => s2[n.expected].receipt = 0 /\ Draft!VersionExists(n.content)

\* The revisions and what was submitted of them.
RevisionsFit ==
  /\ s1 \in 1 .. MaxRevision /\ s2 \in Seq(Draft!Revision) /\ Len(s2) = s1
  /\ s3 \in Seq(Contents)
  /\ \A i \in 1 .. Len(s3) : \E r \in 1 .. s1 : s2[r].receipt = i
  /\ \A r \in 1 .. s1 :
       /\ s2[r].content \in Contents /\ s2[r].receipt \in 0 .. Len(s3)
       /\ s2[r].receipt # 0 =>
            /\ s3[s2[r].receipt] = s2[r].content
            /\ \A q \in 1 .. s1 : s2[q].receipt = s2[r].receipt => q = r

\* The invariant in these terms.
LEMMA DraftInvIs ==
  Draft!IInv <=> RevisionsFit /\ DOMAIN s4 = Requests /\ \A c \in Requests : CallFits(s4[c])
<1>1. ASSUME Draft!IInv
      PROVE  RevisionsFit /\ DOMAIN s4 = Requests /\ \A c \in Requests : CallFits(s4[c])
  <2>1. /\ s1 \in 1 .. MaxRevision /\ s2 \in Seq(Draft!Revision) /\ Len(s2) = s1
        /\ s3 \in Seq(Contents) /\ DOMAIN s2 = 1 .. s1 /\ DOMAIN s3 = 1 .. Len(s3)
        /\ DOMAIN s4 = Requests
    BY <1>1 DEF Draft!IInv, Draft!TypeOK
  <2>2. \A r \in 1 .. s1 : s2[r].content \in Contents /\ s2[r].receipt \in Nat
    <3>1. \A r \in 1 .. s1 : s2[r] \in Draft!Revision
      BY <2>1
    <3> QED
      BY <3>1 DEF Draft!Revision
  <2>3. RevisionsFit
    <3>1. \A i \in 1 .. Len(s3) : \E r \in 1 .. s1 : s2[r].receipt = i
      BY <1>1, <2>1 DEF Draft!IInv, Draft!ReceiptsAreTrue
    <3>2. ASSUME NEW r \in 1 .. s1
          PROVE  /\ s2[r].content \in Contents /\ s2[r].receipt \in 0 .. Len(s3)
                 /\ s2[r].receipt # 0 =>
                      /\ s3[s2[r].receipt] = s2[r].content
                      /\ \A q \in 1 .. s1 : s2[q].receipt = s2[r].receipt => q = r
      <4>1. s2[r].receipt <= Len(s3) /\ Len(s3) \in Nat
        BY <1>1, <2>1 DEF Draft!IInv
      <4>2. s2[r].receipt \in 0 .. Len(s3)
        BY <2>2, <4>1
      <4> QED
        BY <1>1, <2>1, <2>2, <4>2 DEF Draft!IInv, Draft!ReceiptsAreTrue, Draft!NoReceipt
    <3> QED
      BY <2>1, <3>1, <3>2 DEF RevisionsFit
  <2>4. ASSUME NEW c \in Requests PROVE CallFits(s4[c])
    <3>1. s4[c] = Draft!Idle \/ s4[c] \in DraftCalls
      BY <1>1 DEF Draft!IInv, Draft!TypeOK, DraftCalls
    <3> QED
      BY <1>1, <3>1 DEF CallFits, Draft!IInv, Draft!RequestsAreOfRevisions,
         Draft!RepetitionIsReplayed, Draft!Ended, Draft!Answers, Draft!NoReceipt
  <2> QED
    BY <2>1, <2>3, <2>4
<1>2. ASSUME RevisionsFit, DOMAIN s4 = Requests, \A c \in Requests : CallFits(s4[c])
      PROVE  Draft!IInv
  <2>1. DOMAIN s2 = 1 .. s1 /\ DOMAIN s3 = 1 .. Len(s3) /\ Len(s2) = s1
    BY <1>2 DEF RevisionsFit
  <2>2. Draft!TypeOK
    BY <1>2 DEF RevisionsFit, CallFits, DraftCalls, Draft!TypeOK
  <2>3. Draft!ReceiptsAreTrue /\ \A r \in DOMAIN s2 : s2[r].receipt <= Len(s3)
    <3>1. \A i \in DOMAIN s3 : \E r \in DOMAIN s2 : s2[r].receipt = i
      BY <1>2, <2>1 DEF RevisionsFit
    <3>2. ASSUME NEW r \in DOMAIN s2
          PROVE  /\ s2[r].receipt <= Len(s3)
                 /\ s2[r].receipt # 0 =>
                      /\ s3[s2[r].receipt] = s2[r].content
                      /\ \A q \in DOMAIN s2 : s2[q].receipt = s2[r].receipt => q = r
      <4>1. r \in 1 .. s1 /\ s2[r].receipt \in 0 .. Len(s3)
        BY <1>2, <2>1 DEF RevisionsFit
      <4>2. s2[r].receipt <= Len(s3)
        BY <4>1
      <4>3. s2[r].receipt # 0 =>
              /\ s3[s2[r].receipt] = s2[r].content
              /\ \A q \in 1 .. s1 : s2[q].receipt = s2[r].receipt => q = r
        BY <1>2, <4>1 DEF RevisionsFit
      <4> QED
        BY <2>1, <4>2, <4>3
    <3> QED
      BY <3>1, <3>2 DEF Draft!ReceiptsAreTrue, Draft!NoReceipt
  <2>4. Draft!RepetitionIsReplayed /\ Draft!RequestsAreOfRevisions
    BY <1>2 DEF CallFits, Draft!RepetitionIsReplayed, Draft!RequestsAreOfRevisions, Draft!Ended,
       Draft!NoReceipt
  <2> QED
    BY <1>2, <2>1, <2>2, <2>3, <2>4 DEF Draft!IInv
<1> QED
  BY <1>1, <1>2

\* So it is after a step.
LEMMA DraftInvWillBe ==
  (Draft!IInv <=> RevisionsFit /\ DOMAIN s4 = Requests /\ \A c \in Requests : CallFits(s4[c]))'
BY DraftInvIs, PTL

\* A draft starts with one revision.
LEMMA DraftInit == Draft!Init => Draft!IInv
<1> SUFFICES ASSUME Draft!Init PROVE Draft!IInv
  OBVIOUS
<1>1. PICK x \in Contents : s2 = <<[content |-> x, receipt |-> 0]>>
  BY DEF Draft!Init, Draft!NoReceipt
<1>2. /\ s2 \in Seq(Draft!Revision) /\ Len(s2) = 1
      /\ s2[1].content \in Contents /\ s2[1].receipt = 0
  BY <1>1 DEF Draft!Revision
<1>3. s3 \in Seq(Contents) /\ Len(s3) = 0
  BY DEF Draft!Init
<1>4. RevisionsFit
  BY <1>2, <1>3, DraftAssumption DEF Draft!Init, RevisionsFit
<1> QED
  BY <1>4, DraftInvIs DEF Draft!Init, CallFits

\* What a step of the draft is to do.
DraftGoal == Draft!IInv' /\ Draft!HistoryIsKeptStep

\* Only a request moves, to where it fits.
LEMMA RequestMoves ==
  ASSUME Draft!IInv, s1' = s1, s2' = s2, s3' = s3, NEW c \in Requests, NEW n,
         s4' = [s4 EXCEPT ![c] = n], CallFits(n)
  PROVE  DraftGoal
<1>1. RevisionsFit /\ DOMAIN s4 = Requests /\ \A d \in Requests : CallFits(s4[d])
  BY DraftInvIs
<1>2. RevisionsFit'
  BY <1>1 DEF RevisionsFit
<1>3. DOMAIN s4' = Requests
  BY <1>1
<1>4. ASSUME NEW d \in Requests PROVE CallFits(s4[d])'
  <2>1. PICK m : m = s4'[d]
    OBVIOUS
  <2>2. CallFits(m)
    BY <1>1, <2>1
  <2>3. CallFits(m)'
    BY <2>2 DEF CallFits, Draft!VersionExists
  <2>4. CallFits(s4[d])' <=> CallFits(m)'
    BY <2>1 DEF CallFits
  <2> QED
    BY <2>3, <2>4
<1>5. Draft!IInv'
  BY <1>2, <1>3, <1>4, DraftInvWillBe
<1>6. Draft!HistoryIsKeptStep
  BY <1>1 DEF RevisionsFit, Draft!HistoryIsKeptStep
<1> QED
  BY <1>5, <1>6 DEF DraftGoal

\* The draft grows, and the requests that do not move still fit.
LEMMA DraftGrows ==
  ASSUME Draft!IInv, NEW c \in Requests, NEW n,
         s4' = [s4 EXCEPT ![c] = n], CallFits(n)',
         RevisionsFit', Draft!HistoryIsKeptStep,
         \A m : s2[m.expected].receipt = 0 /\ Draft!VersionExists(m.content)
                  /\ m.content = s2[m.expected].content /\ m.expected \in 1 .. s1 =>
                 s2'[m.expected].receipt = 0 /\ Draft!VersionExists(m.content)'
  PROVE  DraftGoal
<1>1. RevisionsFit /\ DOMAIN s4 = Requests /\ \A d \in Requests : CallFits(s4[d])
  BY DraftInvIs
<1>2. /\ DOMAIN s4' = Requests /\ s1 \in Nat /\ s1' \in Nat
      /\ DOMAIN s2 = 1 .. s1 /\ s1 <= s1'
  BY <1>1 DEF RevisionsFit, Draft!HistoryIsKeptStep
<1>3. ASSUME NEW d \in Requests PROVE CallFits(s4[d])'
  <2>1. PICK m : m = s4'[d]
    OBVIOUS
  <2>2. CallFits(s4[d])' <=> CallFits(m)'
    BY <2>1 DEF CallFits
  <2>3. CASE d = c
    BY <1>1, <2>1, <2>2, <2>3 DEF CallFits
  <2>4. CASE d # c
    <3>1. CallFits(m)
      BY <1>1, <2>1, <2>4
    <3>2. CASE m = Draft!Idle
      BY <2>2, <3>2 DEF CallFits
    <3>3. CASE m # Draft!Idle
      <4>1. m \in DraftCalls /\ m.expected <= s1 /\ m.expected \in 1 .. MaxRevision
        BY <3>1, <3>3 DEF CallFits, DraftCalls
      <4>2. m.expected \in 1 .. s1 /\ m.expected <= s1'
        BY <1>2, <4>1, DraftAssumption
      <4>3. s2'[m.expected].content = s2[m.expected].content
        BY <1>2, <4>2 DEF Draft!HistoryIsKeptStep
      <4>4. CallFits(m)'
        BY <3>1, <3>3, <4>1, <4>2, <4>3 DEF CallFits
      <4> QED
        BY <2>2, <4>4
    <3> QED
      BY <3>2, <3>3
  <2> QED
    BY <2>3, <2>4
<1>4. Draft!IInv'
  BY <1>2, <1>3, DraftInvWillBe
<1> QED
  BY <1>4 DEF DraftGoal

\* A save appends the edit of the current revision.
LEMMA SavesKeep ==
  ASSUME Draft!IInv, NEW c \in Requests, Draft!Save(c)
  PROVE  DraftGoal
<1>1. RevisionsFit /\ DOMAIN s4 = Requests /\ \A d \in Requests : CallFits(s4[d])
  BY DraftInvIs
<1>2. s4[c] \in DraftCalls /\ s4[c].expected <= s1 /\ s3' = s3
  BY <1>1 DEF Draft!Save, CallFits
<1>3. ASSUME NEW place \in {"conflict", "limit", "saved"}, Draft!At(c, place)
      PROVE  \E n : /\ s4' = [s4 EXCEPT ![c] = n] /\ CallFits(n)
                    /\ n \in DraftCalls /\ n.expected = s4[c].expected /\ n.at = place
  <2> DEFINE n == [s4[c] EXCEPT !.at = place]
  <2>1. s4' = [s4 EXCEPT ![c] = n]
    BY <1>3 DEF Draft!At
  <2>2. n \in DraftCalls /\ n.at = place /\ n.expected = s4[c].expected
    BY <1>2 DEF DraftCalls, Draft!Answers
  <2>3. CallFits(n)
    BY <1>2, <2>2 DEF CallFits
  <2> QED
    BY <2>1, <2>2, <2>3
<1>4. CASE s1' = s1 /\ s2' = s2 /\ (Draft!At(c, "conflict") \/ Draft!At(c, "limit"))
  BY <1>2, <1>3, <1>4, RequestMoves
<1>5. CASE /\ s1 = s4[c].expected /\ s1 < MaxRevision /\ s1' = s1 + 1 /\ Draft!At(c, "saved")
           /\ s2' = Append(s2, [content |-> s4[c].content, receipt |-> 0])
  <2>1. PICK n : /\ s4' = [s4 EXCEPT ![c] = n] /\ n \in DraftCalls
                 /\ n.expected = s4[c].expected /\ n.at = "saved"
    BY <1>3, <1>5
  <2>2. PICK x \in Contents : x = s4[c].content
    BY <1>2 DEF DraftCalls
  <2> DEFINE row == [content |-> x, receipt |-> 0]
  <2>3. row \in Draft!Revision /\ row.content = x /\ row.receipt = 0
    BY DEF Draft!Revision
  <2> HIDE DEF row
  <2>4. /\ s2 \in Seq(Draft!Revision) /\ Len(s2) = s1 /\ s1 \in 1 .. MaxRevision
        /\ MaxRevision \in Nat /\ Len(s3) \in Nat
    BY <1>1, DraftAssumption DEF RevisionsFit
  <2>5. /\ s2' \in Seq(Draft!Revision) /\ Len(s2') = s1 + 1 /\ s2'[s1 + 1] = row
        /\ \A r \in 1 .. s1 : s2'[r] = s2[r]
    <3>1. s2' = Append(s2, row)
      BY <1>5, <2>2 DEF row
    <3>2. s2' \in Seq(Draft!Revision)
      BY <2>3, <2>4, <3>1
    <3>3. Len(s2') = Len(s2) + 1 /\ s2'[Len(s2) + 1] = row
      BY <2>3, <2>4, <3>1
    <3>4. \A r \in 1 .. Len(s2) : s2'[r] = s2[r]
      BY <2>3, <2>4, <3>1
    <3>5. Len(s2) = s1
      BY <2>4
    <3> QED
      BY <3>2, <3>3, <3>4, <3>5, Zenon
  <2>6. 1 .. s1' = (1 .. s1) \cup {s1 + 1} /\ s1' \in 1 .. MaxRevision
    <3>1. s1 \in Nat /\ s1 < MaxRevision /\ s1' = s1 + 1 /\ MaxRevision \in Nat
      BY <1>5, <2>4
    <3> QED
      BY <3>1
  <2>7. s2'[s1 + 1].content \in Contents /\ s2'[s1 + 1].receipt = 0
    BY <2>3, <2>5
  <2>8. RevisionsFit'
    <3>1. \A i \in 1 .. Len(s3') : \E r \in 1 .. s1' : s2'[r].receipt = i
      BY <1>1, <1>2, <2>5, <2>6 DEF RevisionsFit
    <3>2. ASSUME NEW r \in 1 .. s1'
          PROVE  /\ s2'[r].content \in Contents /\ s2'[r].receipt \in 0 .. Len(s3')
                 /\ s2'[r].receipt # 0 =>
                      /\ s3'[s2'[r].receipt] = s2'[r].content
                      /\ \A q \in 1 .. s1' : s2'[q].receipt = s2'[r].receipt => q = r
      <4>1. CASE r \in 1 .. s1
        <5>1. s2'[r] = s2[r] /\ s2[r].receipt \in 0 .. Len(s3)
          BY <1>1, <2>5, <4>1 DEF RevisionsFit
        <5>2. ASSUME NEW q \in 1 .. s1', s2'[q].receipt = s2'[r].receipt, s2'[r].receipt # 0
              PROVE  q = r
          <6>1. q \in 1 .. s1
            BY <2>6, <2>7, <5>2
          <6> QED
            BY <1>1, <2>5, <4>1, <5>2, <6>1 DEF RevisionsFit
        <5> QED
          BY <1>1, <1>2, <4>1, <5>1, <5>2 DEF RevisionsFit
      <4>2. CASE r = s1 + 1
        BY <1>2, <2>4, <2>7, <4>2
      <4> QED
        BY <2>6, <4>1, <4>2
    <3> QED
      BY <1>1, <1>2, <1>5, <2>5, <2>6, <3>1, <3>2 DEF RevisionsFit
  <2>9. Draft!HistoryIsKeptStep
    BY <1>5, <2>4, <2>5 DEF Draft!HistoryIsKeptStep
  <2>10. CallFits(n)'
    BY <1>2, <1>5, <2>1, <2>4 DEF CallFits
  <2>11. \A m : s2[m.expected].receipt = 0 /\ Draft!VersionExists(m.content)
                  /\ m.content = s2[m.expected].content /\ m.expected \in 1 .. s1 =>
                 s2'[m.expected].receipt = 0 /\ Draft!VersionExists(m.content)'
    BY <1>2, <2>5 DEF Draft!VersionExists
  <2> QED
    BY <2>1, <2>8, <2>9, <2>10, <2>11, DraftGrows
<1> QED
  BY <1>4, <1>5 DEF Draft!Save, Draft!NoReceipt

\* A submission is made of the current revision, which has none, and gets its number.
LEMMA CreationsKeep ==
  ASSUME Draft!IInv, NEW c \in Requests, Draft!CreateSubmission(c)
  PROVE  DraftGoal
<1>1. RevisionsFit /\ DOMAIN s4 = Requests /\ \A d \in Requests : CallFits(s4[d])
  BY DraftInvIs
<1>2. /\ s4[c] \in DraftCalls /\ s4[c].expected <= s1 /\ s1' = s1
      /\ s4[c].content = s2[s4[c].expected].content
  BY <1>1 DEF Draft!CreateSubmission, CallFits
<1>3. PICK e \in 1 .. MaxRevision, x \in Contents : e = s4[c].expected /\ x = s4[c].content
  BY <1>2 DEF DraftCalls
<1>4. ASSUME NEW place \in {"conflict", "replaying", "exists", "created", "unknown"},
             Draft!At(c, place)
      PROVE  \E n : /\ s4' = [s4 EXCEPT ![c] = n] /\ n \in DraftCalls /\ n.at = place
                    /\ n.expected = e /\ n.content = x
  <2> DEFINE n == [s4[c] EXCEPT !.at = place]
  <2>1. s4' = [s4 EXCEPT ![c] = n]
    BY <1>4 DEF Draft!At
  <2>2. n \in DraftCalls /\ n.at = place /\ n.expected = e /\ n.content = x
    BY <1>2, <1>3 DEF DraftCalls, Draft!Answers
  <2> QED
    BY <2>1, <2>2
<1>5. CASE /\ s2' = s2 /\ s3' = s3
           /\ \/ Draft!At(c, "conflict") \/ Draft!At(c, "replaying")
              \/ /\ Draft!At(c, "exists") /\ s2[e].receipt = 0
                 /\ Draft!VersionExists(s2[e].content)
  <2>1. PICK n : /\ s4' = [s4 EXCEPT ![c] = n] /\ n \in DraftCalls
                 /\ n.expected = e /\ n.content = x
                 /\ n.at \in {"conflict", "replaying", "exists"}
                 /\ n.at = "exists" => s2[e].receipt = 0 /\ Draft!VersionExists(s2[e].content)
    BY <1>4, <1>5
  <2>2. CallFits(n)
    BY <1>2, <1>3, <2>1 DEF CallFits
  <2> QED
    BY <1>2, <1>5, <2>1, <2>2, RequestMoves
<1>6. CASE /\ s2[e].receipt = 0 /\ s3' = Append(s3, x)
           /\ s2' = [s2 EXCEPT ![e].receipt = Len(s3) + 1]
           /\ Draft!At(c, "created") \/ Draft!At(c, "unknown")
           /\ ~Draft!VersionExists(s2[e].content)
  <2>1. PICK n : /\ s4' = [s4 EXCEPT ![c] = n] /\ n \in DraftCalls
                 /\ n.expected = e /\ n.at \in {"created", "unknown"}
    BY <1>4, <1>6
  <2> DEFINE k == Len(s3) + 1
             row == [s2[e] EXCEPT !.receipt = k]
  <2>2. /\ s2 \in Seq(Draft!Revision) /\ Len(s2) = s1 /\ s1 \in 1 .. MaxRevision
        /\ MaxRevision \in Nat /\ s3 \in Seq(Contents) /\ Len(s3) \in Nat /\ k \in Nat /\ k # 0
    BY <1>1, DraftAssumption DEF RevisionsFit
  <2>3. e \in 1 .. s1 /\ s2[e] \in Draft!Revision /\ s2[e].content = x
    BY <1>2, <1>3, <2>2
  <2>4. row \in Draft!Revision /\ row.content = x /\ row.receipt = k
    BY <2>2, <2>3 DEF Draft!Revision
  <2>5. s2' = [s2 EXCEPT ![e] = row]
    BY <1>6, <2>2
  <2> HIDE DEF row
  <2>6. /\ s2' \in Seq(Draft!Revision) /\ Len(s2') = s1 /\ s2'[e] = row
        /\ \A r \in 1 .. s1 : r # e => s2'[r] = s2[r]
    BY <2>2, <2>3, <2>4, <2>5
  <2>7. /\ s3' \in Seq(Contents) /\ Len(s3') = k /\ s3'[k] = x
        /\ \A i \in 1 .. Len(s3) : s3'[i] = s3[i]
    BY <1>6, <2>2
  <2>8. 1 .. k = 1 .. Len(s3) \cup {k} /\ 0 .. k = 0 .. Len(s3) \cup {k} /\ k \notin 0 .. Len(s3)
    BY <2>2
  <2> HIDE DEF k
  <2>9. RevisionsFit'
    <3>1. ASSUME NEW i \in 1 .. k PROVE \E r \in 1 .. s1 : s2'[r].receipt = i
      <4>1. CASE i = k
        BY <2>3, <2>4, <2>6, <4>1
      <4>2. CASE i \in 1 .. Len(s3)
        <5>1. PICK r \in 1 .. s1 : s2[r].receipt = i
          BY <1>1, <4>2 DEF RevisionsFit
        <5>2. r # e
          BY <1>6, <4>2, <5>1
        <5> QED
          BY <2>6, <5>1, <5>2
      <4> QED
        BY <2>8, <4>1, <4>2
    <3>2. ASSUME NEW r \in 1 .. s1
          PROVE  /\ s2'[r].content \in Contents /\ s2'[r].receipt \in 0 .. k
                 /\ s2'[r].receipt # 0 =>
                      /\ s3'[s2'[r].receipt] = s2'[r].content
                      /\ \A q \in 1 .. s1 : s2'[q].receipt = s2'[r].receipt => q = r
      <4>1. CASE r = e
        <5>1. \A q \in 1 .. s1 : q # e => s2'[q].receipt \in 0 .. Len(s3)
          BY <1>1, <2>6 DEF RevisionsFit
        <5> QED
          BY <2>4, <2>6, <2>7, <2>8, <4>1, <5>1
      <4>2. CASE r # e
        <5>1. s2'[r] = s2[r] /\ s2[r].content \in Contents /\ s2[r].receipt \in 0 .. Len(s3)
          BY <1>1, <2>6, <4>2 DEF RevisionsFit
        <5>2. ASSUME s2[r].receipt # 0 PROVE s3'[s2[r].receipt] = s2[r].content
          <6>1. s2[r].receipt \in 1 .. Len(s3)
            BY <2>2, <5>1, <5>2
          <6> QED
            BY <1>1, <2>7, <5>2, <6>1 DEF RevisionsFit
        <5>3. ASSUME s2[r].receipt # 0, NEW q \in 1 .. s1, s2'[q].receipt = s2[r].receipt
              PROVE  q = r
          <6>1. q # e
            BY <2>4, <2>6, <2>8, <5>1, <5>3
          <6> QED
            BY <1>1, <2>6, <5>3, <6>1 DEF RevisionsFit
        <5> QED
          BY <2>8, <5>1, <5>2, <5>3
      <4> QED
        BY <4>1, <4>2
    <3> QED
      BY <1>2, <2>2, <2>6, <2>7, <3>1, <3>2 DEF RevisionsFit
  <2>10. Draft!HistoryIsKeptStep
    <3>1. DOMAIN s2 = 1 .. s1
      BY <2>2
    <3>2. \A r \in 1 .. s1 : /\ s2'[r].content = s2[r].content
                             /\ s2[r].receipt # 0 => s2'[r].receipt = s2[r].receipt
      BY <1>6, <2>3, <2>4, <2>6
    <3> QED
      BY <1>2, <2>2, <2>6, <3>1, <3>2 DEF Draft!HistoryIsKeptStep, Draft!NoReceipt
  <2>11. CallFits(n)'
    BY <1>2, <1>3, <2>1 DEF CallFits
  <2>12. ASSUME NEW m, s2[m.expected].receipt = 0, Draft!VersionExists(m.content),
                m.content = s2[m.expected].content, m.expected \in 1 .. s1
         PROVE  s2'[m.expected].receipt = 0 /\ Draft!VersionExists(m.content)'
    <3>1. m.expected # e
      BY <1>6, <2>12
    <3>2. Draft!VersionExists(m.content)'
      <4>1. PICK i \in DOMAIN s3 : VersionOf[s3[i]] = VersionOf[m.content]
        BY <2>12 DEF Draft!VersionExists
      <4>2. i \in DOMAIN s3' /\ s3'[i] = s3[i]
        BY <2>2, <2>7, <2>8, <4>1
      <4> QED
        BY <4>1, <4>2 DEF Draft!VersionExists
    <3> QED
      BY <2>6, <2>12, <3>1, <3>2
  <2> QED
    BY <2>1, <2>9, <2>10, <2>11, <2>12, DraftGrows
<1>7. \/ /\ s2' = s2 /\ s3' = s3
         /\ \/ Draft!At(c, "conflict") \/ Draft!At(c, "replaying")
            \/ /\ Draft!At(c, "exists") /\ s2[e].receipt = 0
               /\ Draft!VersionExists(s2[e].content)
      \/ /\ s2[e].receipt = 0 /\ s3' = Append(s3, x)
         /\ s2' = [s2 EXCEPT ![e].receipt = Len(s3) + 1]
         /\ Draft!At(c, "created") \/ Draft!At(c, "unknown")
         /\ ~Draft!VersionExists(s2[e].content)
  BY <1>3 DEF Draft!CreateSubmission, Draft!Created, Draft!NoReceipt
<1> QED
  BY <1>5, <1>6, <1>7

\* Every step of a draft keeps its invariant and its history.
LEMMA DraftKept ==
  ASSUME Draft!IInv, Draft!Next \/ UNCHANGED Draft!vars
  PROVE  DraftGoal
<1>1. RevisionsFit /\ DOMAIN s4 = Requests /\ \A d \in Requests : CallFits(s4[d])
  BY DraftInvIs
<1>2. s1 \in 1 .. MaxRevision /\ \A r \in 1 .. s1 : r \in 1 .. MaxRevision /\ s2[r].content \in Contents
  BY <1>1, DraftAssumption DEF RevisionsFit
<1>3. ASSUME NEW c \in Requests, Draft!Edit(c) PROVE DraftGoal
  <2>1. PICK expected \in 1 .. s1, x \in Contents :
          /\ s4' = [s4 EXCEPT ![c] = [at |-> "saving", expected |-> expected, content |-> x]]
          /\ s1' = s1 /\ s2' = s2 /\ s3' = s3
    BY <1>3 DEF Draft!Edit
  <2>2. CallFits([at |-> "saving", expected |-> expected, content |-> x])
    BY <1>2, <2>1 DEF CallFits, DraftCalls
  <2> QED
    BY <2>1, <2>2, RequestMoves
<1>4. ASSUME NEW c \in Requests, Draft!StartSubmit(c) PROVE DraftGoal
  <2>1. PICK expected \in 1 .. s1, place \in {"conflict", "replayed", "creating"} :
          /\ s4' = [s4 EXCEPT ![c] = [at |-> place, expected |-> expected,
                                       content |-> s2[expected].content]]
          /\ s1' = s1 /\ s2' = s2 /\ s3' = s3
    BY <1>4 DEF Draft!StartSubmit
  <2>2. CallFits([at |-> place, expected |-> expected, content |-> s2[expected].content])
    BY <1>2, <2>1 DEF CallFits, DraftCalls, Draft!Answers
  <2> QED
    BY <2>1, <2>2, RequestMoves
<1>5. ASSUME NEW c \in Requests, Draft!Replay(c) PROVE DraftGoal
  <2>1. PICK place \in {"conflict", "replayed"} :
          s4' = [s4 EXCEPT ![c] = [s4[c] EXCEPT !.at = place]]
    BY <1>5 DEF Draft!Replay, Draft!At
  <2>2. s4[c] \in DraftCalls /\ s4[c].expected <= s1
    BY <1>1, <1>5 DEF Draft!Replay, CallFits
  <2>3. CallFits([s4[c] EXCEPT !.at = place])
    BY <2>1, <2>2 DEF CallFits, DraftCalls, Draft!Answers
  <2> QED
    BY <1>5, <2>1, <2>3, RequestMoves DEF Draft!Replay
<1>6. ASSUME NEW c \in Requests, Draft!Again(c) PROVE DraftGoal
  <2>1. CallFits(Draft!Idle)
    BY DEF CallFits
  <2> QED
    BY <1>6, <2>1, RequestMoves DEF Draft!Again
<1>7. ASSUME UNCHANGED Draft!vars PROVE DraftGoal
  <2>1. s1' = s1 /\ s2' = s2 /\ s3' = s3 /\ s4' = s4
    BY <1>7 DEF Draft!vars
  <2>2. Draft!HistoryIsKeptStep
    BY <1>1, <2>1 DEF RevisionsFit, Draft!HistoryIsKeptStep
  <2> QED
    BY <2>1, <2>2 DEF DraftGoal, Draft!IInv, Draft!TypeOK, Draft!ReceiptsAreTrue,
       Draft!RepetitionIsReplayed, Draft!RequestsAreOfRevisions, Draft!Ended, Draft!VersionExists
<1> QED
  BY <1>3, <1>4, <1>5, <1>6, <1>7, SavesKeep, CreationsKeep DEF Draft!Next

---------------------------------------------------------------------------
(* The lock of an installation root.                                       *)

\* The processes on the machine.
Machine == Requests \cup {Third}

\* How a step of p touches the lock in turn: it leaves all but the directory reaping as it
\* was, or there was none, or p made it or reaps it.
RootTouches(p) ==
  \/ s1' = s1
  \/ /\ Root!Exists /\ Root!Exists'
     /\ s1'.dir = s1.dir /\ s1'.owner = s1.owner /\ s1'.written = s1.written
  \/ ~Root!Exists
  \/ Root!MadeByMe(p)
  \/ Root!Reaps(p) /\ Root!MadeByTheDead(p)

\* What a step of p must leave until two reap the same lock.
RootLeaves(p) ==
  /\ Root!Exists' => s1'.owner \in {Root!Nobody, s1'.dir}
  /\ Root!Turn(p)'
  /\ RootTouches(p)
  /\ Root!Reaps(p)' => Root!Reaps(p) \/ \A q \in Machine : ~Root!Reaps(q)

\* While processes take turns on a root, a step is one of theirs or changes nothing.
LEMMA RootSteps ==
  ASSUME part = "root", [Next]_vars
  PROVE  Root!Next \/ UNCHANGED Root!vars
BY DEF Next, vars, Root!vars, Submission, Authoring, Importing, Adopting, Checking, Improving,
       Reporting, RootLocking, Installing

\* The steps of a process by name.
LEMMA RootNames ==
  /\ Root!Steps = {"idle", "dead", "mkdir", "read", "claim", "reread", "unclaim", "wait", "inside",
                   "leave", "list", "unlink", "create", "write", "undo", "rmdir"}
  /\ Root!Holding = {"inside", "leave"}
  /\ Root!Removing = {"list", "unlink"}
  /\ NoLock \notin Root!LockDirs
  /\ Root!Nobody \notin Root!Calls
BY RootAssumption DEF Root!Steps, Root!Outside, Root!Contending, Root!Holding, Root!Removing,
   Root!Nobody, Root!Calls

\* Nobody is at the root at the start.
LEMMA RootInit == Root!Init => Root!IInv
<1> SUFFICES ASSUME Root!Init PROVE Root!IInv
  OBVIOUS
<1>1. Root!TypeOK
  <2>1. "idle" \in Root!Steps /\ 0 \in 0 .. MaxCalls
    BY RootAssumption, RootNames
  <2> QED
    BY <2>1 DEF Root!Init, Root!TypeOK
<1>2. \A p \in Machine : s2[p] = "idle"
  BY DEF Root!Init, Machine
<1>3. Root!CallsAreCounted /\ Root!OwnersAreKnown
  BY <1>2, RootNames DEF Root!CallsAreCounted, Root!OwnersAreKnown, Machine
<1>4. \A p \in Machine : Root!Turn(p) /\ ~Root!Reaps(p)
  BY <1>2, RootNames DEF Root!Turn, Root!Reaps
<1> QED
  BY <1>1, <1>3, <1>4 DEF Root!Init, Root!IInv, Root!TurnsAreTaken, Root!Exists, Machine

\* A step of one process that touches the lock in turn keeps the turns of the others: a lock a
\* living process made is reaped by nobody, and one that p reaps has no living maker.
LEMMA TurnsKeep ==
  ASSUME Root!IInv, Root!TypeOK', NEW p \in Machine, s2[p] # "dead",
         \A q \in Machine : q # p =>
           s2'[q] = s2[q] /\ s3'[q] = s3[q] /\ s4'[q] = s4[q] /\ s5'[q] = s5[q],
         s2'[p] # "idle" => Root!Me(p)' \in Root!Calls,
         s2'[p] \in {"claim", "reread"} => s4'[p] \in Root!Calls /\ s2'[s4'[p][1]] = "dead",
         s2'[p] \in Root!Removing => s4'[p] \in Root!Calls,
         s6 => s6', ~s6' => RootLeaves(p)
  PROVE  Root!IInv'
<1>1. \A q \in Machine : s2'[q] # "idle" => Root!Me(q)' \in Root!Calls
  <2> SUFFICES ASSUME NEW q \in Machine PROVE s2'[q] # "idle" => Root!Me(q)' \in Root!Calls
    OBVIOUS
  <2>1. CASE q = p
    BY <2>1
  <2>2. CASE q # p
    BY <2>2 DEF Root!IInv, Root!CallsAreCounted, Root!Me, Machine
  <2> QED
    BY <2>1, <2>2
<1>2. \A c \in Root!Calls : s2[c[1]] = "dead" => s2'[c[1]] = "dead"
  BY DEF Root!Calls, Machine
<1>3. ASSUME NEW q \in Machine
      PROVE  /\ s2'[q] \in {"claim", "reread"} => s4'[q] \in Root!Calls /\ s2'[s4'[q][1]] = "dead"
             /\ s2'[q] \in Root!Removing => s4'[q] \in Root!Calls
  <2>1. CASE q = p
    BY <2>1
  <2>2. CASE q # p
    BY <1>2, <2>2 DEF Root!IInv, Root!OwnersAreKnown, Root!ProcessExists, Machine
  <2> QED
    BY <2>1, <2>2
<1>4. ASSUME ~s6' PROVE /\ Root!Exists' => s1'.owner \in {Root!Nobody, s1'.dir}
                        /\ \A q \in Machine : Root!Turn(q)'
                        /\ \A q, r \in Machine : Root!Reaps(q)' /\ Root!Reaps(r)' => q = r
  <2>1. ~s6 /\ RootLeaves(p)
    BY <1>4
  <2>2. \A q \in Machine : Root!Turn(q)
    BY <2>1 DEF Root!IInv, Root!TurnsAreTaken, Machine
  <2>3. \A q, r \in Machine : Root!Reaps(q) /\ Root!Reaps(r) => q = r
    BY <2>1 DEF Root!IInv, Root!TurnsAreTaken, Machine
  <2>4. ASSUME NEW q \in Machine, q # p PROVE Root!Turn(q)' /\ (Root!Reaps(q)' => Root!Reaps(q))
    <3>1. Root!Turn(q) /\ Root!Me(q)' = Root!Me(q) /\ Root!Me(q) # Root!Me(p)
      BY <2>2, <2>4 DEF Root!Me
    <3>2. s2'[q] = s2[q] /\ s4'[q] = s4[q] /\ s5'[q] = s5[q]
      BY <2>4
    <3>3. s2[q] \in Root!Removing => s4[q] \in Root!Calls
      BY DEF Root!IInv, Root!OwnersAreKnown, Machine
    <3>4. s2[q] \in Root!Removing => Root!MadeByTheDead(q) \/ (Root!MadeByMe(q) /\ s4[q] = Root!Me(q))
      BY <3>1 DEF Root!Turn
    <3>5. Root!MadeByTheDead(q) /\ s4[q] \in Root!Calls => s2'[s4[q][1]] = "dead"
      BY <1>2 DEF Root!MadeByTheDead, Root!ProcessExists
    <3>6. Root!Reaps(q)' => Root!Reaps(q)
      <4>1. s2[q] \in Root!Removing /\ s4[q] = Root!Me(q) => s2[q] # "dead" /\ s2'[s4[q][1]] # "dead"
        BY <3>2, RootNames DEF Root!Me
      <4> QED
        BY <3>2, <3>4, <4>1 DEF Root!Reaps, Root!MadeByTheDead, Root!ProcessExists
    <3>7. ASSUME s1' = s1 \/ ( /\ Root!Exists /\ Root!Exists'
                               /\ s1'.dir = s1.dir /\ s1'.owner = s1.owner /\ s1'.written = s1.written )
          PROVE  Root!Turn(q)'
      <4>1. Root!Exists => Root!Exists' /\ s1'.dir = s1.dir /\ s1'.owner = s1.owner /\ s1'.written = s1.written
        BY <3>7 DEF Root!Exists
      <4>2. (Root!MadeByMe(q) => Root!MadeByMe(q)') /\ (Root!OwnedByMe(q) => Root!OwnedByMe(q)')
        BY <3>1, <4>1 DEF Root!MadeByMe, Root!OwnedByMe
      <4>3. Root!MadeByTheDead(q) /\ s4[q] \in Root!Calls => Root!MadeByTheDead(q)'
        BY <3>2, <3>5, <4>1 DEF Root!MadeByTheDead, Root!ProcessExists
      <4>4. s2[q] \in {"create"} \cup Root!Holding \cup Root!Removing => Root!Exists
        BY <3>1 DEF Root!Turn, Root!MadeByMe, Root!OwnedByMe, Root!MadeByTheDead
      <4> QED
        BY <3>1, <3>2, <3>3, <4>1, <4>2, <4>3, <4>4, RootNames DEF Root!Turn
    <3>8. ASSUME ~Root!Exists \/ Root!MadeByMe(p) \/ (Root!Reaps(p) /\ Root!MadeByTheDead(p))
          PROVE  Root!Turn(q)'
      <4>1. s2[q] \notin {"create", "write"} \cup Root!Holding \cup Root!Removing
        <5>1. CASE ~Root!Exists
          BY <3>1, <5>1 DEF Root!Turn, Root!MadeByMe, Root!OwnedByMe, Root!MadeByTheDead
        <5>2. CASE Root!MadeByMe(p)
          <6>1. ~Root!MadeByMe(q)
            BY <3>1, <5>2 DEF Root!MadeByMe
          <6>2. ~Root!MadeByTheDead(q)
            BY <5>2 DEF Root!MadeByMe, Root!MadeByTheDead, Root!ProcessExists, Root!Me
          <6> QED
            BY <3>1, <6>1, <6>2 DEF Root!Turn, Root!OwnedByMe
        <5>3. CASE Root!Reaps(p) /\ Root!MadeByTheDead(p)
          <6>1. ~Root!Reaps(q)
            BY <2>3, <2>4, <5>3
          <6>2. Root!MadeByMe(q) => s2[q] = "dead"
            BY <5>3 DEF Root!MadeByMe, Root!MadeByTheDead, Root!ProcessExists, Root!Me
          <6>3. s2[q] \in Root!Removing => ~Root!MadeByTheDead(q)
            BY <6>1 DEF Root!Reaps, Root!MadeByTheDead
          <6> QED
            BY <3>1, <6>2, <6>3, RootNames DEF Root!Turn, Root!OwnedByMe
        <5> QED
          BY <3>8, <5>1, <5>2, <5>3
      <4> QED
        BY <3>1, <3>2, <4>1, RootNames DEF Root!Turn
    <3> QED
      BY <2>1, <3>6, <3>7, <3>8 DEF RootLeaves, RootTouches
  <2>5. \A q \in Machine : Root!Turn(q)'
    BY <2>1, <2>4 DEF RootLeaves
  <2>6. ASSUME NEW q \in Machine, NEW r \in Machine, Root!Reaps(q)', Root!Reaps(r)' PROVE q = r
    <3>1. \A x \in {q, r} : x # p => Root!Reaps(x)
      BY <2>4, <2>6
    <3>2. Root!Reaps(p)' => Root!Reaps(p) \/ \A x \in Machine : ~Root!Reaps(x)
      BY <2>1 DEF RootLeaves
    <3> QED
      BY <2>3, <2>6, <3>1, <3>2
  <2> QED
    BY <2>1, <2>5, <2>6 DEF RootLeaves
<1>5. Root!OwnersAreKnown'
  BY <1>3 DEF Root!OwnersAreKnown, Root!ProcessExists, Machine
<1>6. Root!TurnsAreTaken'
  BY <1>4 DEF Root!TurnsAreTaken, Machine
<1> QED
  BY <1>1, <1>5, <1>6 DEF Root!IInv, Root!CallsAreCounted, Machine

\* What a step of one process needs to know of it.
RootFits(p) ==
  /\ s1 \in Root!LockDirs \cup {NoLock} /\ s3[p] \in 0 .. MaxCalls
  /\ s4[p] \in Root!Calls \cup {Root!Nobody} /\ s5[p] \in SUBSET {"owner", "reaping"}
  /\ s6 \in BOOLEAN
  /\ s2[p] # "idle" => Root!Me(p) \in Root!Calls
  /\ s2[p] \in {"claim", "reread"} => s4[p] \in Root!Calls /\ s2[s4[p][1]] = "dead"
  /\ s2[p] \in Root!Removing => s4[p] \in Root!Calls
  /\ ~s6 => (Root!Exists => s1.owner \in {Root!Nobody, s1.dir}) /\ Root!Turn(p)

\* The invariant says so.
LEMMA RootFitsAll == ASSUME Root!IInv, NEW p \in Machine PROVE RootFits(p)
BY DEF Root!IInv, Root!TypeOK, Root!CallsAreCounted, Root!TurnsAreTaken, Root!OwnersAreKnown,
       Root!ProcessExists, RootFits, Machine

\* A step that only goes on with p, and perhaps reads, lists or touches the lock.
LEMMA RootMoves ==
  ASSUME Root!IInv, NEW p \in Machine, s2[p] \notin {"idle", "dead"},
         NEW step \in Root!Steps, s2' = [s2 EXCEPT ![p] = step],
         s1' \in Root!LockDirs \cup {NoLock},
         s3' = s3,
         s4' = s4 \/ \E c \in Root!Calls \cup {Root!Nobody} : s4' = [s4 EXCEPT ![p] = c],
         s5' = s5 \/ \E l \in SUBSET {"owner", "reaping"} : s5' = [s5 EXCEPT ![p] = l],
         s6' \in BOOLEAN, s6 => s6',
         step \in {"claim", "reread"} => s4'[p] \in Root!Calls /\ s2[s4'[p][1]] = "dead",
         step \in Root!Removing => s4'[p] \in Root!Calls,
         ~s6' => RootLeaves(p)
  PROVE  Root!IInv'
<1>1. Root!TypeOK'
  <2> DEFINE Owners == Root!Calls \cup {Root!Nobody}
             Lists == SUBSET {"owner", "reaping"}
  <2>1. s2' \in [Machine -> Root!Steps]
    BY DEF Root!IInv, Root!TypeOK, Machine
  <2>2. s4 \in [Machine -> Owners] /\ s5 \in [Machine -> Lists]
    BY DEF Root!IInv, Root!TypeOK, Machine
  <2> HIDE DEF Owners, Lists
  <2>3. s4' \in [Machine -> Owners]
    <3>1. ASSUME NEW c \in Owners, s4' = [s4 EXCEPT ![p] = c] PROVE s4' \in [Machine -> Owners]
      BY <2>2, <3>1
    <3> QED
      BY <2>2, <3>1 DEF Owners
  <2>4. s5' \in [Machine -> Lists]
    <3>1. ASSUME NEW l \in Lists, s5' = [s5 EXCEPT ![p] = l] PROVE s5' \in [Machine -> Lists]
      BY <2>2, <3>1
    <3> QED
      BY <2>2, <3>1 DEF Lists
  <2> QED
    BY <2>1, <2>3, <2>4 DEF Root!IInv, Root!TypeOK, Machine, Owners, Lists
<1>2. s2'[p] = step
  BY DEF Root!IInv, Root!TypeOK, Machine
<1>3. Root!Me(p)' \in Root!Calls
  BY DEF Root!IInv, Root!CallsAreCounted, Root!Me, Machine
<1>4. \A q \in Machine : q # p =>
        s2'[q] = s2[q] /\ s3'[q] = s3[q] /\ s4'[q] = s4[q] /\ s5'[q] = s5[q]
  BY DEF Root!IInv, Root!TypeOK, Machine
<1>5. s2'[p] \in {"claim", "reread"} => s4'[p] \in Root!Calls /\ s2'[s4'[p][1]] = "dead"
  BY <1>2, <1>4 DEF Root!Calls, Machine
<1> QED
  BY <1>1, <1>2, <1>3, <1>4, <1>5, TurnsKeep

\* A step that leaves the lock and goes on to where nothing is asked of p.
LEMMA RootPasses ==
  ASSUME Root!IInv, NEW p \in Machine, s2[p] \notin {"idle", "dead"},
         NEW step \in {"idle", "wait", "mkdir", "read", "claim", "reread", "unclaim", "dead"},
         s2' = [s2 EXCEPT ![p] = step], s3' = s3, s5' = s5, s6' = s6,
         s4' = s4 \/ \E c \in Root!Calls \cup {Root!Nobody} : s4' = [s4 EXCEPT ![p] = c],
         step \in {"claim", "reread"} => s4'[p] \in Root!Calls /\ s2[s4'[p][1]] = "dead",
         s1' \in Root!LockDirs \cup {NoLock},
         ~s6 => (Root!Exists' => s1'.owner \in {Root!Nobody, s1'.dir}) /\ RootTouches(p)
  PROVE  Root!IInv'
<1>1. RootFits(p)
  BY RootFitsAll
<1>2. step \in Root!Steps /\ step \notin Root!Removing
  BY RootNames
<1>3. s2'[p] = step
  BY DEF Root!IInv, Root!TypeOK, Machine
<1>4. Root!Turn(p)' /\ ~Root!Reaps(p)'
  BY <1>3, RootNames DEF Root!Turn, Root!Reaps
<1> QED
  BY <1>1, <1>2, <1>4, RootMoves DEF RootFits, RootLeaves

\* Making the lock and writing its owner.
LEMMA RootMakesKeep ==
  ASSUME Root!IInv, NEW p \in Machine,
         Root!Begin(p) \/ Root!MakeLock(p) \/ Root!CreateOwner(p) \/ Root!WriteOwner(p)
           \/ Root!UndoLock(p) \/ Root!RemoveUndone(p)
  PROVE  Root!IInv'
<1>1. RootFits(p)
  BY RootFitsAll
<1>2. s2 \in [Machine -> Root!Steps] /\ s4 \in [Machine -> Root!Calls \cup {Root!Nobody}]
      /\ s5 \in [Machine -> SUBSET {"owner", "reaping"}] /\ s3 \in [Machine -> 0 .. MaxCalls]
  BY DEF Root!IInv, Root!TypeOK, Machine
<1> USE DEF Root!Goto, Root!Exists
<1>3. CASE Root!Begin(p)
  <2>1. s2' = [s2 EXCEPT ![p] = "mkdir"] /\ s3' = [s3 EXCEPT ![p] = s3[p] + 1] /\ s3[p] < MaxCalls
        /\ s1' = s1 /\ s4' = s4 /\ s5' = s5 /\ s6' = s6 /\ s2[p] = "idle"
    BY <1>3 DEF Root!Begin
  <2>2. s3[p] + 1 \in 1 .. MaxCalls
    BY <1>2, <2>1, RootAssumption
  <2>3. Root!TypeOK'
    BY <1>2, <2>1, <2>2, RootNames DEF Root!IInv, Root!TypeOK, Machine
  <2>4. Root!Me(p)' \in Root!Calls
    BY <1>2, <2>1, <2>2 DEF Root!Me, Root!Calls, Machine
  <2>5. s2'[p] = "mkdir" /\ Root!Turn(p)' /\ ~Root!Reaps(p)'
    BY <1>2, <2>1, RootNames DEF Root!Turn, Root!Reaps
  <2>6. ~s6' => RootLeaves(p)
    BY <1>1, <2>1, <2>5 DEF RootFits, RootLeaves, RootTouches
  <2>7. \A q \in Machine : q # p =>
          s2'[q] = s2[q] /\ s3'[q] = s3[q] /\ s4'[q] = s4[q] /\ s5'[q] = s5[q]
    BY <1>2, <2>1
  <2> QED
    BY <2>1, <2>3, <2>4, <2>5, <2>6, <2>7, RootNames, TurnsKeep
<1>4. CASE Root!MakeLock(p)
  <2>1. CASE Root!Exists
    <3>1. s2' = [s2 EXCEPT ![p] = "read"] /\ s1' = s1 /\ s3' = s3 /\ s4' = s4 /\ s5' = s5 /\ s6' = s6
          /\ s2[p] = "mkdir"
      BY <1>4, <2>1 DEF Root!MakeLock
    <3> QED
      BY <1>1, <3>1, RootPasses DEF RootFits, RootTouches
  <2>2. CASE ~Root!Exists
    <3>1. s1' = [dir |-> Root!Me(p), owner |-> Root!Nobody, written |-> FALSE, reaping |-> FALSE]
          /\ s2' = [s2 EXCEPT ![p] = "create"] /\ s3' = s3 /\ s4' = s4 /\ s5' = s5 /\ s6' = s6
          /\ s2[p] = "mkdir"
      BY <1>4, <2>2 DEF Root!MakeLock
    <3>2. s1' \in Root!LockDirs
      BY <1>1, <3>1 DEF RootFits, Root!LockDirs
    <3>3. Root!Turn(p)' /\ ~Root!Reaps(p)' /\ s1'.owner = Root!Nobody
      BY <1>2, <3>1, <3>2, RootNames DEF Root!Turn, Root!Reaps, Root!MadeByMe, Root!Me
    <3>4. RootLeaves(p)
      BY <2>2, <3>3 DEF RootLeaves, RootTouches
    <3> QED
      BY <1>1, <3>1, <3>2, <3>4, RootNames, RootMoves DEF RootFits
  <2> QED
    BY <2>1, <2>2
<1>5. CASE Root!CreateOwner(p)
  <2>1. CASE Root!Exists /\ s1.owner = Root!Nobody
    <3>1. s1' = [s1 EXCEPT !.owner = Root!Me(p), !.written = FALSE]
          /\ s2' = [s2 EXCEPT ![p] = "write"] /\ s3' = s3 /\ s4' = s4 /\ s5' = s5 /\ s6' = s6
          /\ s2[p] = "create"
      BY <1>5, <2>1 DEF Root!CreateOwner
    <3>2. s1' \in Root!LockDirs /\ s1'.dir = s1.dir /\ s1'.owner = Root!Me(p) /\ s1' # NoLock
      BY <1>1, <2>1, <3>1, RootNames DEF RootFits, Root!LockDirs
    <3>3. ~s6 => Root!MadeByMe(p)
      BY <1>1, <3>1 DEF RootFits, Root!Turn
    <3>4. ~s6 => Root!OwnedByMe(p)' /\ s1'.owner = s1'.dir
      BY <3>1, <3>2, <3>3 DEF Root!MadeByMe, Root!OwnedByMe, Root!Me
    <3>5. s2'[p] = "write" /\ ~Root!Reaps(p)'
      BY <1>2, <3>1, RootNames DEF Root!Reaps
    <3>6. ~s6 => RootLeaves(p)
      BY <3>3, <3>4, <3>5, RootNames DEF RootLeaves, RootTouches, Root!Turn
    <3> QED
      BY <1>1, <3>1, <3>2, <3>6, RootNames, RootMoves DEF RootFits
  <2>2. CASE ~(Root!Exists /\ s1.owner = Root!Nobody)
    <3>1. s2' = [s2 EXCEPT ![p] = "undo"] /\ s1' = s1 /\ s3' = s3 /\ s4' = s4 /\ s5' = s5 /\ s6' = s6
          /\ s2[p] = "create"
      BY <1>5, <2>2 DEF Root!CreateOwner
    <3>2. s6
      BY <1>1, <2>2, <3>1 DEF RootFits, Root!Turn, Root!MadeByMe
    <3> QED
      BY <1>1, <3>1, <3>2, RootNames, RootMoves DEF RootFits
  <2> QED
    BY <2>1, <2>2
<1>6. CASE Root!WriteOwner(p)
  <2>1. s2' = [s2 EXCEPT ![p] = "inside"] /\ s3' = s3 /\ s4' = s4 /\ s5' = s5 /\ s6' = s6
        /\ s2[p] = "write"
    BY <1>6 DEF Root!WriteOwner
  <2>2. CASE Root!Exists /\ s1.owner = Root!Me(p)
    <3>1. s1' = [s1 EXCEPT !.written = TRUE]
      BY <1>6, <2>2 DEF Root!WriteOwner
    <3>2. s1' \in Root!LockDirs /\ s1'.dir = s1.dir /\ s1'.owner = s1.owner /\ s1'.written /\ s1' # NoLock
      BY <1>1, <2>2, <3>1, RootNames DEF RootFits, Root!LockDirs
    <3>3. ~s6 => Root!OwnedByMe(p)
      BY <1>1, <2>1 DEF RootFits, Root!Turn
    <3>4. ~s6 => Root!MadeByMe(p) /\ Root!OwnedByMe(p)' /\ s1'.owner = s1'.dir
      BY <2>1, <3>2, <3>3 DEF Root!MadeByMe, Root!OwnedByMe, Root!Me
    <3>5. s2'[p] = "inside" /\ ~Root!Reaps(p)'
      BY <1>2, <2>1, RootNames DEF Root!Reaps
    <3>6. ~s6 => RootLeaves(p)
      BY <3>2, <3>4, <3>5, RootNames DEF RootLeaves, RootTouches, Root!Turn
    <3> QED
      BY <1>1, <2>1, <3>2, <3>6, RootNames, RootMoves DEF RootFits
  <2>3. CASE ~(Root!Exists /\ s1.owner = Root!Me(p))
    <3>1. s6
      BY <1>1, <2>1, <2>3 DEF RootFits, Root!Turn, Root!OwnedByMe, Root!MadeByMe
    <3>2. s1' = s1
      BY <1>6, <2>3 DEF Root!WriteOwner
    <3> QED
      BY <1>1, <2>1, <3>1, <3>2, RootNames, RootMoves DEF RootFits
  <2> QED
    BY <2>2, <2>3
\* Nobody undoes before two have reaped the same lock.
<1>7. CASE Root!UndoLock(p) \/ Root!RemoveUndone(p)
  <2>1. PICK step \in {"rmdir", "idle"} :
          s2' = [s2 EXCEPT ![p] = step] /\ s1' \in {s1, NoLock} /\ s3' = s3 /\ s4' = s4 /\ s5' = s5
          /\ s6' = s6 /\ s2[p] \in {"undo", "rmdir"}
    BY <1>7 DEF Root!UndoLock, Root!RemoveUndone
  <2>2. s6
    BY <1>1, <2>1 DEF RootFits, Root!Turn
  <2> QED
    BY <1>1, <2>1, <2>2, RootNames, RootMoves DEF RootFits
<1> QED
  BY <1>3, <1>4, <1>5, <1>6, <1>7

\* Reclaiming the lock of a dead owner, giving up, and dying.
LEMMA RootReclaimsKeep ==
  ASSUME Root!IInv, NEW p \in Machine,
         Root!ReadOwner(p) \/ Root!ClaimReaping(p) \/ Root!RereadOwner(p) \/ Root!Unclaim(p)
           \/ Root!Retry(p) \/ Root!GiveUp(p) \/ Root!Die(p)
  PROVE  Root!IInv'
<1>1. RootFits(p)
  BY RootFitsAll
<1>2. s2 \in [Machine -> Root!Steps] /\ s4 \in [Machine -> Root!Calls \cup {Root!Nobody}]
  BY DEF Root!IInv, Root!TypeOK, Machine
<1> USE DEF Root!Goto, Root!Exists
<1>3. Root!OwnerRead \in Root!Calls \cup {Root!Nobody}
  BY <1>1 DEF RootFits, Root!OwnerRead, Root!LockDirs
<1>4. CASE Root!ReadOwner(p)
  <2>1. PICK step \in {"idle", "wait", "claim"} :
          /\ s2' = [s2 EXCEPT ![p] = step] /\ s1' = s1 /\ s3' = s3 /\ s5' = s5 /\ s6' = s6
          /\ s4' = [s4 EXCEPT ![p] = Root!OwnerRead] /\ s2[p] = "read"
          /\ step = "claim" => Root!OwnerRead # Root!Nobody /\ ~Root!ProcessExists(Root!OwnerRead)
    BY <1>4 DEF Root!ReadOwner
  <2>2. s4'[p] = Root!OwnerRead
    BY <1>2, <2>1
  <2>3. step = "claim" => s4'[p] \in Root!Calls /\ s2[s4'[p][1]] = "dead"
    BY <1>3, <2>1, <2>2 DEF Root!ProcessExists
  <2>4. ~s6 => (Root!Exists' => s1'.owner \in {Root!Nobody, s1'.dir}) /\ RootTouches(p)
    BY <1>1, <2>1 DEF RootFits, RootTouches
  <2> QED
    BY <1>1, <1>3, <2>1, <2>3, <2>4, RootPasses DEF RootFits
<1>5. CASE Root!ClaimReaping(p) \/ Root!Unclaim(p)
  <2>1. PICK step \in {"reread", "wait", "idle"} :
          /\ s2' = [s2 EXCEPT ![p] = step] /\ s3' = s3 /\ s4' = s4 /\ s5' = s5 /\ s6' = s6
          /\ s2[p] \in {"claim", "unclaim"} /\ (step = "reread" => s2[p] = "claim")
          /\ s1' = s1 \/ (Root!Exists /\ \E b \in BOOLEAN : s1' = [s1 EXCEPT !.reaping = b])
    BY <1>5 DEF Root!ClaimReaping, Root!Unclaim
  <2>2. \/ s1' = s1
        \/ /\ Root!Exists /\ s1' \in Root!LockDirs /\ s1' # NoLock
           /\ s1'.dir = s1.dir /\ s1'.owner = s1.owner /\ s1'.written = s1.written
    BY <1>1, <2>1, RootNames DEF RootFits, Root!LockDirs
  <2>3. ~s6 => (Root!Exists' => s1'.owner \in {Root!Nobody, s1'.dir}) /\ RootTouches(p)
    BY <1>1, <2>2 DEF RootFits, RootTouches
  <2> QED
    BY <1>1, <2>1, <2>2, <2>3, RootPasses DEF RootFits
<1>6. CASE Root!RereadOwner(p)
  <2>1. s2[p] = "reread" /\ s1' = s1 /\ s3' = s3 /\ s4' = s4 /\ s5' = s5
        /\ s4[p] \in Root!Calls /\ s2[s4[p][1]] = "dead"
    BY <1>1, <1>6 DEF Root!RereadOwner, RootFits
  <2>2. CASE ~Root!Unreadable /\ Root!OwnerRead = s4[p] /\ ~Root!ProcessExists(s4[p])
    <3>1. s2' = [s2 EXCEPT ![p] = "list"] /\ s6' = (s6 \/ \E q \in Machine : Root!Reaps(q))
      BY <1>6, <2>2 DEF Root!RereadOwner, Machine
    <3>2. Root!Exists /\ s1.owner = s4[p]
      BY <2>1, <2>2, RootNames DEF Root!OwnerRead
    <3>3. s2'[p] = "list" /\ s2'[s4[p][1]] = "dead"
      BY <1>2, <2>1, <3>1 DEF Root!Calls, Machine
    <3>4. ASSUME ~s6' PROVE RootLeaves(p)
      <4>1. s1.owner \in {Root!Nobody, s1.dir} /\ \A q \in Machine : ~Root!Reaps(q)
        BY <1>1, <3>1, <3>2, <3>4 DEF RootFits
      <4>2. Root!MadeByTheDead(p)'
        BY <2>1, <3>2, <3>3, <4>1, RootNames DEF Root!MadeByTheDead, Root!ProcessExists
      <4>3. Root!Turn(p)'
        BY <2>1, <3>2, <3>3, <4>2, RootNames DEF Root!Turn
      <4> QED
        BY <2>1, <4>1, <4>3 DEF RootLeaves, RootTouches
    <3>5. s6' \in BOOLEAN /\ (s6 => s6')
      BY <3>1
    <3> QED
      BY <1>1, <2>1, <3>1, <3>4, <3>5, RootNames, RootMoves DEF RootFits
  <2>3. CASE ~(~Root!Unreadable /\ Root!OwnerRead = s4[p] /\ ~Root!ProcessExists(s4[p]))
    <3>1. PICK step \in {"idle", "unclaim"} : s2' = [s2 EXCEPT ![p] = step] /\ s6' = s6
      BY <1>6, <2>3 DEF Root!RereadOwner
    <3>2. ~s6 => (Root!Exists' => s1'.owner \in {Root!Nobody, s1'.dir}) /\ RootTouches(p)
      BY <1>1, <2>1 DEF RootFits, RootTouches
    <3> QED
      BY <1>1, <2>1, <3>1, <3>2, RootPasses DEF RootFits
  <2> QED
    BY <2>2, <2>3
<1>7. CASE Root!Retry(p) \/ Root!GiveUp(p) \/ Root!Die(p)
  <2>1. PICK step \in {"mkdir", "idle", "dead"} :
          /\ s2' = [s2 EXCEPT ![p] = step] /\ s1' = s1 /\ s3' = s3 /\ s4' = s4 /\ s5' = s5 /\ s6' = s6
          /\ s2[p] \notin {"idle", "dead"}
    BY <1>7 DEF Root!Retry, Root!GiveUp, Root!Die, Root!Outside
  <2>2. ~s6 => (Root!Exists' => s1'.owner \in {Root!Nobody, s1'.dir}) /\ RootTouches(p)
    BY <1>1, <2>1 DEF RootFits, RootTouches
  <2> QED
    BY <1>1, <2>1, <2>2, RootPasses DEF RootFits
<1> QED
  BY <1>4, <1>5, <1>6, <1>7

\* Leaving the work and removing the lock.
LEMMA RootLeavesKeep ==
  ASSUME Root!IInv, NEW p \in Machine,
         Root!LeaveWork(p) \/ Root!Release(p) \/ Root!ListEntries(p) \/ Root!RemoveLock(p)
           \/ \E e \in {"owner", "reaping"} : Root!UnlinkEntry(p, e)
  PROVE  Root!IInv'
<1>1. RootFits(p)
  BY RootFitsAll
<1>2. s2 \in [Machine -> Root!Steps] /\ s4 \in [Machine -> Root!Calls \cup {Root!Nobody}]
      /\ s5 \in [Machine -> SUBSET {"owner", "reaping"}]
  BY DEF Root!IInv, Root!TypeOK, Machine
<1> USE DEF Root!Goto, Root!Exists
<1>3. CASE Root!LeaveWork(p)
  <2>1. /\ s2' = [s2 EXCEPT ![p] = "leave"] /\ s1' = s1 /\ s3' = s3 /\ s4' = s4 /\ s5' = s5 /\ s6' = s6
        /\ s2[p] = "inside"
    BY <1>3 DEF Root!LeaveWork
  <2>2. s2'[p] = "leave" /\ ~Root!Reaps(p)'
    BY <1>2, <2>1, RootNames DEF Root!Reaps
  <2>3. ~s6 => Root!OwnedByMe(p)' /\ s1'.written
    BY <1>1, <2>1, RootNames DEF RootFits, Root!Turn, Root!OwnedByMe, Root!MadeByMe, Root!Me
  <2>4. ~s6 => RootLeaves(p)
    BY <1>1, <2>1, <2>2, <2>3, RootNames DEF RootFits, RootLeaves, RootTouches, Root!Turn
  <2> QED
    BY <1>1, <2>1, <2>4, RootNames, RootMoves DEF RootFits
<1>4. CASE Root!Release(p)
  <2>1. Root!OwnerRead \in Root!Calls \cup {Root!Nobody}
    BY <1>1 DEF RootFits, Root!OwnerRead, Root!LockDirs
  <2>2. PICK step \in {"list", "idle"} :
          /\ s2' = [s2 EXCEPT ![p] = step] /\ s1' = s1 /\ s3' = s3 /\ s5' = s5 /\ s6' = s6
          /\ s4' = [s4 EXCEPT ![p] = Root!OwnerRead] /\ s2[p] = "leave"
          /\ step = "list" => Root!OwnerRead = Root!Me(p)
    BY <1>4 DEF Root!Release
  <2>3. CASE step = "idle"
    <3>1. ~s6 => (Root!Exists' => s1'.owner \in {Root!Nobody, s1'.dir}) /\ RootTouches(p)
      BY <1>1, <2>2 DEF RootFits, RootTouches
    <3> QED
      BY <1>1, <2>1, <2>2, <2>3, <3>1, RootPasses DEF RootFits
  <2>4. CASE step = "list"
    <3>1. s2'[p] = "list" /\ s4'[p] = Root!Me(p) /\ Root!Me(p)' = Root!Me(p)
      BY <1>2, <2>2, <2>4 DEF Root!Me
    <3>2. Root!Me(p) \in Root!Calls
      BY <1>1, <2>2 DEF RootFits
    <3>3. ~Root!Reaps(p)'
      BY <3>1, RootNames DEF Root!Reaps, Root!ProcessExists, Root!Me
    <3>4. ~s6 => Root!OwnedByMe(p)' /\ s1'.owner = s4'[p]
      BY <1>1, <2>2, <3>1, RootNames DEF RootFits, Root!Turn, Root!OwnedByMe, Root!MadeByMe
    <3>5. ~s6 => Root!Turn(p)'
      BY <3>1, <3>4, RootNames DEF Root!Turn, Root!OwnedByMe
    <3>6. ~s6 => RootLeaves(p)
      BY <1>1, <2>2, <3>3, <3>5 DEF RootFits, RootLeaves, RootTouches
    <3> QED
      BY <1>1, <2>1, <2>2, <2>4, <3>1, <3>2, <3>6, RootNames, RootMoves DEF RootFits
  <2> QED
    BY <2>3, <2>4
<1>5. ASSUME s2[p] \in Root!Removing, ~s6
      PROVE  Root!MadeByMe(p) \/ (Root!Reaps(p) /\ Root!MadeByTheDead(p))
  BY <1>1, <1>5 DEF RootFits, Root!Turn, Root!Reaps, Root!MadeByTheDead
<1>6. CASE Root!ListEntries(p)
  <2>1. /\ s2' = [s2 EXCEPT ![p] = "unlink"] /\ s1' = s1 /\ s3' = s3 /\ s4' = s4 /\ s6' = s6
        /\ s5' = [s5 EXCEPT ![p] = Root!Entries] /\ s2[p] = "list"
    BY <1>6 DEF Root!ListEntries
  <2>2. Root!Entries \in SUBSET {"owner", "reaping"} /\ s4[p] \in Root!Calls
    BY <1>1, <2>1, RootNames DEF Root!Entries, RootFits
  <2>3. s2'[p] = "unlink" /\ s5'[p] = Root!Entries /\ s4'[p] = s4[p] /\ s2[p] # "dead"
        /\ (s2'[s4[p][1]] = "dead" <=> s2[s4[p][1]] = "dead")
    BY <1>2, <2>1, <2>2 DEF Root!Calls, Machine
  <2>4. Root!Reaps(p)' => Root!Reaps(p)
    BY <2>1, <2>3, RootNames DEF Root!Reaps, Root!ProcessExists
  <2>5. ASSUME ~s6 PROVE Root!Turn(p)'
    <3>1. Root!Exists /\ s1.owner = s4[p]
      BY <1>1, <1>5, <2>1, <2>5, RootNames DEF RootFits, Root!Turn, Root!MadeByMe, Root!MadeByTheDead
    <3>2. "owner" \in Root!Entries
      BY <2>2, <3>1, RootNames DEF Root!Entries
    <3>3. (Root!MadeByTheDead(p) \/ (Root!MadeByMe(p) /\ s4[p] = Root!Me(p)))'
      BY <1>1, <2>1, <2>3, <2>5, RootNames
         DEF RootFits, Root!Turn, Root!MadeByTheDead, Root!MadeByMe, Root!Me, Root!ProcessExists
    <3> QED
      BY <2>1, <2>3, <3>1, <3>2, <3>3, RootNames DEF Root!Turn
  <2>6. ~s6 => RootLeaves(p)
    BY <1>1, <2>1, <2>4, <2>5 DEF RootFits, RootLeaves, RootTouches
  <2> QED
    BY <1>1, <2>1, <2>2, <2>3, <2>6, RootNames, RootMoves DEF RootFits
<1>7. ASSUME NEW e \in {"owner", "reaping"}, Root!UnlinkEntry(p, e) PROVE Root!IInv'
  <2>1. /\ s2[p] = "unlink" /\ e \in s5[p] /\ s2' = s2 /\ s3' = s3 /\ s4' = s4 /\ s6' = s6
        /\ s5' = [s5 EXCEPT ![p] = s5[p] \ {e}]
        /\ s2' = [s2 EXCEPT ![p] = "unlink"]
    BY <1>2, <1>7 DEF Root!UnlinkEntry
  <2>2. s4[p] \in Root!Calls /\ s5'[p] = s5[p] \ {e} /\ s5[p] \ {e} \in SUBSET {"owner", "reaping"}
    BY <1>1, <1>2, <2>1, RootNames DEF RootFits
  <2>3. \/ s1' = s1 /\ e \notin Root!Entries
        \/ /\ Root!Exists /\ s1' \in Root!LockDirs /\ s1' # NoLock /\ s1'.dir = s1.dir
           /\ \/ e = "owner" /\ s1'.owner = Root!Nobody
              \/ e = "reaping" /\ s1'.owner = s1.owner
    <3>1. CASE e \notin Root!Entries
      BY <1>7, <3>1 DEF Root!UnlinkEntry
    <3>2. CASE e \in Root!Entries
      <4>1. Root!Exists /\ \/ e = "owner" /\ s1' = [s1 EXCEPT !.owner = Root!Nobody, !.written = FALSE]
                           \/ e = "reaping" /\ s1' = [s1 EXCEPT !.reaping = FALSE]
        BY <1>7, <3>2 DEF Root!UnlinkEntry, Root!Entries
      <4> QED
        BY <1>1, <4>1, RootNames DEF RootFits, Root!LockDirs
    <3> QED
      BY <3>1, <3>2
  <2>4. ASSUME ~s6 PROVE RootLeaves(p)
    <3>1. Root!Exists /\ s1.owner \in {Root!Nobody, s1.dir} /\ Root!Turn(p)
      BY <1>1, <1>5, <2>1, <2>4, RootNames DEF RootFits, Root!MadeByMe, Root!MadeByTheDead
    <3>2. Root!Exists' /\ s1'.dir = s1.dir /\ s1'.owner \in {Root!Nobody, s1.owner}
      BY <2>3, <3>1
    <3>3. (Root!MadeByTheDead(p) \/ (Root!MadeByMe(p) /\ s4[p] = Root!Me(p)))'
      BY <2>1, <3>1, <3>2, RootNames
         DEF Root!Turn, Root!MadeByTheDead, Root!MadeByMe, Root!Me, Root!ProcessExists
    <3>4. s1'.owner = Root!Nobody \/ (s1'.owner = s4[p] /\ "owner" \in s5'[p])
      <4>1. CASE e = "owner"
        <5>1. e \notin Root!Entries => s1.owner = Root!Nobody
          BY <3>1, <4>1 DEF Root!Entries
        <5> QED
          BY <2>3, <4>1, <5>1
      <4>2. CASE e = "reaping"
        BY <2>1, <2>2, <2>3, <3>1, <4>2, RootNames DEF Root!Turn
      <4> QED
        BY <4>1, <4>2
    <3>5. Root!Turn(p)'
      BY <2>1, <3>3, <3>4, RootNames DEF Root!Turn
    <3>6. Root!Reaps(p)' => Root!Reaps(p)
      BY <2>1 DEF Root!Reaps, Root!ProcessExists
    <3> QED
      BY <1>5, <2>1, <2>4, <3>1, <3>2, <3>5, <3>6, RootNames DEF RootLeaves, RootTouches
  <2>5. s1' \in Root!LockDirs \cup {NoLock}
    BY <1>1, <2>3 DEF RootFits
  <2> QED
    BY <1>1, <2>1, <2>2, <2>4, <2>5, RootNames, RootMoves DEF RootFits
<1>8. CASE Root!RemoveLock(p)
  <2>1. PICK step \in {"idle", "wait"} :
          /\ s2' = [s2 EXCEPT ![p] = step] /\ s3' = s3 /\ s4' = s4 /\ s5' = s5 /\ s6' = s6
          /\ s2[p] = "unlink" /\ s1' \in {s1, NoLock}
    BY <1>8 DEF Root!RemoveLock
  <2>2. ~s6 => (Root!Exists' => s1'.owner \in {Root!Nobody, s1'.dir}) /\ RootTouches(p)
    BY <1>1, <1>5, <2>1, RootNames DEF RootFits, RootTouches
  <2> QED
    BY <1>1, <2>1, <2>2, RootPasses DEF RootFits
<1> QED
  BY <1>3, <1>4, <1>6, <1>7, <1>8

\* Every step keeps the turns.
LEMMA RootKept ==
  ASSUME Root!IInv, Root!Next \/ UNCHANGED Root!vars
  PROVE  Root!IInv'
<1>1. CASE UNCHANGED Root!vars
  BY <1>1 DEF Root!vars, Root!IInv, Root!TypeOK, Root!CallsAreCounted, Root!TurnsAreTaken,
     Root!OwnersAreKnown, Root!Turn, Root!Reaps, Root!ProcessExists, Root!Me, Root!Exists,
     Root!MadeByMe, Root!OwnedByMe, Root!MadeByTheDead
<1>2. ASSUME NEW p \in Machine, Root!Begin(p) \/ Root!Step(p) \/ Root!GiveUp(p) \/ Root!Die(p)
      PROVE  Root!IInv'
  BY <1>2, RootMakesKeep, RootReclaimsKeep, RootLeavesKeep DEF Root!Step
<1>3. CASE Root!Next
  BY <1>2, <1>3 DEF Root!Next, Machine
<1> QED
  BY <1>1, <1>3

---------------------------------------------------------------------------
(* Improvement runs.  The two instances differ in their requests, in their *)
(* events and in the number of attempts: what follows is about both.       *)

\* A sequence, of whatever.
IsSeq(seq) == seq \in Seq({seq[i] : i \in DOMAIN seq})

\* Its positions.
LEMMA SeqFacts ==
  ASSUME NEW seq, IsSeq(seq)
  PROVE  Len(seq) \in Nat /\ DOMAIN seq = 1 .. Len(seq)
BY LenProperties DEF IsSeq

\* A sequence is one of any set that holds its elements.
LEMMA SeqOfOwn ==
  ASSUME NEW T, NEW seq \in Seq(T)
  PROVE  IsSeq(seq)
<1> DEFINE n == Len(seq)
           Own == {seq[i] : i \in DOMAIN seq}
<1>1. n \in Nat /\ DOMAIN seq = 1 .. n /\ seq \in [1 .. n -> T]
  BY LenProperties
<1>2. seq \in [1 .. n -> Own]
  BY <1>1
<1>3. Seq(Own) = UNION {[1 .. m -> Own] : m \in Nat}
  BY SeqDef
<1> QED
  BY <1>1, <1>2, <1>3 DEF IsSeq

\* One more element at the end.
LEMMA SeqGrows ==
  ASSUME NEW seq, IsSeq(seq), NEW e
  PROVE  /\ IsSeq(Append(seq, e)) /\ Len(Append(seq, e)) = Len(seq) + 1
         /\ DOMAIN Append(seq, e) = 1 .. (Len(seq) + 1)
         /\ Append(seq, e)[Len(seq) + 1] = e
         /\ \A i \in 1 .. Len(seq) : Append(seq, e)[i] = seq[i]
<1> DEFINE T == {seq[i] : i \in DOMAIN seq} \cup {e}
<1>1. seq \in Seq(T)
  BY SeqMonotonic DEF IsSeq
<1> HIDE DEF T
<1>2. e \in T
  BY DEF T
<1>3. Append(seq, e) \in Seq(T)
  BY <1>1, <1>2
<1>4. Len(Append(seq, e)) = Len(seq) + 1 /\ Append(seq, e)[Len(seq) + 1] = e
  BY <1>1, <1>2
<1>5. \A i \in 1 .. Len(seq) : Append(seq, e)[i] = seq[i]
  BY <1>1, <1>2
<1> QED
  BY <1>3, <1>4, <1>5, SeqOfOwn, SeqFacts

\* Another element in the place of one.
LEMMA SeqChanges ==
  ASSUME NEW seq, IsSeq(seq), NEW k \in DOMAIN seq, NEW e
  PROVE  LET t == [seq EXCEPT ![k] = e]
         IN  /\ IsSeq(t) /\ Len(t) = Len(seq) /\ DOMAIN t = DOMAIN seq /\ t[k] = e
             /\ \A i \in DOMAIN seq : i # k => t[i] = seq[i]
<1> DEFINE T == {seq[i] : i \in DOMAIN seq} \cup {e}
           t == [seq EXCEPT ![k] = e]
<1>1. seq \in Seq(T)
  BY SeqMonotonic DEF IsSeq
<1> HIDE DEF T
<1>2. e \in T /\ k \in 1 .. Len(seq)
  BY SeqFacts DEF T
<1>3. t \in Seq(T) /\ Len(t) = Len(seq)
  BY <1>1, <1>2, ExceptSeq
<1>4. IsSeq(t)
  BY <1>3, SeqOfOwn
<1> QED
  BY <1>3, <1>4

\* What it begins with stays when it grows.
LEMMA PrefixOfGrown ==
  ASSUME NEW seq, IsSeq(seq), NEW e
  PROVE  Improve!IsPrefix(seq, seq) /\ Improve!IsPrefix(seq, Append(seq, e))
<1> DEFINE T == {seq[i] : i \in DOMAIN seq}
           t == Append(seq, e)
<1>1. seq \in Seq(T) /\ Len(seq) \in Nat /\ \A i \in 1 .. Len(seq) : seq[i] \in T /\ t[i] = seq[i]
  BY SeqFacts, SeqGrows DEF IsSeq
<1>2. SubSeq(seq, 1, Len(seq)) = seq
  BY <1>1, SubSeqFull
<1> HIDE DEF T
<1>3. /\ SubSeq(t, 1, Len(seq)) \in Seq(T) /\ Len(SubSeq(t, 1, Len(seq))) = Len(seq)
      /\ \A i \in 1 .. Len(seq) : SubSeq(t, 1, Len(seq))[i] = t[i]
  <2>1. \A i \in 1 .. Len(seq) : t[i] \in T
    BY <1>1
  <2>2. 1 \in Int /\ Len(seq) \in Int
    BY <1>1
  <2> HIDE DEF t
  <2> QED
    BY <1>1, <2>1, <2>2, SubSeqProperties
<1>4. SubSeq(t, 1, Len(seq)) = seq
  BY <1>1, <1>3, SeqEqual
<1> QED
  BY <1>1, <1>2, <1>4, SeqGrows DEF Improve!IsPrefix

\* What a request has read, of a plan that permits so many attempts.
CallKnows(most, m) ==
  /\ Improve!ReadingsAreBehind(m)
  /\ m.at = "create" =>
       /\ m.attempt \in 1 .. (Len(s3) + 1) /\ m.attempt <= most
       /\ m.attempt = Len(s3) + 1 => \A r \in DOMAIN s3 : Improve!State(r) \in Improve!Stopped

\* The invariant of an instance with these requests and so many attempts.
RunsInv(C, most) ==
  /\ Improve!HistoriesAgree
  /\ DOMAIN s5 = C
  /\ \A c \in C : CallKnows(most, s5[c])
  /\ \A a \in s6 : a[1] \in DOMAIN s4
  /\ Improve!AnsweredIsRecorded
  /\ Len(s3) <= most
  /\ \A r \in DOMAIN s3 :
       /\ r < Len(s3) => Improve!State(r) \in Improve!Stopped
       /\ \A q \in DOMAIN s3 : s3[r].key = s3[q].key => r = q

\* What a step owes.
RunsGoal(C, most) == RunsInv(C, most)' /\ Improve!SettledRunsStayStep

\* Both instances have this invariant.
LEMMA RunsInvIs ==
  /\ Improve!IInv <=> RunsInv(Requests, 2)
  /\ Report!IInv <=> RunsInv({Third}, 1)
BY DEF Improve!IInv, Report!IInv, RunsInv, CallKnows,
   Improve!HistoriesAgree, Report!HistoriesAgree, Improve!ReadingsAreBehind,
   Report!ReadingsAreBehind, Improve!AttemptsAreKnown, Report!AttemptsAreKnown,
   Improve!AnsweredIsRecorded, Report!AnsweredIsRecorded, Improve!OneAttemptAtATime,
   Report!OneAttemptAtATime, Improve!State, Report!State, Improve!Stopped, Report!Stopped

\* A row has its fields.
IsRow(x) == x = [key |-> x.key, version |-> x.version, last |-> x.last, progress |-> x.progress]

\* The rows and journals, one by one.
LEMMA HistoryFacts ==
  ASSUME Improve!HistoriesAgree
  PROVE  /\ IsSeq(s3) /\ IsSeq(s4) /\ Len(s3) \in Nat /\ Len(s4) = Len(s3)
         /\ DOMAIN s3 = 1 .. Len(s3) /\ DOMAIN s4 = 1 .. Len(s3)
         /\ \A r \in DOMAIN s3 :
              /\ IsRow(s3[r])
              /\ s3[r].version \in Nat
              /\ IsSeq(s4[r]) /\ Len(s4[r]) \in Nat /\ DOMAIN s4[r] = 1 .. Len(s4[r])
              /\ s3[r].last = Len(s4[r])
<1>1. IsSeq(s3) /\ IsSeq(s4) /\ Len(s4) = Len(s3)
      /\ \A r \in DOMAIN s3 : IsSeq(s4[r])
  BY DEF Improve!HistoriesAgree, IsSeq
<1>2. \A r \in DOMAIN s3 :
        /\ IsRow(s3[r])
        /\ s3[r].version \in Nat /\ s3[r].last = Len(s4[r])
  BY DEF Improve!HistoriesAgree, IsRow
<1> QED
  BY <1>1, <1>2, SeqFacts

\* They agree after a step if they do one by one.
LEMMA HistoriesWillAgree ==
  ASSUME IsSeq(s3'), IsSeq(s4'), Len(s4') = Len(s3'),
         \A r \in DOMAIN s3' :
           /\ IsRow(s3'[r])
           /\ s3'[r].version \in Nat /\ s3'[r].last = Len(s4'[r])
           /\ IsSeq(s4'[r])
  PROVE  Improve!HistoriesAgree'
BY DEF Improve!HistoriesAgree, IsSeq, IsRow

\* A step that leaves rows and journals as they are.
LEMMA RunsStay ==
  ASSUME NEW C, NEW most, RunsInv(C, most), s3' = s3, s4' = s4,
         \/ s6' = s6
         \/ \E e : \E r \in DOMAIN s4 : \E n \in DOMAIN s4[r] :
              s4[r][n] = e /\ s6' = s6 \cup {<<r, n, e>>},
         \/ s5' = s5
         \/ \E m : \E c \in C : s5' = [s5 EXCEPT ![c] = m] /\ CallKnows(most, m)
  PROVE  RunsGoal(C, most)
<1>1. Improve!HistoriesAgree'
  BY HistoryFacts, HistoriesWillAgree DEF RunsInv
<1>2. ASSUME NEW m, CallKnows(most, m) PROVE CallKnows(most, m)'
  BY <1>2 DEF CallKnows, Improve!ReadingsAreBehind, Improve!State
<1>3. DOMAIN s5' = C /\ \A c \in C : CallKnows(most, s5'[c])
  BY DEF RunsInv
<1>4. (\A a \in s6 : a[1] \in DOMAIN s4)' /\ Improve!AnsweredIsRecorded'
  BY DEF RunsInv, Improve!AnsweredIsRecorded
<1>5. Improve!SettledRunsStayStep
  BY HistoryFacts, PrefixOfGrown DEF RunsInv, Improve!SettledRunsStayStep
<1>6. \A c \in C : CallKnows(most, s5[c])'
  BY <1>2, <1>3
<1> QED
  BY <1>1, <1>3, <1>4, <1>5, <1>6 DEF RunsGoal, RunsInv, Improve!State

\* A request at rest has read nothing.
LEMMA IdleKnows == ASSUME NEW most PROVE CallKnows(most, Improve!Idle) /\ CallKnows(most, Improve!Idle)'
BY DEF CallKnows, Improve!ReadingsAreBehind, Improve!Idle

\* The next attempt is made when all others have stopped.
LEMMA RunCreated ==
  ASSUME NEW C, NEW most \in Nat, RunsInv(C, most), NEW c \in C, s5[c].at = "create",
         Improve!AttemptIsFree(s5[c].attempt), \A r \in DOMAIN s3 : s3[r].key # s5[c].key,
         s3' = Append(s3, [key |-> s5[c].key, version |-> 1, last |-> 0, progress |-> Improve!Fresh]),
         s4' = Append(s4, <<>>), s5' = [s5 EXCEPT ![c] = Improve!Idle], s6' = s6
  PROVE  RunsGoal(C, most)
<1> DEFINE n == Len(s3)
           row == [key |-> s5[c].key, version |-> 1, last |-> 0, progress |-> Improve!Fresh]
<1>1. /\ IsSeq(s3) /\ IsSeq(s4) /\ n \in Nat /\ Len(s4) = n /\ DOMAIN s3 = 1 .. n /\ DOMAIN s4 = 1 .. n
      /\ \A r \in 1 .. n :
           /\ IsRow(s3[r])
           /\ s3[r].version \in Nat /\ s3[r].last = Len(s4[r]) /\ IsSeq(s4[r])
  BY HistoryFacts DEF RunsInv
<1>2. s5[c].attempt = n + 1 /\ n + 1 <= most
      /\ \A r \in 1 .. n : Improve!State(r) \in Improve!Stopped
  <2>1. s5[c].attempt \in 1 .. (n + 1) /\ s5[c].attempt \notin 1 .. n
    BY <1>1 DEF RunsInv, CallKnows, Improve!AttemptIsFree
  <2>2. s5[c].attempt = n + 1
    BY <1>1, <2>1
  <2> QED
    BY <1>1, <2>2 DEF RunsInv, CallKnows
<1>3. /\ IsSeq(s3') /\ Len(s3') = n + 1 /\ DOMAIN s3' = 1 .. (n + 1) /\ s3'[n + 1] = row
      /\ \A r \in 1 .. n : s3'[r] = s3[r]
  BY <1>1, SeqGrows
<1>4. /\ IsSeq(s4') /\ Len(s4') = n + 1 /\ DOMAIN s4' = 1 .. (n + 1) /\ s4'[n + 1] = <<>>
      /\ \A r \in 1 .. n : s4'[r] = s4[r]
  BY <1>1, SeqGrows
<1>5. IsSeq(<<>>) /\ Len(<<>>) = 0
  BY EmptySeq DEF IsSeq
<1>6. \A r \in 1 .. (n + 1) : r \in 1 .. n \/ r = n + 1
  BY <1>1
<1>7. row.key = s5[c].key /\ row.version = 1 /\ row.last = 0
      /\ IsRow(row)
  BY DEF IsRow
<1> HIDE DEF n, row
<1>8. Improve!HistoriesAgree'
  BY <1>1, <1>3, <1>4, <1>5, <1>6, <1>7, HistoriesWillAgree
<1>9. ASSUME NEW m, CallKnows(most, m) PROVE CallKnows(most, m)'
  <2>1. Improve!ReadingsAreBehind(m)'
    BY <1>1, <1>3, <1>9 DEF CallKnows, Improve!ReadingsAreBehind
  <2>2. m.at = "create" => m.attempt \in 1 .. (n + 1)
    BY <1>9 DEF CallKnows, n
  <2> QED
    BY <1>1, <1>3, <1>9, <2>1, <2>2 DEF CallKnows
<1>10. DOMAIN s5' = C /\ \A d \in C : CallKnows(most, s5[d])' 
  BY <1>9, IdleKnows DEF RunsInv
<1>11. (\A a \in s6 : a[1] \in DOMAIN s4)' /\ Improve!AnsweredIsRecorded'
  BY <1>1, <1>4 DEF RunsInv, Improve!AnsweredIsRecorded
<1>12. \A r \in DOMAIN s3' :
         /\ r < Len(s3') => s3'[r].progress.state \in Improve!Stopped
         /\ \A q \in DOMAIN s3' : s3'[r].key = s3'[q].key => r = q
  BY <1>1, <1>2, <1>3, <1>6, <1>7 DEF RunsInv, Improve!State
<1>13. Improve!SettledRunsStayStep
  BY <1>1, <1>3, <1>4, PrefixOfGrown DEF Improve!SettledRunsStayStep
<1> QED
  BY <1>1, <1>2, <1>3, <1>8, <1>10, <1>11, <1>12, <1>13 DEF RunsGoal, RunsInv, Improve!State, Improve!Stopped

\* A run under way moves under the version that was read.
LEMMA RunStored ==
  ASSUME NEW C, NEW most, RunsInv(C, most), NEW c \in C,
         NEW r \in DOMAIN s3, Improve!State(r) = "running", NEW e, NEW row,
         IsRow(row),
         row.key = s3[r].key, row.version = s3[r].version + 1, s3' = [s3 EXCEPT ![r] = row],
         s5' = [s5 EXCEPT ![c] = Improve!Idle],
         \/ row.last = s3[r].last /\ s4' = s4 /\ s6' = s6
         \/ /\ row.last = s3[r].last + 1
            /\ s4' = [s4 EXCEPT ![r] = Append(s4[r], e)] /\ s6' = s6 \cup {<<r, row.last, e>>}
  PROVE  RunsGoal(C, most)
<1>1. /\ IsSeq(s3) /\ IsSeq(s4) /\ Len(s3) \in Nat /\ Len(s4) = Len(s3)
      /\ DOMAIN s3 = 1 .. Len(s3) /\ DOMAIN s4 = DOMAIN s3
      /\ \A q \in DOMAIN s3 :
           /\ IsRow(s3[q])
           /\ s3[q].version \in Nat /\ s3[q].last = Len(s4[q]) /\ IsSeq(s4[q])
           /\ Len(s4[q]) \in Nat /\ DOMAIN s4[q] = 1 .. Len(s4[q])
  BY HistoryFacts DEF RunsInv
<1>2. /\ IsSeq(s3') /\ Len(s3') = Len(s3) /\ DOMAIN s3' = DOMAIN s3 /\ s3'[r] = row
      /\ \A q \in DOMAIN s3 : q # r => s3'[q] = s3[q]
  BY <1>1, SeqChanges
<1>3. /\ IsSeq(s4') /\ Len(s4') = Len(s3) /\ DOMAIN s4' = DOMAIN s3
      /\ \A q \in DOMAIN s3 : q # r => s4'[q] = s4[q]
      /\ IsSeq(s4'[r]) /\ Len(s4'[r]) = row.last /\ DOMAIN s4'[r] = 1 .. row.last
      /\ \A i \in 1 .. Len(s4[r]) : s4'[r][i] = s4[r][i]
      /\ Improve!IsPrefix(s4[r], s4'[r])
      /\ s6' # s6 => s4'[r][row.last] = e /\ s6' = s6 \cup {<<r, row.last, e>>} /\ row.last \in Nat \ {0}
  <2>1. CASE row.last = s3[r].last /\ s4' = s4 /\ s6' = s6
    BY <1>1, <2>1, PrefixOfGrown
  <2>2. CASE /\ row.last = s3[r].last + 1
             /\ s4' = [s4 EXCEPT ![r] = Append(s4[r], e)] /\ s6' = s6 \cup {<<r, row.last, e>>}
    <3>1. /\ IsSeq(s4') /\ Len(s4') = Len(s4) /\ DOMAIN s4' = DOMAIN s4 /\ s4'[r] = Append(s4[r], e)
          /\ \A q \in DOMAIN s4 : q # r => s4'[q] = s4[q]
      BY <1>1, <2>2, SeqChanges
    <3>2. /\ IsSeq(s4'[r]) /\ Len(s4'[r]) = row.last /\ DOMAIN s4'[r] = 1 .. row.last
          /\ s4'[r][row.last] = e /\ \A i \in 1 .. Len(s4[r]) : s4'[r][i] = s4[r][i]
          /\ row.last \in Nat \ {0}
      BY <1>1, <2>2, <3>1, SeqGrows
    <3> QED
      BY <1>1, <2>2, <3>1, <3>2, PrefixOfGrown
  <2> QED
    BY <2>1, <2>2
<1>4. Improve!HistoriesAgree'
  BY <1>1, <1>2, <1>3, HistoriesWillAgree
<1>5. ASSUME NEW m, CallKnows(most, m) PROVE CallKnows(most, m)'
  <2>1. Improve!ReadingsAreBehind(m)'
    BY <1>1, <1>2, <1>5 DEF CallKnows, Improve!ReadingsAreBehind
  <2>2. m.at = "create" => m.attempt # Len(s3) + 1
    BY <1>5 DEF CallKnows, Improve!Stopped
  <2> QED
    BY <1>2, <1>5, <2>1, <2>2 DEF CallKnows
<1>6. DOMAIN s5' = C /\ \A d \in C : CallKnows(most, s5[d])'
  BY <1>5, IdleKnows DEF RunsInv
<1>7. ASSUME NEW a \in s6' PROVE a[1] \in DOMAIN s4' /\ a[2] \in DOMAIN s4'[a[1]] /\ s4'[a[1]][a[2]] = a[3]
  <2>1. CASE a \in s6
    <3>1. a[1] \in DOMAIN s3 /\ a[2] \in 1 .. Len(s4[a[1]]) /\ s4[a[1]][a[2]] = a[3]
      BY <1>1, <2>1 DEF RunsInv, Improve!AnsweredIsRecorded
    <3>2. CASE a[1] = r
      <4>1. row.last \in Nat /\ Len(s4[r]) <= row.last
        BY <1>1
      <4> QED
        BY <1>1, <1>3, <3>1, <3>2, <4>1
    <3> QED
      BY <1>1, <1>3, <3>1, <3>2
  <2>2. CASE a \notin s6
    <3>1. a = <<r, row.last, e>> /\ s4'[r][row.last] = e /\ row.last \in 1 .. row.last
      BY <1>3, <2>2
    <3> QED
      BY <1>3, <3>1
  <2> QED
    BY <2>1, <2>2
<1>8. \A q \in DOMAIN s3' :
        /\ q < Len(s3') => s3'[q].progress.state \in Improve!Stopped
        /\ \A i \in DOMAIN s3' : s3'[q].key = s3'[i].key => q = i
  BY <1>1, <1>2 DEF RunsInv, Improve!State, Improve!Stopped
<1>9. Improve!SettledRunsStayStep
  BY <1>1, <1>2, <1>3, PrefixOfGrown DEF Improve!SettledRunsStayStep
<1> QED
  BY <1>2, <1>4, <1>6, <1>7, <1>8, <1>9
     DEF RunsGoal, RunsInv, Improve!State, Improve!Stopped, Improve!AnsweredIsRecorded

\* A request that has read the run of its event computes what it will store.
LEMMA WillStoreKeeps ==
  ASSUME NEW C, NEW most, RunsInv(C, most), NEW c \in C, s5[c].at = "check",
         NEW at \in {"append", "stop"}, NEW p, Improve!WillStore(c, at, p),
         s3' = s3, s4' = s4, s6' = s6
  PROVE  RunsGoal(C, most)
<1> DEFINE m == s5[c]
           n == [m EXCEPT !.at = at, !.progress = p]
<1>1. CallKnows(most, m)
  BY DEF RunsInv
<1>2. m = [at |-> "check", run |-> m.run, event |-> m.event, version |-> m.version, n |-> m.n,
           progress |-> m.progress]
  BY <1>1 DEF CallKnows, Improve!ReadingsAreBehind
<1>3. PICK a1, a2, a3, a4, a5 :
        m = [at |-> "check", run |-> a1, event |-> a2, version |-> a3, n |-> a4, progress |-> a5]
  BY <1>2
<1>4. n.at = at /\ n.run = m.run /\ n.version = m.version /\ n.n = m.n
  BY <1>3
<1>5. s5' = [s5 EXCEPT ![c] = n]
  BY DEF Improve!WillStore
<1> HIDE DEF m, n
<1>6. m.at = "check"
  BY DEF m
<1>7. CallKnows(most, n)
  BY <1>1, <1>4, <1>6 DEF CallKnows, Improve!ReadingsAreBehind
<1> QED
  BY <1>5, <1>7, RunsStay

\* What one request does, but for the beginning of an attempt.
LEMMA RunActionsKeep ==
  ASSUME NEW C, NEW most \in Nat, RunsInv(C, most), NEW c \in C,
         \/ Improve!CreateRun(c) \/ Improve!CheckEvent(c) \/ Improve!AppendRunEvent(c)
         \/ Improve!Terminate(c)
         \/ \E r \in DOMAIN s3 : Improve!BeginStop(c, r)
         \/ \E r \in DOMAIN s3 : \E e : Improve!ReadRun(c, r, e)
  PROVE  RunsGoal(C, most)
<1> DEFINE m == s5[c]
<1>1. CallKnows(most, m) /\ Improve!HistoriesAgree
  BY DEF RunsInv
<1>2. ASSUME Improve!Done(c), s3' = s3, s4' = s4,
             \/ s6' = s6
             \/ \E e : \E r \in DOMAIN s4 : \E n \in DOMAIN s4[r] :
                  s4[r][n] = e /\ s6' = s6 \cup {<<r, n, e>>}
      PROVE  RunsGoal(C, most)
  BY <1>2, IdleKnows, RunsStay DEF Improve!Done
<1>3. CASE Improve!CreateRun(c)
  <2>1. CASE Improve!AttemptIsFree(m.attempt) /\ \A r \in DOMAIN s3 : s3[r].key # m.key
    BY <1>3, <2>1, RunCreated DEF Improve!CreateRun, Improve!Done
  <2>2. CASE ~(Improve!AttemptIsFree(m.attempt) /\ \A r \in DOMAIN s3 : s3[r].key # m.key)
    BY <1>2, <1>3, <2>2 DEF Improve!CreateRun
  <2> QED
    BY <2>1, <2>2
<1>4. CASE Improve!CheckEvent(c)
  <2>1. m.at = "check" /\ s3' = s3 /\ s4' = s4 /\ s6' = s6
    BY <1>4 DEF Improve!CheckEvent
  <2>2. \/ Improve!Done(c)
        \/ \E p : Improve!WillStore(c, "append", p) \/ Improve!WillStore(c, "stop", p)
    BY <1>4 DEF Improve!CheckEvent
  <2> QED
    BY <1>2, <2>1, <2>2, WillStoreKeeps
<1>5. CASE Improve!AppendRunEvent(c)
  <2> DEFINE r == m.run
             n == m.n
             e == m.event
             row == [key |-> s3[r].key, version |-> s3[r].version + 1, last |-> n,
                     progress |-> m.progress]
  <2>1. m.at = "append" /\ r \in DOMAIN s3 /\ r \in DOMAIN s4
        /\ (m.version = s3[r].version => n = s3[r].last + 1)
    BY <1>1, <1>5, HistoryFacts DEF Improve!AppendRunEvent, CallKnows, Improve!ReadingsAreBehind
  <2>2. CASE Improve!IsCurrent(r, m.version) /\ n \notin DOMAIN s4[r]
    <3>1. /\ s3' = [s3 EXCEPT ![r] = row] /\ s4' = [s4 EXCEPT ![r] = Append(s4[r], e)]
          /\ s6' = s6 \cup {<<r, n, e>>} /\ s5' = [s5 EXCEPT ![c] = Improve!Idle]
      BY <1>5, <2>2 DEF Improve!AppendRunEvent, Improve!Stored, Improve!Done
    <3>2. IsRow(row) /\ row.key = s3[r].key /\ row.version = s3[r].version + 1 /\ row.last = n
      BY DEF IsRow
    <3>3. Improve!State(r) = "running" /\ n = s3[r].last + 1
      BY <2>1, <2>2 DEF Improve!IsCurrent
    <3> HIDE DEF r, n, e, row, m
    <3> QED
      BY <2>1, <3>1, <3>2, <3>3, RunStored
  <2>3. CASE ~(Improve!IsCurrent(r, m.version) /\ n \notin DOMAIN s4[r])
    <3>1. s3' = s3 /\ s4' = s4 /\ Improve!Done(c)
          /\ s6' = IF n <= s3[r].last /\ Improve!IsRecorded(r, n, e) THEN s6 \cup {<<r, n, e>>} ELSE s6
      BY <1>5, <2>3 DEF Improve!AppendRunEvent
    <3> QED
      BY <1>2, <2>1, <3>1 DEF Improve!IsRecorded
  <2> QED
    BY <2>2, <2>3
<1>6. CASE Improve!Terminate(c)
  <2> DEFINE r == m.run
             row == [key |-> s3[r].key, version |-> s3[r].version + 1, last |-> s3[r].last,
                     progress |-> m.progress]
  <2>1. m.at = "stop" /\ r \in DOMAIN s3 /\ s4' = s4 /\ s6' = s6 /\ Improve!Done(c)
    BY <1>1, <1>6 DEF Improve!Terminate, CallKnows, Improve!ReadingsAreBehind
  <2>2. CASE Improve!IsCurrent(r, m.version)
    <3>1. s3' = [s3 EXCEPT ![r] = row] /\ s5' = [s5 EXCEPT ![c] = Improve!Idle]
      BY <1>6, <2>2 DEF Improve!Terminate, Improve!Stored, Improve!Done
    <3>2. IsRow(row) /\ row.key = s3[r].key /\ row.version = s3[r].version + 1
          /\ row.last = s3[r].last
      BY DEF IsRow
    <3>3. Improve!State(r) = "running"
      BY <2>2 DEF Improve!IsCurrent
    <3> HIDE DEF r, row, m
    <3> QED
      BY <2>1, <3>1, <3>2, <3>3, RunStored
  <2>3. CASE ~Improve!IsCurrent(r, m.version)
    BY <1>2, <1>6, <2>1, <2>3 DEF Improve!Terminate
  <2> QED
    BY <2>2, <2>3
<1>7. ASSUME NEW r \in DOMAIN s3, Improve!BeginStop(c, r) PROVE RunsGoal(C, most)
  <2>1. PICK p : /\ s5' = [s5 EXCEPT ![c] = [at |-> "stop", run |-> r, version |-> s3[r].version,
                                              progress |-> p]]
                 /\ s3' = s3 /\ s4' = s4 /\ s6' = s6
    BY <1>7 DEF Improve!BeginStop
  <2>2. CallKnows(most, [at |-> "stop", run |-> r, version |-> s3[r].version, progress |-> p])
    BY <1>1, HistoryFacts DEF CallKnows, Improve!ReadingsAreBehind
  <2> QED
    BY <2>1, <2>2, RunsStay
<1>8. ASSUME NEW r \in DOMAIN s3, NEW e, Improve!ReadRun(c, r, e) PROVE RunsGoal(C, most)
  <2> DEFINE n == [at |-> "check", run |-> r, event |-> e, version |-> s3[r].version,
                   n |-> s3[r].last + 1, progress |-> s3[r].progress]
  <2>1. s5' = [s5 EXCEPT ![c] = n] /\ s3' = s3 /\ s4' = s4 /\ s6' = s6
    BY <1>8 DEF Improve!ReadRun
  <2>2. CallKnows(most, n)
    BY <1>1, HistoryFacts DEF CallKnows, Improve!ReadingsAreBehind
  <2> HIDE DEF n
  <2> QED
    BY <2>1, <2>2, RunsStay
<1> QED
  BY <1>3, <1>4, <1>5, <1>6, <1>7, <1>8

\* A step of an instance with these requests and so many attempts.
RunsStep(C, most) ==
  \/ \E c \in C :
       \/ /\ \A r \in DOMAIN s3 : Improve!State(r) \in Improve!Stopped
          /\ Len(s3) < most
          /\ \E k : s5' = [s5 EXCEPT ![c] = [at |-> "create", key |-> k, attempt |-> Len(s3) + 1]]
          /\ s3' = s3 /\ s4' = s4 /\ s6' = s6
       \/ Improve!CreateRun(c) \/ Improve!CheckEvent(c) \/ Improve!AppendRunEvent(c)
       \/ Improve!Terminate(c)
       \/ \E r \in DOMAIN s3 : Improve!BeginStop(c, r)
       \/ \E r \in DOMAIN s3 : \E e : Improve!ReadRun(c, r, e)
  \/ \E e : \E r \in DOMAIN s3 : \E n \in DOMAIN s4[r] : Improve!ReplayEvent(r, n, e)
  \/ s3' = s3 /\ s4' = s4 /\ s5' = s5 /\ s6' = s6

\* It keeps the invariant.
LEMMA RunsStepKeeps ==
  ASSUME NEW C, NEW most \in Nat, RunsInv(C, most), RunsStep(C, most)
  PROVE  RunsGoal(C, most)
<1>1. Len(s3) \in Nat /\ DOMAIN s4 = DOMAIN s3
  BY HistoryFacts DEF RunsInv
<1>2. ASSUME NEW c \in C, NEW k, \A r \in DOMAIN s3 : Improve!State(r) \in Improve!Stopped,
             Len(s3) < most,
             s5' = [s5 EXCEPT ![c] = [at |-> "create", key |-> k, attempt |-> Len(s3) + 1]],
             s3' = s3, s4' = s4, s6' = s6
      PROVE  RunsGoal(C, most)
  <2>1. CallKnows(most, [at |-> "create", key |-> k, attempt |-> Len(s3) + 1])
    BY <1>1, <1>2 DEF CallKnows, Improve!ReadingsAreBehind
  <2> QED
    BY <1>2, <2>1, RunsStay
<1>3. ASSUME NEW e, NEW r \in DOMAIN s3, NEW n \in DOMAIN s4[r], Improve!ReplayEvent(r, n, e)
      PROVE  RunsGoal(C, most)
  <2>1. s4[r][n] = e /\ s6' = s6 \cup {<<r, n, e>>} /\ s3' = s3 /\ s4' = s4 /\ s5' = s5
    BY <1>3 DEF Improve!ReplayEvent, Improve!IsRecorded
  <2> QED
    BY <1>1, <2>1, RunsStay
<1>4. CASE s3' = s3 /\ s4' = s4 /\ s5' = s5 /\ s6' = s6
  BY <1>4, RunsStay
<1> QED
  BY <1>2, <1>3, <1>4, RunActionsKeep DEF RunsStep

\* The steps of the two instances are such steps.
LEMMA ImproveSteps ==
  ASSUME part = "improvements", [Next]_vars
  PROVE  RunsStep(Requests, 2)
<1>1. CASE Improve!Next
  <2>1. CASE \/ Improve!PlanExpires \/ Improve!StandingChanges
             \/ \E r \in DOMAIN s3 : \E n \in DOMAIN s4[r], e \in FewEvents : Improve!ReplayEvent(r, n, e)
    BY <2>1 DEF Improve!PlanExpires, Improve!StandingChanges, RunsStep
  <2>2. ASSUME NEW c \in Requests, NEW k \in Releases, Improve!BeginRun(c, k)
        PROVE  RunsStep(Requests, 2)
    BY <2>2 DEF Improve!BeginRun, RunsStep
  <2>3. ASSUME NEW c \in Requests,
               \/ Improve!CreateRun(c) \/ Improve!CheckEvent(c) \/ Improve!AppendRunEvent(c)
               \/ Improve!Terminate(c)
               \/ \E r \in DOMAIN s3 :
                    Improve!BeginStop(c, r) \/ \E e \in FewEvents : Improve!ReadRun(c, r, e)
        PROVE  RunsStep(Requests, 2)
    BY <2>3 DEF RunsStep
  <2> QED
    BY <1>1, <2>1, <2>2, <2>3 DEF Improve!Next
<1>2. Improve!Next \/ UNCHANGED Improve!vars
  BY DEF Next, vars, Improve!vars, Submission, Authoring, Importing, Adopting, Checking, Improving,
     Reporting, RootLocking, Installing
<1> QED
  BY <1>1, <1>2 DEF Improve!vars, RunsStep

\* The actions of the second instance are those of the first.
LEMMA ReportActions ==
  ASSUME NEW c
  PROVE  /\ Report!CreateRun(c) => Improve!CreateRun(c)
         /\ Report!CheckEvent(c) => Improve!CheckEvent(c)
         /\ Report!AppendRunEvent(c) => Improve!AppendRunEvent(c)
         /\ Report!Terminate(c) => Improve!Terminate(c)
         /\ \A r \in DOMAIN s3 : Report!BeginStop(c, r) => Improve!BeginStop(c, r)
         /\ \A e : \A r \in DOMAIN s3 : Report!ReadRun(c, r, e) => Improve!ReadRun(c, r, e)
         /\ \A e : \A r \in DOMAIN s3 : \A n \in DOMAIN s4[r] :
              Report!ReplayEvent(r, n, e) => Improve!ReplayEvent(r, n, e)
<1> USE DEF Report!Done, Improve!Done, Report!Idle, Improve!Idle, Report!State, Improve!State,
        Report!plan, Improve!plan, Report!Stored, Improve!Stored, Report!IsCurrent, Improve!IsCurrent,
        Report!IsRecorded, Improve!IsRecorded, Report!Ended, Improve!Ended,
        Report!WillStore, Improve!WillStore
<1>1. Report!CreateRun(c) => Improve!CreateRun(c)
  BY DEF Report!CreateRun, Improve!CreateRun, Report!AttemptIsFree, Improve!AttemptIsFree,
     Report!Fresh, Improve!Fresh
<1>2. Report!CheckEvent(c) => Improve!CheckEvent(c)
  <2>1. \A p, e : Report!Allowed(p, e) <=> Improve!Allowed(p, e)
    BY DEF Report!Allowed, Improve!Allowed, Report!StartAllowed, Improve!StartAllowed,
       Report!FreezeAllowed, Improve!FreezeAllowed, Report!EvaluationAllowed,
       Improve!EvaluationAllowed, Report!CompletionAllowed, Improve!CompletionAllowed,
       Report!LastDone, Improve!LastDone, Report!Rank, Improve!Rank
  <2>2. \A p, e : Report!Applied(p, e) = Improve!Applied(p, e)
    BY Zenon DEF Report!Applied, Improve!Applied
  <2> QED
    BY <2>1, <2>2 DEF Report!CheckEvent, Improve!CheckEvent
<1>3. Report!AppendRunEvent(c) => Improve!AppendRunEvent(c)
  BY DEF Report!AppendRunEvent, Improve!AppendRunEvent
<1>4. Report!Terminate(c) => Improve!Terminate(c)
  BY DEF Report!Terminate, Improve!Terminate
<1>5. \A r \in DOMAIN s3 : Report!BeginStop(c, r) => Improve!BeginStop(c, r)
  BY DEF Report!BeginStop, Improve!BeginStop
<1>6. \A e : \A r \in DOMAIN s3 : Report!ReadRun(c, r, e) => Improve!ReadRun(c, r, e)
  BY DEF Report!ReadRun, Improve!ReadRun
<1>7. \A e : \A r \in DOMAIN s3 : \A n \in DOMAIN s4[r] :
        Report!ReplayEvent(r, n, e) => Improve!ReplayEvent(r, n, e)
  BY DEF Report!ReplayEvent, Improve!ReplayEvent
<1> QED
  BY <1>1, <1>2, <1>3, <1>4, <1>5, <1>6, <1>7

\* So are its steps.
LEMMA ReportSteps ==
  ASSUME part = "reports", [Next]_vars
  PROVE  RunsStep({Third}, 1)
<1>1. CASE Report!Next
  <2>1. CASE \/ Report!PlanExpires \/ Report!StandingChanges
             \/ \E r \in DOMAIN s3 : \E n \in DOMAIN s4[r], e \in AllEvents : Report!ReplayEvent(r, n, e)
    BY <2>1, ReportActions DEF Report!PlanExpires, Report!StandingChanges, RunsStep
  <2>2. ASSUME NEW c \in {Third}, NEW k \in Releases, Report!BeginRun(c, k)
        PROVE  RunsStep({Third}, 1)
    BY <2>2 DEF Report!BeginRun, RunsStep, Report!State, Improve!State, Report!Stopped, Improve!Stopped
  <2>3. ASSUME NEW c \in {Third},
               \/ Report!CreateRun(c) \/ Report!CheckEvent(c) \/ Report!AppendRunEvent(c)
               \/ Report!Terminate(c)
               \/ \E r \in DOMAIN s3 :
                    Report!BeginStop(c, r) \/ \E e \in AllEvents : Report!ReadRun(c, r, e)
        PROVE  RunsStep({Third}, 1)
    BY <2>3, ReportActions DEF RunsStep
  <2> QED
    BY <1>1, <2>1, <2>2, <2>3 DEF Report!Next
<1>2. Report!Next \/ UNCHANGED Report!vars
  BY DEF Next, vars, Report!vars, Submission, Authoring, Importing, Adopting, Checking, Improving,
     Reporting, RootLocking, Installing
<1> QED
  BY <1>1, <1>2 DEF Report!vars, RunsStep

\* There is no run at the start.
LEMMA RunsInit ==
  /\ Improve!Init => RunsInv(Requests, 2)
  /\ Report!Init => RunsInv({Third}, 1)
<1>1. ASSUME NEW C, NEW most \in Nat, s3 = <<>>, s4 = <<>>, s5 = [c \in C |-> Improve!Idle], s6 = {}
      PROVE  RunsInv(C, most)
  <2>1. IsSeq(s3) /\ IsSeq(s4) /\ Len(s3) = 0 /\ Len(s4) = 0
    BY <1>1, EmptySeq DEF IsSeq
  <2>2. DOMAIN s3 = {}
    BY <2>1, SeqFacts
  <2>3. Improve!HistoriesAgree
    BY <2>1, <2>2 DEF Improve!HistoriesAgree, IsSeq
  <2> QED
    BY <1>1, <2>1, <2>2, <2>3, IdleKnows DEF RunsInv, Improve!AnsweredIsRecorded
<1> QED
  BY <1>1 DEF Improve!Init, Report!Init, Improve!Idle, Report!Idle

---------------------------------------------------------------------------
(* The theorems.  What the protocols that move keep, the others keep too,  *)
(* since they rest.                                                        *)

\* The invariants of these protocols, for the time each moves.
RegistryInv ==
  /\ part = "submissions" => Sub!IInv
  /\ part = "drafts" => Draft!IInv
  /\ part = "improvements" => RunsInv(Requests, 2)
  /\ part = "reports" => RunsInv({Third}, 1)
  /\ part = "root" => Root!IInv

\* They hold from the start on, and so do what their steps owe.
LEMMA RegistryStep ==
  ASSUME RegistryInv, [Next]_vars
  PROVE  /\ RegistryInv'
         /\ part = "submissions" => SubGoal
         /\ part = "drafts" => DraftGoal
         /\ part = "improvements" => RunsGoal(Requests, 2)
         /\ part = "reports" => RunsGoal({Third}, 1)
<1>1. part' = part
  BY DEF Next, vars, Submission, Authoring, Importing, Adopting, Checking, Improving, Reporting,
     RootLocking, Installing
<1>2. CASE part = "submissions"
  BY <1>1, <1>2, SubSteps, SubKept DEF RegistryInv, SubGoal
<1>3. CASE part = "drafts"
  BY <1>1, <1>3, DraftSteps, DraftKept DEF RegistryInv, DraftGoal
<1>4. CASE part = "improvements"
  BY <1>1, <1>4, ImproveSteps, RunsStepKeeps DEF RegistryInv, RunsGoal
<1>5. CASE part = "reports"
  BY <1>1, <1>5, ReportSteps, RunsStepKeeps DEF RegistryInv, RunsGoal
<1>6. CASE part = "root"
  BY <1>1, <1>6, RootSteps, RootKept DEF RegistryInv
<1> QED
  BY <1>1, <1>2, <1>3, <1>4, <1>5, <1>6 DEF RegistryInv

\* The invariants are invariants.
LEMMA RegistryInvHolds == Spec => []RegistryInv
<1>1. Init => RegistryInv
  BY SubInit, DraftInit, RunsInit, RootInit DEF Init, RegistryInv
<1>2. RegistryInv /\ [Next]_vars => RegistryInv'
  BY RegistryStep
<1> QED
  BY <1>1, <1>2, PTL DEF Spec

\* However reviewers, curators and requests overlap: a skill is approved only once one of
\* its versions was published, and shared beyond its owner only when every version somebody
\* published on his own review was elevated by others.
THEOREM SharedSkillsWereReviewed == Spec => []SharedIsReviewed
<1>1. RegistryInv => SharedIsReviewed
  <2> SUFFICES ASSUME Sub!IInv PROVE Sub!ApprovedSkillWasPublished /\ Sub!SharedIsReviewed
    BY DEF RegistryInv, SharedIsReviewed
  <2> QED
    BY DEF Sub!IInv, Sub!NoneWaitsInAShared, Sub!SharedIsReviewed, Sub!Offered
<1> QED
  BY <1>1, RegistryInvHolds, PTL

\* However many requests edit and submit a draft, and whichever of them are repeated after an
\* answer was lost: a receipt names the submission of its own revision's content, and the
\* repeated request is answered with the submission of the first.
THEOREM DraftsStaySubmittedOnce == Spec => []DraftsAreSubmittedOnce
<1>1. RegistryInv => DraftsAreSubmittedOnce
  BY DEF RegistryInv, DraftsAreSubmittedOnce, Draft!IInv
<1> QED
  BY <1>1, RegistryInvHolds, PTL

\* However many processes contend for a root, whichever of them die and wherever, and however
\* slowly they read, reap and remove by path: one works on the root at a time and owns the lock,
\* until two have reaped the lock of one dead owner at the same time.
THEOREM RootKeepsOneOwner == Spec => []RootHasOneOwner
<1>1. RegistryInv => RootHasOneOwner
  <2> SUFFICES ASSUME Root!IInv, ~s6
               PROVE  Root!MutualExclusion /\ Root!HolderOwnsLock
    BY DEF RegistryInv, RootHasOneOwner, Root!MutualExclusionOfTheLiving, Root!HolderOwnsLock
  <2>1. \A p \in Machine : s2[p] = "inside" => Root!Exists /\ s1.owner = Root!Me(p) /\ s1.written
    BY RootNames DEF Root!IInv, Root!TurnsAreTaken, Root!Turn, Root!OwnedByMe, Root!MadeByMe, Machine
  <2> QED
    BY <2>1 DEF Root!MutualExclusion, Root!HolderOwnsLock, Root!Inside, Root!Me, Machine
<1> QED
  BY <1>1, RegistryInvHolds, PTL

\* However the requests overlap: a publication takes the bytes and the verdicts its reviewer
\* saw, what was published stays and what was deleted stays so, a draft's history only grows,
\* and the journal of an improvement run grows until the run is over and stays from then on.
THEOREM ReviewedStays == Spec => WhatWasReviewedStays
<1>1. ASSUME RegistryInv, [Next]_vars
      PROVE  /\ part = "submissions" =>
                  /\ Sub!PublishesWhatWasReviewedStep
                  /\ Sub!PublicationIsFinalStep
                  /\ Sub!DeletedStaysDeletedStep
             /\ part = "drafts" => Draft!HistoryIsKeptStep
             /\ part = "improvements" => Improve!SettledRunsStayStep
             /\ part = "reports" => Report!SettledRunsStayStep
  <2>1. Improve!SettledRunsStayStep => Report!SettledRunsStayStep
    BY DEF Improve!SettledRunsStayStep, Report!SettledRunsStayStep, Improve!State, Report!State,
       Improve!IsPrefix, Report!IsPrefix
  <2> QED
    BY <1>1, <2>1, RegistryStep DEF SubGoal, DraftGoal, RunsGoal
<1> QED
  BY <1>1, RegistryInvHolds, PTL DEF Spec, WhatWasReviewedStays

\* Whatever requests overlap, are repeated or come late: the attempts of an improvement plan
\* follow each other, each under a key of its own and none after one that was completed, no
\* more of them than the plan permits; and an event that was answered for is in the journal,
\* at its number.
THEOREM AttemptsFollowEachOther ==
  Spec => [](/\ part = "improvements" => Improve!OneAttemptAtATime /\ Improve!AnsweredIsRecorded
             /\ part = "reports" => Report!OneAttemptAtATime /\ Report!AnsweredIsRecorded)
<1>1. RegistryInv =>
        /\ part = "improvements" => Improve!OneAttemptAtATime /\ Improve!AnsweredIsRecorded
        /\ part = "reports" => Report!OneAttemptAtATime /\ Report!AnsweredIsRecorded
  BY RunsInvIs DEF RegistryInv, Improve!IInv, Report!IInv
<1> QED
  BY <1>1, RegistryInvHolds, PTL

---------------------------------------------------------------------------
(* Installation transactions.                                              *)

\* While commands install and recover, a step is one of theirs or changes nothing.
LEMMA InstallSteps ==
  ASSUME part = "install", [Next]_vars
  PROVE  Install!Next \/ UNCHANGED Install!vars
BY DEF Next, vars, Install!vars, Submission, Authoring, Importing, Adopting, Checking, Improving,
       Reporting, RootLocking, Installing

\* Nothing is installed at the start.
LEMMA InstallInit == Install!Init => Install!IInv
<1> SUFFICES ASSUME Install!Init PROVE Install!IInv
  OBVIOUS
<1>1. /\ s1 = NoTree /\ s2 = NoTree /\ s3 = [t \in Install!TxIds |-> NoTree]
      /\ s4 = NoLock /\ s5 = NoLock /\ s6 = FALSE /\ s7 = "idle" /\ s8 = "ready"
      /\ s9 = 0 /\ s10 = 0 /\ s11 = 0
  BY DEF Install!Init
<1>2. Install!TypeOK
  <2>1. s3 \in [Install!TxIds -> Install!Trees]
    BY <1>1 DEF Install!Trees
  <2>2. s9 \in 0 .. MaxTx /\ s10 \in 0 .. MaxStops /\ s11 \in 0 .. MaxEdits
    BY <1>1, InstallAssumption
  <2> QED
    BY <1>1, <2>1, <2>2 DEF Install!TypeOK, Install!Trees, Install!Points
<1>3. Install!PlanIsSound
  BY <1>1 DEF Install!PlanIsSound, Install!InOrder
<1>4. Install!PointsFit
  BY <1>1 DEF Install!PointsFit
<1>5. Install!TreesFit /\ Install!BothSidesHold
  BY <1>1 DEF Install!TreesFit, Install!BothSidesHold
<1> QED
  BY <1>2, <1>3, <1>4, <1>5 DEF Install!IInv

---------------------------------------------------------------------------
(* Entries of the registry.                                                *)

SkillVersions == DOMAIN BytesOf

\* The snapshots of an entry.
LEMMA EntriesAre ==
  ASSUME NEW e \in Install!Entries
  PROVE  /\ e # NoLock /\ e.version \in SkillVersions /\ e.version \in Nat
         /\ e.history \in Seq(Install!Snapshots) /\ Len(e.history) \in Nat
         /\ \A i \in 1 .. Len(e.history) :
              /\ e.history[i] \in Install!Snapshots
              /\ e.history[i].version \in SkillVersions /\ e.history[i].version \in Nat
              /\ e.history[i].id \in Install!TxIds /\ e.history[i].id \in Nat
<1>1. e # NoLock /\ e.version \in SkillVersions /\ e.history \in Seq(Install!Snapshots)
  BY InstallAssumption DEF Install!Entries, SkillVersions
<1>2. Len(e.history) \in Nat /\ \A i \in 1 .. Len(e.history) : e.history[i] \in Install!Snapshots
  BY <1>1
<1> QED
  BY <1>1, <1>2, InstallAssumption DEF Install!Snapshots, Install!TxIds, SkillVersions

\* The history has its snapshots, with the bytes of their versions.
Held(trees, e) ==
  e # NoLock =>
    \A i \in 1 .. Len(e.history) : trees[e.history[i].id] = BytesOf[e.history[i].version]

\* An update keeps the previous entry at the end of its history.
LEMMA HistoryGrows ==
  ASSUME NEW e \in Install!Entries, NEW n \in Nat, Install!InOrder(e, n),
         NEW id \in Install!TxIds, id > n,
         NEW v \in SkillVersions, v > e.version
  PROVE  LET c == [version |-> v,
                   history |-> Append(e.history, [version |-> e.version, id |-> id])]
         IN  /\ c \in Install!Entries /\ Install!InOrder(c, id)
             /\ Held(s3, e) /\ s3[id] = BytesOf[e.version] => Held(s3, c)
<1> DEFINE s == [version |-> e.version, id |-> id]
           h == Append(e.history, s)
           c == [version |-> v, history |-> h]
<1>1. /\ e.version \in SkillVersions /\ e.version \in Nat /\ v \in Nat /\ id \in Nat
      /\ e.history \in Seq(Install!Snapshots) /\ Len(e.history) \in Nat
      /\ \A i \in 1 .. Len(e.history) : e.history[i].version \in Nat /\ e.history[i].id \in Nat
  BY EntriesAre, InstallAssumption DEF SkillVersions, Install!TxIds
<1>2. s \in Install!Snapshots
  BY <1>1 DEF Install!Snapshots, SkillVersions
<1>3. /\ h \in Seq(Install!Snapshots) /\ Len(h) = Len(e.history) + 1
      /\ h[Len(e.history) + 1] = s
      /\ \A i \in 1 .. Len(e.history) : h[i] = e.history[i]
  <2> HIDE DEF s
  <2> QED
    BY <1>1, <1>2
<1>4. c \in Install!Entries
  <2> HIDE DEF h
  <2> QED
    BY <1>3 DEF Install!Entries, SkillVersions
<1> HIDE DEF h
<1>5. Install!InOrder(c, id)
  <2>1. ASSUME NEW i \in 1 .. Len(h) PROVE h[i].version < v /\ h[i].id <= id
    <3>1. CASE i = Len(e.history) + 1
      BY <1>1, <1>3, <3>1
    <3>2. CASE i \in 1 .. Len(e.history)
      <4>1. e.history[i].version < e.version /\ e.history[i].id <= n
        BY <3>2, EntriesAre DEF Install!InOrder
      <4> QED
        BY <1>1, <1>3, <3>2, <4>1
    <3> QED
      BY <1>1, <1>3, <3>1, <3>2
  <2>2. ASSUME NEW i \in 1 .. Len(h), NEW k \in 1 .. Len(h), i < k
        PROVE  h[i].version < h[k].version /\ h[i].id < h[k].id
    <3>1. i \in 1 .. Len(e.history)
      BY <1>1, <1>3, <2>2
    <3>2. e.history[i].version < e.version /\ e.history[i].id <= n
      BY <3>1, EntriesAre DEF Install!InOrder
    <3>3. CASE k = Len(e.history) + 1
      BY <1>1, <1>3, <3>1, <3>2, <3>3
    <3>4. CASE k \in 1 .. Len(e.history)
      BY <1>3, <2>2, <3>1, <3>4, EntriesAre DEF Install!InOrder
    <3> QED
      BY <1>1, <1>3, <3>3, <3>4
  <2>3. c.version = v /\ c.history = h
    OBVIOUS
  <2> QED
    BY <2>1, <2>2, <2>3 DEF Install!InOrder
<1>6. ASSUME Held(s3, e), s3[id] = BytesOf[e.version] PROVE Held(s3, c)
  <2>1. ASSUME NEW i \in 1 .. Len(h) PROVE s3[h[i].id] = BytesOf[h[i].version]
    <3>1. CASE i = Len(e.history) + 1
      BY <1>3, <1>6, <3>1
    <3>2. CASE i \in 1 .. Len(e.history)
      BY <1>3, <1>6, <3>2, EntriesAre DEF Held
    <3> QED
      BY <1>1, <1>3, <3>1, <3>2
  <2> QED
    BY <2>1 DEF Held
<1> QED
  BY <1>4, <1>5, <1>6 DEF h

\* A rollback takes the last entry of the history, and leaves the others.
LEMMA HistoryShrinks ==
  ASSUME NEW e \in Install!Entries, NEW n \in Nat, Install!InOrder(e, n), e.history # <<>>
  PROVE  LET s == Install!Last(e.history)
             c == [version |-> s.version, history |-> Install!Front(e.history)]
         IN  /\ s \in Install!Snapshots /\ s.version < e.version /\ s.id <= n
             /\ s = [version |-> s.version, id |-> s.id]
             /\ c \in Install!Entries /\ Install!InOrder(c, n)
             /\ Held(s3, e) => s3[s.id] = BytesOf[s.version] /\ Held(s3, c)
             /\ \A i \in 1 .. Len(c.history) :
                  c.history[i] = e.history[i] /\ c.history[i].id < s.id
             /\ Len(c.history) < Len(e.history)
<1> DEFINE m == Len(e.history)
           h == Install!Front(e.history)
           s == e.history[m]
           c == [version |-> s.version, history |-> h]
<1>1. /\ e.history \in Seq(Install!Snapshots) /\ m \in Nat /\ m # 0
      /\ e # NoLock /\ e.version \in Nat
      /\ \A i \in 1 .. m : e.history[i] \in Install!Snapshots
      /\ \A i \in 1 .. m : e.history[i].version \in SkillVersions /\ e.history[i].version \in Nat
                           /\ e.history[i].id \in Nat
  BY EntriesAre, EmptySeq
<1>2. h = SubSeq(e.history, 1, m - 1) /\ s = Install!Last(e.history)
  BY DEF Install!Front, Install!Last
<1>3. h \in Seq(Install!Snapshots) /\ Len(h) = m - 1 /\ \A i \in 1 .. m - 1 : h[i] = e.history[i]
  <2>1. \A i \in 1 .. m - 1 : e.history[i] \in Install!Snapshots
    BY <1>1
  <2>2. m - 1 \in Nat /\ 1 \in Int /\ m - 1 \in Int
    BY <1>1
  <2> HIDE DEF h, m
  <2>3. /\ SubSeq(e.history, 1, m - 1) \in Seq(Install!Snapshots)
        /\ Len(SubSeq(e.history, 1, m - 1)) = IF 1 <= m - 1 THEN m - 1 - 1 + 1 ELSE 0
        /\ \A i \in 1 .. m - 1 - 1 + 1 : SubSeq(e.history, 1, m - 1)[i] = e.history[1 + i - 1]
    BY <1>1, <2>1, <2>2, SubSeqProperties
  <2> QED
    BY <1>2, <2>2, <2>3
<1> HIDE DEF h
<1>4. s \in Install!Snapshots /\ s.version < e.version /\ s.id <= n /\ s.version \in SkillVersions
      /\ s.version \in Nat /\ s.id \in Nat
  BY <1>1 DEF Install!InOrder
<1>5. c \in Install!Entries
  BY <1>3, <1>4 DEF Install!Entries, SkillVersions
<1>6. ASSUME NEW i \in 1 .. m - 1
      PROVE  /\ i \in 1 .. m /\ h[i] = e.history[i]
             /\ h[i].version < s.version /\ h[i].id < s.id /\ h[i].id <= n
             /\ \A k \in 1 .. m - 1 : i < k => h[i].version < h[k].version /\ h[i].id < h[k].id
  <2>1. i \in 1 .. m /\ m \in 1 .. m /\ i < m /\ h[i] = e.history[i]
    BY <1>1, <1>3
  <2>2. \A k \in 1 .. m : i < k =>
          e.history[i].version < e.history[k].version /\ e.history[i].id < e.history[k].id
    BY <1>1, <2>1 DEF Install!InOrder
  <2>3. e.history[i].id <= n
    BY <1>1, <2>1 DEF Install!InOrder
  <2>4. ASSUME NEW k \in 1 .. m - 1 PROVE k \in 1 .. m /\ h[k] = e.history[k]
    <3>1. m \in Nat /\ h[k] = e.history[k]
      BY <1>1, <1>3
    <3> HIDE DEF m
    <3> QED
      BY <3>1
  <2> QED
    BY <2>1, <2>2, <2>3, <2>4
<1>7. Install!InOrder(c, n)
  <2>1. c.version = s.version /\ c.history = h
    OBVIOUS
  <2> HIDE DEF c
  <2> QED
    BY <1>3, <1>6, <2>1 DEF Install!InOrder
<1>8. ASSUME Held(s3, e) PROVE s3[s.id] = BytesOf[s.version] /\ Held(s3, c)
  <2>1. c.history = h /\ m \in 1 .. m
    BY <1>1
  <2>2. s3[s.id] = BytesOf[s.version]
    BY <1>1, <1>8, <2>1 DEF Held
  <2> HIDE DEF c
  <2>3. \A i \in 1 .. Len(h) : s3[h[i].id] = BytesOf[h[i].version]
    BY <1>1, <1>3, <1>6, <1>8 DEF Held
  <2> QED
    BY <2>1, <2>2, <2>3 DEF Held
<1>9. s = [version |-> s.version, id |-> s.id]
  <2>1. \A t \in Install!Snapshots : t = [version |-> t.version, id |-> t.id]
    BY DEF Install!Snapshots
  <2> QED
    BY <1>4, <2>1
<1>10. /\ \A i \in 1 .. Len(c.history) : c.history[i] = e.history[i] /\ c.history[i].id < s.id
       /\ Len(c.history) < Len(e.history)
  BY <1>1, <1>3, <1>6
<1>11. c = [version |-> Install!Last(e.history).version, history |-> Install!Front(e.history)]
  BY <1>2 DEF h
<1>12. Install!Last(e.history) = s
  BY <1>2
<1> HIDE DEF s, c
<1> QED
  BY <1>4, <1>5, <1>7, <1>8, <1>9, <1>10, <1>11, <1>12

---------------------------------------------------------------------------
(* Plans of a transaction.                                                 *)

\* What is planned.
LEMMA PlansAre ==
  ASSUME Install!TypeOK, Install!PlanIsSound, s4 # NoLock
  PROVE  /\ s4 \in Install!Journals /\ s4.id = s9 /\ s9 \in Install!TxIds /\ s9 \in Nat /\ s9 - 1 \in Nat
         /\ s4.previous \in Install!Entries \cup {NoLock}
         /\ s4.target \in SkillVersions /\ s4.target \in Nat /\ s4.source \in 0 .. MaxTx
         /\ s4.operation \in {"install", "rollback"}
         /\ Install!InOrder(s4.previous, s9 - 1)
         /\ s5 \in {s4.previous, Install!Candidate}
<1>1. s4 \in Install!Journals
  BY DEF Install!TypeOK
<1>2. s4.id \in Install!TxIds /\ s4.previous \in Install!Entries \cup {NoLock}
      /\ s4.target \in SkillVersions /\ s4.source \in 0 .. MaxTx
      /\ s4.operation \in {"install", "rollback"}
  BY <1>1 DEF Install!Journals, SkillVersions
<1> QED
  BY <1>1, <1>2, InstallAssumption DEF Install!PlanIsSound, Install!TxIds, SkillVersions

\* The entry a transaction ends with is one, is not the previous one, and its history is
\* there when that of the previous one is; a rollback leaves history without the snapshots
\* it removes.
LEMMA CandidateIs ==
  ASSUME Install!TypeOK, Install!PlanIsSound, s4 # NoLock
  PROVE  /\ Install!Candidate \in Install!Entries /\ Install!Candidate.version = s4.target
         /\ Install!InOrder(Install!Candidate, s9)
         /\ Install!Updating => s4.target # s4.previous.version
         /\ Install!Candidate # s4.previous
         /\ Held(s3, s4.previous)
              /\ (s4.operation = "install" /\ Install!Updating => s3[s4.id] = Install!Previous)
              => Held(s3, Install!Candidate)
         /\ s4.operation = "rollback" =>
              /\ Install!Updating /\ s4.source \in Install!TxIds
              /\ \A i \in 1 .. Len(Install!Candidate.history) :
                   Install!Candidate.history[i].id \notin {s4.id, s4.source}
<1>1. /\ s4.id = s9 /\ s9 \in Install!TxIds /\ s9 \in Nat /\ s9 - 1 \in Nat
      /\ s4.previous \in Install!Entries \cup {NoLock}
      /\ s4.target \in SkillVersions /\ s4.target \in Nat
      /\ Install!InOrder(s4.previous, s9 - 1)
  BY PlansAre
<1>2. CASE s4.operation = "rollback"
  <2> DEFINE e == s4.previous
             t == Install!Last(e.history)
             c == [version |-> t.version, history |-> Install!Front(e.history)]
  <2>1. e # NoLock /\ Install!Updating /\ e.history # <<>> /\ t = [version |-> s4.target, id |-> s4.source]
    BY <1>2 DEF Install!PlanIsSound, Install!Updating
  <2>2. e \in Install!Entries
    BY <1>1, <2>1
  <2>3. /\ t \in Install!Snapshots /\ t.version < e.version /\ t.id <= s9 - 1
        /\ c \in Install!Entries /\ Install!InOrder(c, s9 - 1)
        /\ Held(s3, e) => Held(s3, c)
        /\ \A i \in 1 .. Len(c.history) : c.history[i] = e.history[i] /\ c.history[i].id < t.id
        /\ Len(c.history) < Len(e.history)
    BY <1>1, <2>1, <2>2, HistoryShrinks
  <2>4. t.version = s4.target /\ t.id = s4.source
    BY <2>1
  <2>5. Install!Candidate = c
    BY <1>2, <2>4 DEF Install!Candidate
  <2>6. t.id \in Install!TxIds /\ t.id \in Nat
    BY <2>3 DEF Install!Snapshots, Install!TxIds
  <2>7. e.version \in Nat /\ c.version = t.version
    BY <2>2, EntriesAre
  <2> HIDE DEF c, t, e
  <2>8. c # e
    BY <1>1, <2>3, <2>4, <2>7
  <2>9. Install!InOrder(c, s9)
    <3>1. \A i \in 1 .. Len(c.history) : c.history[i].id \in Nat
      BY <2>3, EntriesAre
    <3> QED
      BY <1>1, <2>3, <3>1 DEF Install!InOrder
  <2>10. ASSUME NEW i \in 1 .. Len(c.history) PROVE c.history[i].id \notin {s9, s4.source}
    <3>1. c.history[i].id \in Nat
      BY <2>3, EntriesAre
    <3> QED
      BY <1>1, <2>3, <2>4, <2>6, <3>1
  <2> QED
    BY <1>1, <1>2, <2>1, <2>3, <2>4, <2>5, <2>6, <2>7, <2>8, <2>9, <2>10 DEF e
<1>3. CASE s4.operation # "rollback" /\ s4.previous # NoLock
  <2> DEFINE e == s4.previous
             c == [version |-> s4.target,
                   history |-> Append(e.history, [version |-> e.version, id |-> s4.id])]
  <2>1. e \in Install!Entries /\ s4.operation = "install" /\ Install!Updating
    BY <1>1, <1>3, PlansAre DEF Install!Updating
  <2>2. s4.target > e.version
    BY <2>1 DEF Install!PlanIsSound
  <2>3. Install!Candidate = c
    BY <1>3, <2>1 DEF Install!Candidate, Install!Snapshot
  <2>4. /\ c \in Install!Entries /\ Install!InOrder(c, s9)
        /\ Held(s3, e) /\ s3[s9] = BytesOf[e.version] => Held(s3, c)
    <3>1. s9 > s9 - 1
      BY <1>1
    <3> QED
      BY <1>1, <2>1, <2>2, <3>1, HistoryGrows
  <2>5. e.version \in Nat /\ c.version = s4.target
    BY <2>1, EntriesAre
  <2>6. Install!Previous = BytesOf[e.version]
    BY <1>3 DEF Install!Previous
  <2> HIDE DEF c, e
  <2> QED
    BY <1>1, <1>3, <2>1, <2>2, <2>3, <2>4, <2>5, <2>6 DEF e
<1>4. CASE s4.operation # "rollback" /\ s4.previous = NoLock
  <2> DEFINE c == [version |-> s4.target, history |-> <<>>]
  <2>1. Install!Candidate = c /\ ~Install!Updating
    BY <1>4 DEF Install!Candidate, Install!Updating
  <2>2. c.version = s4.target /\ c.history = <<>> /\ Len(c.history) = 0
    OBVIOUS
  <2>3. <<>> \in Seq(Install!Snapshots)
    OBVIOUS
  <2>4. c \in Install!Entries
    BY <1>1, <2>3 DEF Install!Entries, SkillVersions
  <2> HIDE DEF c
  <2>5. Install!InOrder(c, s9) /\ Held(s3, c)
    BY <2>2 DEF Install!InOrder, Held
  <2>6. c # s4.previous
    BY <1>4, <2>4, InstallAssumption
  <2> QED
    BY <1>4, <2>1, <2>2, <2>4, <2>5, <2>6
<1> QED
  BY <1>2, <1>3, <1>4

\* After a step too it is not the previous one.
LEMMA CandidateIsAnother ==
  (Install!TypeOK /\ Install!PlanIsSound /\ s4 # NoLock => Install!Candidate # s4.previous)'
<1>1. Install!TypeOK /\ Install!PlanIsSound /\ s4 # NoLock => Install!Candidate # s4.previous
  BY CandidateIs
<1> QED
  BY <1>1, PTL

\* The plan is the same, and what the journal says about its state may differ.
SamePlan ==
  /\ s4 # NoLock /\ s4' # NoLock /\ s9' = s9
  /\ s4'.id = s4.id /\ s4'.operation = s4.operation /\ s4'.target = s4.target
  /\ s4'.previous = s4.previous /\ s4'.source = s4.source

\* The same plan has the same trees and the same candidate.
LEMMA SamePlanIs ==
  ASSUME SamePlan
  PROVE  /\ Install!Candidate' = Install!Candidate /\ Install!Target' = Install!Target
         /\ Install!Previous' = Install!Previous /\ Install!Updating' = Install!Updating
         /\ Install!Aside' = IF Install!Updating THEN s3'[s4.id] ELSE NoTree
BY DEF SamePlan, Install!Candidate, Install!Snapshot, Install!Target, Install!Previous,
   Install!Updating, Install!Aside, Install!Front

\* It stays sound while the registry is on one of its sides.
LEMMA PlanStays ==
  ASSUME Install!TypeOK, Install!PlanIsSound, SamePlan, s5' \in {s4.previous, Install!Candidate}
  PROVE  Install!PlanIsSound'
BY SamePlanIs DEF SamePlan, Install!PlanIsSound, Install!Updating, Install!InOrder, Install!Last

\* Nothing is planned when it is over, and the registry is in order.
LEMMA PlanEnds ==
  ASSUME Install!TypeOK, Install!PlanIsSound, s4' = NoLock, s5' = s5, s9' = s9
  PROVE  Install!PlanIsSound'
<1>1. Install!InOrder(s5, s9)
  <2>1. CASE s4 = NoLock
    BY <2>1 DEF Install!PlanIsSound
  <2>2. CASE s4 # NoLock /\ s5 = Install!Candidate
    BY <2>2, CandidateIs
  <2>3. CASE s4 # NoLock /\ s5 = s4.previous
    <3>1. Install!InOrder(s5, s9 - 1) /\ s9 \in Nat /\ s5 \in Install!Entries \cup {NoLock}
      BY <2>3, PlansAre
    <3>2. CASE s5 = NoLock
      BY <3>2 DEF Install!InOrder
    <3>3. CASE s5 \in Install!Entries
      <4>1. \A i \in 1 .. Len(s5.history) : s5.history[i].id \in Nat
        BY <3>3, EntriesAre
      <4> QED
        BY <3>1, <4>1 DEF Install!InOrder
    <3> QED
      BY <3>1, <3>2, <3>3
  <2> QED
    BY <2>1, <2>2, <2>3, PlansAre
<1> QED
  BY <1>1 DEF Install!PlanIsSound, Install!InOrder

---------------------------------------------------------------------------
(* Types.                                                                  *)

\* The trees of a plan.
LEMMA TreesAre ==
  ASSUME Install!TypeOK, Install!PlanIsSound, s4 # NoLock
  PROVE  /\ Install!Target \in Install!Packages
         /\ Install!Updating => Install!Previous \in Install!Packages /\ Install!Aside = s3[s9]
         /\ ~Install!Updating => Install!Previous = NoTree /\ Install!Aside = NoTree
         /\ NoTree \notin Install!Packages /\ Edited \notin Install!Packages
         /\ Partial \notin Install!Packages
<1>1. s4.target \in SkillVersions /\ s4.previous \in Install!Entries \cup {NoLock} /\ s4.id = s9
  BY PlansAre
<1>2. \A v \in SkillVersions : BytesOf[v] \in Install!Packages
  BY DEF Install!Packages, SkillVersions
<1>3. Install!Updating => s4.previous.version \in SkillVersions
  BY <1>1, EntriesAre DEF Install!Updating
<1> QED
  BY <1>1, <1>2, <1>3, InstallAssumption
     DEF Install!Target, Install!Previous, Install!Aside, Install!Updating

\* A change of the journal's state.
LEMMA JournalNoted ==
  ASSUME s4 \in Install!Journals, NEW state \in {"prepared", "previous-staged", "installed", "registry-committed"},
         s4' = [s4 EXCEPT !.state = state], s9' = s9
  PROVE  s4' \in Install!Journals /\ SamePlan
<1>1. s4' \in Install!Journals
  BY DEF Install!Journals
<1> QED
  BY <1>1, InstallAssumption DEF SamePlan, Install!Journals

\* What a step may make of the variables with types that are no matter of order.
LEMMA TypesMay ==
  ASSUME Install!TypeOK,
         s1' \in Install!Trees, s2' \in Install!Trees, s3' \in [Install!TxIds -> Install!Trees],
         s4' = NoLock \/ s4' \in Install!Journals, s5' = NoLock \/ s5' \in Install!Entries,
         s6' \in BOOLEAN, s7' \in Install!Points, s8' \in {"ready", "idle"},
         s9' \in 0 .. MaxTx, s10' \in 0 .. MaxStops, s11' \in 0 .. MaxEdits
  PROVE  Install!TypeOK'
BY DEF Install!TypeOK, Install!Trees, Install!Packages, Install!TxIds, Install!Journals,
   Install!Entries, Install!Snapshots, Install!Points

\* The plan of a new transaction.
LEMMA PlanIsMade ==
  ASSUME Install!TypeOK, NEW operation \in {"install", "rollback"}, NEW version \in SkillVersions,
         NEW bytes \in Install!Trees, NEW source \in 0 .. MaxTx,
         Install!Prepare(operation, version, bytes, source)
  PROVE  /\ s4' \in Install!Journals /\ s4' # NoLock /\ s9' = s9 + 1 /\ s9' \in Install!TxIds
         /\ s4'.id = s9' /\ s4'.operation = operation /\ s4'.target = version
         /\ s4'.previous = s5 /\ s4'.source = source /\ s2' = bytes
         /\ Install!TypeOK'
<1>1. s9 \in 0 .. MaxTx /\ s9 < MaxTx /\ s9' = s9 + 1 /\ s5 \in Install!Entries \cup {NoLock}
  BY DEF Install!Prepare, Install!TypeOK
<1>2. s9' \in Install!TxIds /\ s9' \in 0 .. MaxTx
  BY <1>1, InstallAssumption DEF Install!TxIds
<1>3. s4' = [id |-> s9', operation |-> operation, state |-> "prepared",
             target |-> version, previous |-> s5, source |-> source]
  BY <1>1 DEF Install!Prepare
<1>4. s4' \in Install!Journals
  BY <1>1, <1>2, <1>3 DEF Install!Journals, SkillVersions
<1>5. Install!TypeOK'
  <2>1. UNCHANGED <<s6, s1, s3, s5, s8, s10, s11>> /\ s7' = "prepared" /\ s2' = bytes
    BY DEF Install!Prepare, Install!Reach, Install!Go
  <2> QED
    BY <1>2, <1>4, <2>1, TypesMay DEF Install!TypeOK, Install!Points
<1> QED
  BY <1>1, <1>2, <1>3, <1>4, <1>5, InstallAssumption DEF Install!Prepare

---------------------------------------------------------------------------
(* Steps.                                                                  *)

\* What a step owes.
InstallGoal ==
  /\ Install!IInv'
  /\ Install!CommitIsFinalStep /\ Install!RecoveryNeverPromotesStep /\ Install!EditsSurviveStep

\* The invariant with history in these terms.
Sides ==
  /\ Held(s3, s5)
  /\ s4 = NoLock => s1 = IF s5 = NoLock THEN NoTree ELSE BytesOf[s5.version]
  /\ s4 # NoLock /\ s5 = Install!Candidate => s1 = Install!Target
  /\ s4 # NoLock /\ s5 = s4.previous =>
       \/ Install!Updating /\ s1 = Install!Previous /\ Install!Aside \in {NoTree, Partial, Install!Previous}
       \/ (Install!Updating => Install!Aside = Install!Previous) /\ s1 \in {NoTree, Partial, Install!Target}

\* They are the same.
LEMMA SidesAre == (Install!BothSidesHold <=> Sides) /\ (Install!BothSidesHold' <=> Sides')
BY DEF Install!BothSidesHold, Sides, Held

\* A command begins, ends, stops, goes on without having changed anything, or the root is
\* enrolled.
LEMMA QuietKeeps ==
  ASSUME Install!IInv, UNCHANGED <<s1, s2, s3, s4, s5, s9, s11>>,
         s6' \in BOOLEAN, s8' \in {"ready", "idle"}, s10' \in 0 .. MaxStops,
         s7' \in {"idle", "recover"} \/ (s7' = "ready" /\ s4 = NoLock)
  PROVE  InstallGoal
<1>1. Install!TypeOK'
  BY DEF Install!IInv, Install!TypeOK, Install!Points
<1>2. Install!PlanIsSound'
  BY DEF Install!IInv, Install!PlanIsSound, Install!InOrder, Install!Candidate, Install!Snapshot,
     Install!Updating, Install!Last, Install!Front
<1>3. Install!PointsFit'
  BY DEF Install!IInv, Install!PointsFit
<1>4. s11 = 0 => Install!TreesFit' /\ Install!BothSidesHold'
  <2>1. Install!TreesFit'
    BY DEF Install!TreesFit
  <2>2. Install!BothSidesHold => Install!BothSidesHold'
    BY DEF Install!BothSidesHold, Install!Candidate, Install!Snapshot, Install!Updating,
       Install!Aside, Install!Previous, Install!Target, Install!Front
  <2> QED
    BY <2>1, <2>2 DEF Install!IInv
<1>5. Install!CommitIsFinalStep /\ Install!RecoveryNeverPromotesStep /\ Install!EditsSurviveStep
  BY DEF Install!CommitIsFinalStep, Install!RecoveryNeverPromotesStep, Install!EditsSurviveStep
<1> QED
  BY <1>1, <1>2, <1>3, <1>4, <1>5 DEF Install!IInv, InstallGoal

\* The quiet steps.
LEMMA QuietSteps ==
  ASSUME Install!IInv,
         \/ Install!Begin \/ Install!Leave \/ Install!CheckpointFails \/ Install!NothingToRecover
         \/ Install!Refuse \/ Install!Stop \/ Install!Throw \/ Install!Enroll
  PROVE  InstallGoal
<1>1. s6 \in BOOLEAN /\ s8 \in {"ready", "idle"} /\ s10 \in 0 .. MaxStops /\ MaxStops \in Nat
  BY InstallAssumption DEF Install!IInv, Install!TypeOK
<1>2. ASSUME \/ Install!Begin \/ Install!Leave \/ Install!CheckpointFails \/ Install!Refuse
             \/ Install!Stop \/ Install!Throw \/ Install!Enroll
      PROVE  /\ UNCHANGED <<s1, s2, s3, s4, s5, s9, s11>> /\ s7' \in {"idle", "recover"}
             /\ s6' \in BOOLEAN /\ s8' \in {"ready", "idle"} /\ s10' \in 0 .. MaxStops
  <2>1. CASE Install!Begin \/ Install!Leave \/ Install!CheckpointFails \/ Install!Refuse
    BY <1>1, <2>1 DEF Install!Begin, Install!Leave, Install!CheckpointFails, Install!Refuse,
       Install!Reach, Install!Go, Install!trees
  <2>2. CASE Install!Throw
    BY <1>1, <2>2 DEF Install!Throw, Install!Go, Install!trees
  <2>3. CASE Install!Enroll
    BY <1>1, <2>3 DEF Install!Enroll, Install!At, Install!trees
  <2>4. CASE Install!Stop
    <3>1. s10' = s10 + 1 /\ s10 < MaxStops
      BY <2>4 DEF Install!Stop
    <3>2. s10' \in 0 .. MaxStops
      BY <1>1, <3>1
    <3> QED
      BY <1>1, <2>4, <3>2 DEF Install!Stop, Install!Go, Install!trees
  <2> QED
    BY <1>2, <2>1, <2>2, <2>3, <2>4
<1>3. CASE Install!NothingToRecover
  BY <1>1, <1>3, QuietKeeps DEF Install!NothingToRecover, Install!Reach, Install!Go, Install!At, Install!trees
<1> QED
  BY <1>2, <1>3, QuietKeeps

\* A transaction is planned on the entry the registry has, with a tree that is not there yet.
LEMMA PlanningKeeps ==
  ASSUME Install!IInv, NEW operation \in {"install", "rollback"}, NEW version \in SkillVersions,
         NEW source \in 0 .. MaxTx, NEW bytes, bytes = BytesOf[version],
         Install!NoDrift(s5), s7 = "ready",
         Install!Prepare(operation, version, bytes, source),
         operation = "install" => source = 0 /\ (s5 # NoLock => version > s5.version),
         operation = "rollback" =>
           /\ s5 # NoLock /\ s5.history # <<>>
           /\ Install!Last(s5.history) = [version |-> version, id |-> source]
  PROVE  InstallGoal
<1>0. s4 = NoLock
  BY DEF Install!IInv, Install!PointsFit
<1>1. /\ s4' \in Install!Journals /\ s4' # NoLock /\ s9' = s9 + 1 /\ s9' \in Install!TxIds
      /\ s4'.id = s9' /\ s4'.operation = operation /\ s4'.target = version
      /\ s4'.previous = s5 /\ s4'.source = source /\ s2' = BytesOf[version]
      /\ Install!TypeOK'
  <2>1. BytesOf[version] \in Install!Trees
    BY DEF Install!Trees, Install!Packages, SkillVersions
  <2> QED
    BY <2>1, PlanIsMade DEF Install!IInv
<1>2. UNCHANGED <<s1, s3, s5, s6, s11>> /\ s7' = "prepared"
  BY DEF Install!Prepare, Install!Reach, Install!Go
<1>3. s9 \in Nat /\ s9' - 1 = s9 /\ Install!InOrder(s5, s9)
  BY <1>0, <1>1 DEF Install!IInv, Install!TypeOK, Install!PlanIsSound
<1>4. /\ (Install!Updating)' = (s5 # NoLock)
      /\ (Install!Previous)' = (IF s5 = NoLock THEN NoTree ELSE BytesOf[s5.version])
      /\ (Install!Target)' = BytesOf[version]
      /\ (Install!Aside)' = IF s5 = NoLock THEN NoTree ELSE s3[s9']
  BY <1>1, <1>2 DEF Install!Updating, Install!Previous, Install!Target, Install!Aside
<1>5. Install!PlanIsSound'
  <2>1. Install!InOrder(s4.previous, s9 - 1)'
    BY <1>1, <1>2, <1>3 DEF Install!InOrder
  <2> QED
    BY <1>1, <1>2, <1>4, <2>1 DEF Install!PlanIsSound, Install!Last
<1>6. s3[s9'] = NoTree
  BY <1>1, <1>3 DEF Install!IInv, Install!PointsFit
<1>7. Install!PointsFit'
  <2>1. \A t \in Install!TxIds : t > s9' => s3[t] = NoTree
    BY <1>1, <1>3 DEF Install!IInv, Install!PointsFit, Install!TxIds
  <2> QED
    BY <1>1, <1>2, <1>4, <2>1 DEF Install!PointsFit
<1>8. s1 = IF s5 = NoLock THEN NoTree ELSE BytesOf[s5.version]
  BY DEF Install!NoDrift
<1>9. ASSUME s11 = 0 PROVE Install!TreesFit' /\ Install!BothSidesHold'
  <2>1. Install!TreesFit'
    BY <1>1, <1>2, <1>4, <1>6, <1>8 DEF Install!TreesFit
  <2>2. Held(s3, s5)
    BY <1>9, SidesAre DEF Install!IInv, Sides
  <2>3. (s5 # Install!Candidate)'
    BY <1>1, <1>2, <1>5, CandidateIsAnother
  <2>4. Sides'
    BY <1>1, <1>2, <1>4, <1>6, <1>8, <2>2, <2>3 DEF Sides, Held
  <2> QED
    BY <2>1, <2>4, SidesAre
<1>10. Install!CommitIsFinalStep /\ Install!RecoveryNeverPromotesStep /\ Install!EditsSurviveStep
  BY <1>2 DEF Install!CommitIsFinalStep, Install!RecoveryNeverPromotesStep, Install!EditsSurviveStep
<1> QED
  BY <1>1, <1>2, <1>5, <1>7, <1>9, <1>10 DEF Install!IInv, InstallGoal

\* The plans there are: newer versions, and the last entry of the history.
LEMMA PlansKeep ==
  ASSUME Install!IInv, (\E v \in SkillVersions : Install!PrepareInstall(v)) \/ Install!PrepareRollback
  PROVE  InstallGoal
<1>1. ASSUME NEW v \in SkillVersions, Install!PrepareInstall(v) PROVE InstallGoal
  <2>1. /\ Install!NoDrift(s5) /\ Install!Prepare("install", v, BytesOf[v], 0) /\ s7 = "ready"
        /\ s5 # NoLock => v > s5.version
    BY <1>1 DEF Install!PrepareInstall, Install!Eligible, Install!Prepare, Install!Reach, Install!At
  <2>2. 0 \in 0 .. MaxTx
    BY InstallAssumption
  <2> QED
    BY <2>1, <2>2, PlanningKeeps
<1>2. ASSUME Install!PrepareRollback PROVE InstallGoal
  <2> DEFINE s == Install!Last(s5.history)
  <2>1. /\ s5 # NoLock /\ s5.history # <<>> /\ Install!NoDrift(s5)
        /\ s3[s.id] = BytesOf[s.version]
        /\ Install!Prepare("rollback", s.version, s3[s.id], s.id) /\ s7 = "ready"
    BY <1>2 DEF Install!PrepareRollback, Install!Prepare, Install!Reach, Install!At
  <2>2. s5 \in Install!Entries
    BY <2>1 DEF Install!IInv, Install!TypeOK
  <2>3. Install!InOrder(s5, s9) /\ s9 \in Nat
    BY <2>1 DEF Install!IInv, Install!TypeOK, Install!PlanIsSound, Install!PointsFit
  <2>4. s \in Install!Snapshots /\ s = [version |-> s.version, id |-> s.id]
    BY <2>1, <2>2, <2>3, HistoryShrinks
  <2> HIDE DEF s
  <2>5. s.version \in SkillVersions /\ s.id \in 0 .. MaxTx
    BY <2>4, InstallAssumption DEF Install!Snapshots, Install!TxIds, SkillVersions
  <2> QED
    BY <2>1, <2>4, <2>5, PlanningKeeps DEF s
<1> QED
  BY <1>1, <1>2

\* The same journal is the same plan.
LEMMA SameJournal == s4 # NoLock /\ s4' = s4 /\ s9' = s9 => SamePlan
BY DEF SamePlan

\* History that is there stays when none of its snapshots is touched.
LEMMA HeldStays ==
  ASSUME Install!TypeOK, NEW e \in Install!Entries \cup {NoLock}, Held(s3, e),
         NEW id, s3' = s3 \/ \E t : s3' = [s3 EXCEPT ![id] = t],
         e # NoLock => \A i \in 1 .. Len(e.history) : e.history[i].id # id
  PROVE  Held(s3', e)
<1>1. ASSUME e # NoLock, NEW i \in 1 .. Len(e.history)
      PROVE  s3'[e.history[i].id] = s3[e.history[i].id]
  <2>1. e.history[i].id \in Install!TxIds /\ e.history[i].id # id
    BY <1>1, EntriesAre
  <2>2. s3 \in [Install!TxIds -> Install!Trees]
    BY DEF Install!TypeOK
  <2> QED
    BY <2>1, <2>2
<1> QED
  BY <1>1 DEF Held

\* The previous entry has no snapshot of the transaction under way.
LEMMA SnapshotIsNew ==
  ASSUME Install!TypeOK, Install!PlanIsSound, s4 # NoLock, s4.previous # NoLock
  PROVE  \A i \in 1 .. Len(s4.previous.history) : s4.previous.history[i].id # s9
<1>1. /\ Install!InOrder(s4.previous, s9 - 1) /\ s9 \in Nat
      /\ s4.previous \in Install!Entries
  BY PlansAre
<1> QED
  BY <1>1, EntriesAre DEF Install!InOrder

\* What a step of a transaction that keeps its plan owes beyond where it leads.
LEMMA PlannedKeeps ==
  ASSUME Install!IInv, SamePlan, s5' \in {s4.previous, Install!Candidate}, s11' = s11,
         Install!TypeOK', Install!PointsFit', s11 = 0 => Install!TreesFit' /\ Sides',
         s5' # s5 /\ s11 = 0 => s5 = s4.previous,
         s1' # s1 => s1 # Edited /\ s7 # "putback"
  PROVE  InstallGoal
<1>1. Install!PlanIsSound'
  BY PlanStays DEF Install!IInv
<1>2. Install!IInv'
  BY <1>1, SidesAre DEF Install!IInv
<1>3. Install!CommitIsFinalStep
  BY DEF Install!CommitIsFinalStep
<1>4. Install!RecoveryNeverPromotesStep /\ Install!EditsSurviveStep
  BY DEF Install!RecoveryNeverPromotesStep, Install!EditsSurviveStep, Install!At
<1> QED
  BY <1>2, <1>3, <1>4 DEF InstallGoal

\* The active tree is renamed to its snapshot.
LEMMA MovingKeeps ==
  ASSUME Install!IInv, Install!MoveAside
  PROVE  InstallGoal
<1>1. /\ s7 = "prepared" /\ s4 # NoLock /\ SamePlan /\ s5 = s4.previous /\ s2 = Install!Target
      /\ UNCHANGED <<s6, s2, s4, s5, s8, s9, s10, s11>>
      /\ s1 = Install!Previous
      /\ \A t \in Install!TxIds : t > s9 => s3[t] = NoTree
  <2>1. s7 = "prepared"
    BY DEF Install!MoveAside, Install!At
  <2>2. s4 # NoLock /\ s5 = s4.previous /\ s2 = Install!Target
        /\ \A t \in Install!TxIds : t > s9 => s3[t] = NoTree
    BY <2>1 DEF Install!IInv, Install!PointsFit
  <2>3. UNCHANGED <<s6, s2, s4, s5, s8, s9, s10, s11>>
    BY DEF Install!MoveAside
  <2>4. s1 = Install!Previous
    BY DEF Install!MoveAside, Install!NoDrift, Install!Previous
  <2> QED
    BY <2>1, <2>2, <2>3, <2>4, SameJournal
<1>2. /\ IF Install!Updating
         THEN s7' = "moved" /\ s3' = [s3 EXCEPT ![s9] = s1] /\ s1' = NoTree
         ELSE s7' = "noted" /\ s1' = s1 /\ s3' = s3
      /\ s1' = NoTree
  BY <1>1, TreesAre, PlansAre DEF Install!MoveAside, Install!Go, Install!IInv
<1>3. /\ s9 \in Install!TxIds /\ s9 \in Nat /\ s4.id = s9
      /\ s4.previous \in Install!Entries \cup {NoLock}
      /\ s3 \in [Install!TxIds -> Install!Trees]
      /\ Install!Updating = (s4.previous # NoLock)
  BY <1>1, PlansAre DEF Install!IInv, Install!TypeOK, Install!Updating
<1>4. Install!TypeOK'
  <2>1. s1 \in Install!Trees /\ NoTree \in Install!Trees
    BY DEF Install!IInv, Install!TypeOK, Install!Trees
  <2>2. s3' \in [Install!TxIds -> Install!Trees]
    BY <1>2, <1>3, <2>1
  <2>3. s7' \in Install!Points
    BY <1>2 DEF Install!Points
  <2> QED
    BY <1>1, <1>2, <2>1, <2>2, <2>3, TypesMay DEF Install!IInv, Install!TypeOK
<1>5. /\ (Install!Candidate)' = Install!Candidate /\ (Install!Target)' = Install!Target
      /\ (Install!Previous)' = Install!Previous /\ (Install!Updating)' = Install!Updating
      /\ (Install!Aside)' = IF Install!Updating THEN s1 ELSE NoTree
  BY <1>1, <1>2, <1>3, SamePlanIs
<1>6. Install!PointsFit'
  <2>1. \A t \in Install!TxIds : t > s9 => s3'[t] = NoTree
    BY <1>1, <1>2, <1>3
  <2>2. s7' \in {"moved", "noted"}
    BY <1>2
  <2> QED
    BY <1>1, <1>5, <2>1, <2>2 DEF Install!PointsFit
<1>7. ASSUME s11 = 0 PROVE Install!TreesFit' /\ Sides'
  <2>1. s7' \in {"moved", "noted"} /\ s1' = NoTree
    BY <1>2
  <2>2. Install!TreesFit'
    BY <1>1, <1>5, <2>1 DEF Install!TreesFit
  <2>3. Held(s3, s5)
    BY <1>7, SidesAre DEF Install!IInv, Sides
  <2>4. Held(s3', s5)
    <3>1. CASE ~Install!Updating
      BY <1>2, <2>3, <3>1
    <3>2. CASE Install!Updating
      <4>1. \A i \in 1 .. Len(s5.history) : s5.history[i].id # s9
        BY <1>1, <1>3, <3>2, SnapshotIsNew DEF Install!IInv
      <4>2. \E t : s3' = [s3 EXCEPT ![s9] = t]
        BY <1>2, <3>2
      <4>3. Install!TypeOK /\ s5 \in Install!Entries \cup {NoLock}
        BY <1>1, <1>3 DEF Install!IInv
      <4> QED
        BY <2>3, <4>1, <4>2, <4>3, HeldStays
    <3> QED
      BY <3>1, <3>2
  <2>5. s5 # Install!Candidate
    BY <1>1, CandidateIs DEF Install!IInv
  <2> QED
    BY <1>1, <1>5, <2>1, <2>2, <2>4, <2>5 DEF Sides
<1>8. s1 # Edited
  BY <1>1, TreesAre, InstallAssumption DEF Install!IInv
<1> QED
  BY <1>1, <1>4, <1>6, <1>7, <1>8, PlannedKeeps

\* The journal is told what has been done.
LEMMA NotingKeeps ==
  ASSUME Install!IInv, Install!NoteMoved \/ Install!NoteInstalled \/ Install!NoteCommitted
  PROVE  InstallGoal
<1>1. /\ s4 # NoLock /\ UNCHANGED <<s1, s2, s3, s5, s6, s9, s10, s11>>
      /\ \E state \in {"previous-staged", "installed", "registry-committed"} :
           s4' = [s4 EXCEPT !.state = state]
      /\ \/ s7 = "moved" /\ s7' = "noted" /\ s8' = s8
         \/ s7 = "promoted" /\ s7' = "installed" /\ s8' = s8
         \/ s7 = "written" /\ s7' = Install!Rest /\ s8' = "idle"
  <2>1. CASE Install!NoteMoved
    BY <2>1 DEF Install!NoteMoved, Install!Note, Install!Reach, Install!At, Install!Go, Install!trees,
       Install!IInv, Install!PointsFit
  <2>2. CASE Install!NoteInstalled
    BY <2>2 DEF Install!NoteInstalled, Install!Note, Install!Reach, Install!At, Install!Go, Install!trees,
       Install!IInv, Install!PointsFit
  <2>3. CASE Install!NoteCommitted
    BY <2>3 DEF Install!NoteCommitted, Install!At, Install!Go, Install!trees, Install!IInv, Install!PointsFit
  <2> QED
    BY <2>1, <2>2, <2>3
<1>2. s4 \in Install!Journals
  BY <1>1, PlansAre DEF Install!IInv
<1>3. s4' \in Install!Journals /\ SamePlan
  BY <1>1, <1>2, JournalNoted
<1>4. s5 \in {s4.previous, Install!Candidate}
  BY <1>1, PlansAre DEF Install!IInv
<1>5. /\ (Install!Candidate)' = Install!Candidate /\ (Install!Target)' = Install!Target
      /\ (Install!Previous)' = Install!Previous /\ (Install!Updating)' = Install!Updating
      /\ (Install!Aside)' = Install!Aside
      /\ s4'.previous = s4.previous /\ s4'.operation = s4.operation
  BY <1>1, <1>3, SamePlanIs DEF SamePlan, Install!Aside
<1>6. Install!Rest = IF s4.operation = "rollback" THEN "snapshot" ELSE "journal"
  BY DEF Install!Rest
<1>7. Install!TypeOK'
  <2>1. s7' \in Install!Points /\ s8' \in {"ready", "idle"}
    BY <1>1, <1>6 DEF Install!Points, Install!IInv, Install!TypeOK
  <2> QED
    BY <1>1, <1>3, <2>1, TypesMay DEF Install!IInv, Install!TypeOK
<1>8. Install!PointsFit'
  BY <1>1, <1>3, <1>5, <1>6 DEF Install!IInv, Install!PointsFit, SamePlan
<1>9. ASSUME s11 = 0 PROVE Install!TreesFit' /\ Sides'
  <2>1. Install!TreesFit /\ Sides
    BY <1>9, SidesAre DEF Install!IInv
  <2>2. Install!Candidate # s4.previous
    BY <1>1, CandidateIs DEF Install!IInv
  <2>3. s7 = "written" => s5 = Install!Candidate
    BY DEF Install!IInv, Install!PointsFit
  <2>4. Install!TreesFit'
    BY <1>1, <1>5, <1>6, <2>1, <2>2, <2>3 DEF Install!TreesFit
  <2>5. Sides'
    BY <1>1, <1>3, <1>5, <2>1 DEF Sides, SamePlan
  <2> QED
    BY <2>4, <2>5
<1> QED
  BY <1>1, <1>3, <1>4, <1>7, <1>8, <1>9, PlannedKeeps

\* What a step with a plan may use.
LEMMA PlanKnown ==
  ASSUME Install!IInv, s4 # NoLock
  PROVE  /\ s4.id = s9 /\ s9 \in Install!TxIds /\ s9 \in Nat
         /\ s4.previous \in Install!Entries \cup {NoLock}
         /\ s3 \in [Install!TxIds -> Install!Trees]
         /\ s5 \in {s4.previous, Install!Candidate} /\ Install!Candidate # s4.previous
         /\ Install!Candidate \in Install!Entries
         /\ Install!Updating = (s4.previous # NoLock)
         /\ Install!Rest = IF s4.operation = "rollback" THEN "snapshot" ELSE "journal"
         /\ s11 = 0 => Install!TreesFit /\ Sides
BY PlansAre, CandidateIs, SidesAre DEF Install!IInv, Install!TypeOK, Install!Updating, Install!Rest

\* With the same journal and snapshots, everything about the plan is the same.
LEMMA SameTrees ==
  ASSUME s4 # NoLock, s4' = s4, s9' = s9, s3' = s3
  PROVE  /\ SamePlan
         /\ (Install!Candidate)' = Install!Candidate /\ (Install!Target)' = Install!Target
         /\ (Install!Previous)' = Install!Previous /\ (Install!Updating)' = Install!Updating
         /\ (Install!Aside)' = Install!Aside
BY SameJournal, SamePlanIs DEF Install!Aside

\* The staged tree is renamed to its place.
LEMMA PromotionKeeps ==
  ASSUME Install!IInv, Install!Promote
  PROVE  InstallGoal
<1>1. /\ s7 = "noted" /\ s7' = "promoted" /\ s1 = NoTree /\ s1' = s2 /\ s2' = NoTree
      /\ UNCHANGED <<s6, s3, s4, s5, s8, s9, s10, s11>>
  BY DEF Install!Promote, Install!Reach, Install!At, Install!Go
<1>2. s4 # NoLock /\ s5 = s4.previous /\ s2 = Install!Target
  BY <1>1 DEF Install!IInv, Install!PointsFit
<1>3. /\ SamePlan
      /\ (Install!Candidate)' = Install!Candidate /\ (Install!Target)' = Install!Target
      /\ (Install!Previous)' = Install!Previous /\ (Install!Updating)' = Install!Updating
      /\ (Install!Aside)' = Install!Aside
  BY <1>1, <1>2, SameTrees
<1>4. Install!TypeOK'
  <2>1. s2 \in Install!Trees /\ NoTree \in Install!Trees /\ "promoted" \in Install!Points
    BY DEF Install!IInv, Install!TypeOK, Install!Trees, Install!Points
  <2> QED
    BY <1>1, <2>1, TypesMay DEF Install!IInv, Install!TypeOK
<1>5. Install!PointsFit'
  BY <1>1, <1>2, <1>3 DEF Install!IInv, Install!PointsFit
<1>6. ASSUME s11 = 0 PROVE Install!TreesFit' /\ Sides'
  <2>1. Install!TreesFit /\ Sides /\ s5 # Install!Candidate
    BY <1>2, <1>6, PlanKnown
  <2>2. Install!TreesFit'
    BY <1>1, <1>2, <1>3, <2>1 DEF Install!TreesFit
  <2>3. Install!Updating => Install!Aside = Install!Previous
    BY <1>1, <2>1 DEF Install!TreesFit
  <2>4. Sides'
    BY <1>1, <1>2, <1>3, <2>1, <2>3 DEF Sides
  <2> QED
    BY <2>2, <2>4
<1>7. s1 # Edited
  BY <1>1, InstallAssumption
<1> QED
  BY <1>1, <1>2, <1>3, <1>4, <1>5, <1>6, <1>7, PlannedKeeps

\* The registry gets the entry of the candidate.
LEMMA CommittingKeeps ==
  ASSUME Install!IInv, Install!Commit
  PROVE  InstallGoal
<1>1. /\ s7 = "installed" /\ s7' = "written" /\ s1 = Install!Target /\ s5' = Install!Candidate
      /\ UNCHANGED <<s1, s2, s6, s3, s4, s8, s9, s10, s11>>
  BY DEF Install!Commit, Install!Reach, Install!At, Install!Go, Install!trees
<1>2. s4 # NoLock /\ s5 = s4.previous
  BY <1>1 DEF Install!IInv, Install!PointsFit
<1>3. /\ SamePlan
      /\ (Install!Candidate)' = Install!Candidate /\ (Install!Target)' = Install!Target
      /\ (Install!Previous)' = Install!Previous /\ (Install!Updating)' = Install!Updating
      /\ (Install!Aside)' = Install!Aside
  BY <1>1, <1>2, SameTrees
<1>4. Install!TypeOK'
  <2>1. "written" \in Install!Points /\ Install!Candidate \in Install!Entries
    BY <1>2, PlanKnown DEF Install!Points
  <2> QED
    BY <1>1, <2>1, TypesMay DEF Install!IInv, Install!TypeOK
<1>5. Install!PointsFit'
  BY <1>1, <1>2, <1>3 DEF Install!IInv, Install!PointsFit
<1>6. ASSUME s11 = 0 PROVE Install!TreesFit' /\ Sides'
  <2>1. Install!TreesFit /\ Sides /\ Install!Candidate # s4.previous /\ s4.id = s9
    BY <1>2, <1>6, PlanKnown
  <2>2. Install!TreesFit'
    BY <1>1, <1>2, <1>3, <2>1 DEF Install!TreesFit
  <2>3. Install!Updating => s3[s4.id] = Install!Previous
    BY <1>1, <2>1 DEF Install!TreesFit, Install!Aside
  <2>4. Held(s3, Install!Candidate)
    BY <1>2, <2>1, <2>3, CandidateIs DEF Sides, Install!IInv
  <2>5. Sides'
    BY <1>1, <1>2, <1>3, <2>1, <2>4 DEF Sides
  <2> QED
    BY <2>2, <2>5
<1> QED
  BY <1>1, <1>2, <1>3, <1>4, <1>5, <1>6, PlannedKeeps

---------------------------------------------------------------------------
(* Recovery.                                                               *)

\* The registry and the active tree say which side a transaction is on.
LEMMA SideIs ==
  ASSUME Install!IInv, s4 # NoLock
  PROVE  /\ Install!CandidateCommitted => s5 = Install!Candidate /\ s1 = Install!Target
         /\ s11 = 0 => (Install!CandidateCommitted <=> s5 = Install!Candidate)
         /\ Install!PreviousAtOutput <=> Install!Updating /\ s1 = Install!Previous
<1>1. /\ Install!Candidate \in Install!Entries /\ Install!Candidate.version = s4.target
      /\ Install!Updating => s4.target # s4.previous.version
      /\ s5 \in {s4.previous, Install!Candidate}
      /\ Install!Updating = (s4.previous # NoLock)
  BY PlanKnown, CandidateIs DEF Install!IInv
<1>2. Install!CandidateCommitted => s5 = Install!Candidate /\ s1 = Install!Target
  BY <1>1 DEF Install!CandidateCommitted
<1>3. s11 = 0 /\ s5 = Install!Candidate => Install!CandidateCommitted
  BY <1>1, PlanKnown, InstallAssumption DEF Install!CandidateCommitted, Sides
<1> QED
  BY <1>2, <1>3 DEF Install!PreviousAtOutput

\* A candidate that was committed is kept.
LEMMA KeepingKeeps ==
  ASSUME Install!IInv, Install!KeepCandidate
  PROVE  InstallGoal
<1>1. /\ s7 = "recover" /\ s7' = Install!Rest /\ s4 # NoLock /\ s2' = NoTree
      /\ UNCHANGED <<s1, s6, s3, s4, s5, s8, s9, s10, s11>>
      /\ Install!CandidateCommitted
  BY DEF Install!KeepCandidate, Install!At, Install!Go
<1>2. s5 = Install!Candidate /\ s1 = Install!Target /\ Install!Candidate # s4.previous
      /\ Install!Rest = IF s4.operation = "rollback" THEN "snapshot" ELSE "journal"
  BY <1>1, SideIs, PlanKnown
<1>3. /\ SamePlan
      /\ (Install!Candidate)' = Install!Candidate /\ (Install!Target)' = Install!Target
      /\ (Install!Previous)' = Install!Previous /\ (Install!Updating)' = Install!Updating
      /\ (Install!Aside)' = Install!Aside
  BY <1>1, SameTrees
<1>4. Install!TypeOK'
  <2>1. NoTree \in Install!Trees /\ s7' \in Install!Points
    BY <1>1, <1>2 DEF Install!Trees, Install!Points
  <2> QED
    BY <1>1, <2>1, TypesMay DEF Install!IInv, Install!TypeOK
<1>5. Install!PointsFit'
  BY <1>1, <1>2, <1>3 DEF Install!IInv, Install!PointsFit
<1>6. ASSUME s11 = 0 PROVE Install!TreesFit' /\ Sides'
  <2>1. Sides
    BY <1>1, <1>6, PlanKnown
  <2>2. Install!TreesFit'
    BY <1>1, <1>2, <1>3 DEF Install!TreesFit
  <2>3. Sides'
    BY <1>1, <1>2, <1>3, <2>1 DEF Sides
  <2> QED
    BY <2>2, <2>3
<1> QED
  BY <1>1, <1>2, <1>3, <1>4, <1>5, <1>6, PlannedKeeps

\* The previous tree is there already.
LEMMA PreviousKept ==
  ASSUME Install!IInv, Install!KeepPrevious
  PROVE  InstallGoal
<1>1. /\ s7 = "recover" /\ s7' = "resetspare" /\ s4 # NoLock
      /\ UNCHANGED <<s1, s2, s6, s3, s4, s5, s8, s9, s10, s11>>
      /\ ~Install!CandidateCommitted /\ Install!PreviousAtOutput
  BY DEF Install!KeepPrevious, Install!Reach, Install!At, Install!Go, Install!trees
<1>2. /\ s5 \in {s4.previous, Install!Candidate} /\ s1 = Install!Previous
      /\ s11 = 0 => s5 = s4.previous /\ s5 # Install!Candidate
  BY <1>1, SideIs, PlanKnown
<1>3. /\ SamePlan
      /\ (Install!Candidate)' = Install!Candidate /\ (Install!Target)' = Install!Target
      /\ (Install!Previous)' = Install!Previous /\ (Install!Updating)' = Install!Updating
      /\ (Install!Aside)' = Install!Aside
  BY <1>1, SameTrees
<1>4. Install!TypeOK'
  <2>1. s7' \in Install!Points
    BY <1>1 DEF Install!Points
  <2> QED
    BY <1>1, <2>1, TypesMay DEF Install!IInv, Install!TypeOK
<1>5. Install!PointsFit'
  BY <1>1, <1>2, <1>3 DEF Install!IInv, Install!PointsFit
<1>6. ASSUME s11 = 0 PROVE Install!TreesFit' /\ Sides'
  <2>1. Sides
    BY <1>1, <1>6, PlanKnown
  <2>2. Install!TreesFit'
    BY <1>1, <1>2, <1>3, <1>6 DEF Install!TreesFit
  <2>3. Sides'
    BY <1>1, <1>3, <2>1 DEF Sides
  <2> QED
    BY <2>2, <2>3
<1> QED
  BY <1>1, <1>2, <1>3, <1>4, <1>5, <1>6, PlannedKeeps

\* The candidate is removed from the place of the skill.
LEMMA RemovingKeeps ==
  ASSUME Install!IInv, Install!RemoveCandidate
  PROVE  InstallGoal
<1>1. /\ s7 = "recover" /\ s4 # NoLock
      /\ UNCHANGED <<s2, s6, s3, s4, s5, s8, s9, s10, s11>>
      /\ ~Install!CandidateCommitted /\ ~Install!PreviousAtOutput /\ ~Install!Refused
      /\ s7' = IF s1' = NoTree THEN "putback" ELSE "clear"
      /\ s1' = IF s1 \notin {NoTree, Partial} THEN Partial ELSE NoTree
  BY DEF Install!RemoveCandidate, Install!At, Install!Go, Install!Shrunk
<1>2. /\ s5 \in {s4.previous, Install!Candidate} /\ s1 \in {NoTree, Install!Previous, Install!Target}
      /\ s11 = 0 => s5 = s4.previous /\ s5 # Install!Candidate
      /\ Install!Updating => ~s6 /\ Install!Aside = Install!Previous
  <2>1. /\ s5 \in {s4.previous, Install!Candidate} /\ Install!Candidate # s4.previous
        /\ s11 = 0 => s5 # Install!Candidate
    BY <1>1, SideIs, PlanKnown
  <2>2. /\ s1 \in {NoTree, Install!Previous, Install!Target}
        /\ Install!Updating => ~s6 /\ Install!Aside = Install!Previous
    BY <1>1 DEF Install!Refused
  <2> QED
    BY <2>1, <2>2
<1>3. /\ SamePlan
      /\ (Install!Candidate)' = Install!Candidate /\ (Install!Target)' = Install!Target
      /\ (Install!Previous)' = Install!Previous /\ (Install!Updating)' = Install!Updating
      /\ (Install!Aside)' = Install!Aside
  BY <1>1, SameTrees
<1>4. Install!TypeOK'
  <2>1. s7' \in Install!Points /\ s1' \in Install!Trees
    BY <1>1 DEF Install!Points, Install!Trees
  <2> QED
    BY <1>1, <2>1, TypesMay DEF Install!IInv, Install!TypeOK
<1>5. Install!PointsFit'
  <2>1. s7' = "clear" => s1' = Partial
    BY <1>1
  <2>2. s7' \in {"clear", "putback"}
    BY <1>1
  <2> QED
    BY <1>1, <1>2, <1>3, <2>1, <2>2 DEF Install!IInv, Install!PointsFit
<1>6. ASSUME s11 = 0 PROVE Install!TreesFit' /\ Sides'
  <2>1. Sides
    BY <1>1, <1>6, PlanKnown
  <2>2. Install!TreesFit'
    BY <1>1, <1>2, <1>6 DEF Install!TreesFit
  <2>3. Sides'
    BY <1>1, <1>2, <1>3, <1>6, <2>1 DEF Sides
  <2> QED
    BY <2>2, <2>3
<1>7. s1 # Edited
  BY <1>1, <1>2, TreesAre, InstallAssumption DEF Install!IInv
<1> QED
  BY <1>1, <1>2, <1>3, <1>4, <1>5, <1>6, <1>7, PlannedKeeps

\* The rest of it is removed.
LEMMA ClearingKeeps ==
  ASSUME Install!IInv, Install!ClearRest
  PROVE  InstallGoal
<1>1. /\ s7 = "clear" /\ s7' = "putback" /\ s4 # NoLock /\ s1 = Partial /\ s1' = NoTree
      /\ UNCHANGED <<s2, s6, s3, s4, s5, s8, s9, s10, s11>>
  BY DEF Install!ClearRest, Install!Reach, Install!At, Install!Go, Install!IInv, Install!PointsFit
<1>2. /\ s5 \in {s4.previous, Install!Candidate} /\ (s5 = s4.previous => s5 # Install!Candidate)
      /\ Install!Updating => ~s6 /\ Install!Aside = Install!Previous
  BY <1>1, PlanKnown DEF Install!IInv, Install!PointsFit
<1>3. /\ SamePlan
      /\ (Install!Candidate)' = Install!Candidate /\ (Install!Target)' = Install!Target
      /\ (Install!Previous)' = Install!Previous /\ (Install!Updating)' = Install!Updating
      /\ (Install!Aside)' = Install!Aside
  BY <1>1, SameTrees
<1>4. Install!TypeOK'
  <2>1. s7' \in Install!Points /\ s1' \in Install!Trees
    BY <1>1 DEF Install!Points, Install!Trees
  <2> QED
    BY <1>1, <2>1, TypesMay DEF Install!IInv, Install!TypeOK
<1>5. Install!PointsFit'
  BY <1>1, <1>2, <1>3 DEF Install!IInv, Install!PointsFit
<1>6. ASSUME s11 = 0 PROVE Install!TreesFit' /\ Sides'
  <2>1. Sides /\ s5 = s4.previous
    BY <1>1, <1>6, PlanKnown DEF Install!TreesFit
  <2>2. Install!TreesFit'
    BY <1>1, <2>1 DEF Install!TreesFit
  <2>3. Sides'
    BY <1>1, <1>2, <1>3, <2>1 DEF Sides
  <2> QED
    BY <2>2, <2>3
<1>7. s1 # Edited
  BY <1>1, InstallAssumption
<1> QED
  BY <1>1, <1>2, <1>3, <1>4, <1>5, <1>6, <1>7, PlannedKeeps

\* The previous tree comes back from its snapshot.
LEMMA PuttingBackKeeps ==
  ASSUME Install!IInv, Install!PutBack
  PROVE  InstallGoal
<1>1. /\ s7 = "putback" /\ s7' = "reset" /\ s4 # NoLock
      /\ UNCHANGED <<s2, s6, s4, s5, s8, s9, s10, s11>>
      /\ Install!Updating => s1 = NoTree
      /\ IF Install!Updating
         THEN s1' = Install!Aside /\ s3' = [s3 EXCEPT ![s4.id] = NoTree]
         ELSE s1' = s1 /\ s3' = s3
  BY DEF Install!PutBack, Install!Reach, Install!At, Install!Go, Install!IInv, Install!PointsFit
<1>2. /\ s5 \in {s4.previous, Install!Candidate} /\ (s5 = s4.previous => s5 # Install!Candidate)
      /\ Install!Updating => ~s6 /\ Install!Aside = Install!Previous
      /\ s4.id = s9 /\ s9 \in Install!TxIds /\ s9 \in Nat /\ s3 \in [Install!TxIds -> Install!Trees]
      /\ s4.previous \in Install!Entries \cup {NoLock} /\ Install!Updating = (s4.previous # NoLock)
  BY <1>1, PlanKnown DEF Install!IInv, Install!PointsFit
<1>3. /\ SamePlan
      /\ (Install!Candidate)' = Install!Candidate /\ (Install!Target)' = Install!Target
      /\ (Install!Previous)' = Install!Previous /\ (Install!Updating)' = Install!Updating
      /\ (Install!Aside)' = NoTree
  BY <1>1, <1>2, SameJournal, SamePlanIs
<1>4. Install!TypeOK'
  <2>1. NoTree \in Install!Trees
    BY DEF Install!Trees
  <2>2. s3' \in [Install!TxIds -> Install!Trees]
    BY <1>1, <1>2, <2>1
  <2>3. Install!Updating => Install!Aside \in Install!Trees
    BY <1>1, <1>2, TreesAre DEF Install!IInv, Install!Trees
  <2>4. s7' \in Install!Points
    BY <1>1 DEF Install!Points
  <2> QED
    BY <1>1, <2>2, <2>3, <2>4, TypesMay DEF Install!IInv, Install!TypeOK
<1>5. Install!PointsFit'
  <2>1. \A t \in Install!TxIds : t > s9 => s3[t] = NoTree
    BY DEF Install!IInv, Install!PointsFit
  <2>2. \A t \in Install!TxIds : t > s9 => s3'[t] = NoTree
    BY <1>1, <1>2, <2>1
  <2> QED
    BY <1>1, <1>2, <1>3, <2>2 DEF Install!PointsFit
<1>6. ASSUME s11 = 0 PROVE Install!TreesFit' /\ Sides'
  <2>1. Sides /\ s5 = s4.previous /\ s1 = NoTree
    BY <1>1, <1>6, PlanKnown DEF Install!TreesFit
  <2>2. s1' = Install!Previous
    BY <1>1, <1>2, <2>1, TreesAre DEF Install!IInv
  <2>3. Install!TreesFit'
    BY <1>1, <1>3, <2>1, <2>2 DEF Install!TreesFit
  <2>4. Held(s3', s5)
    <3>1. CASE ~Install!Updating
      BY <1>1, <2>1, <3>1 DEF Sides
    <3>2. CASE Install!Updating
      <4>1. \A i \in 1 .. Len(s5.history) : s5.history[i].id # s9
        BY <1>1, <1>2, <2>1, <3>2, SnapshotIsNew DEF Install!IInv
      <4>2. \E t : s3' = [s3 EXCEPT ![s9] = t]
        BY <1>1, <1>2, <3>2
      <4>3. Install!TypeOK /\ s5 \in Install!Entries \cup {NoLock} /\ Held(s3, s5)
        BY <1>2, <2>1 DEF Install!IInv, Sides
      <4> QED
        BY <4>1, <4>2, <4>3, HeldStays
    <3> QED
      BY <3>1, <3>2
  <2>5. Sides'
    <3>1. Install!Updating \/ Install!Previous = NoTree
      BY <1>1, TreesAre DEF Install!IInv
    <3> QED
      BY <1>1, <1>2, <1>3, <2>1, <2>2, <2>4, <3>1 DEF Sides
  <2> QED
    BY <2>3, <2>5
<1>7. Install!IInv'
  <2>1. Install!PlanIsSound'
    BY <1>1, <1>2, <1>3, PlanStays DEF Install!IInv
  <2> QED
    BY <1>1, <1>4, <1>5, <1>6, <2>1, SidesAre DEF Install!IInv
<1>8. s1' # s1 => ~s6 /\ s1' = Install!Previous /\ s1 # Edited
  BY <1>1, <1>2, InstallAssumption
<1> QED
  BY <1>1, <1>7, <1>8 DEF InstallGoal, Install!CommitIsFinalStep, Install!RecoveryNeverPromotesStep,
     Install!EditsSurviveStep, Install!At

\* The registry gets the previous entry back.
LEMMA ResettingKeeps ==
  ASSUME Install!IInv, Install!ResetRegistry
  PROVE  InstallGoal
<1>1. /\ s4 # NoLock /\ s2' = NoTree /\ s5' = s4.previous
      /\ UNCHANGED <<s1, s6, s3, s4, s8, s9, s10, s11>>
      /\ \/ s7 = "reset" /\ s7' = "journal"
         \/ s7 = "resetspare" /\ s7' = "spare"
  BY DEF Install!ResetRegistry, Install!Reach, Install!At, Install!Go, Install!IInv, Install!PointsFit
<1>2. /\ Install!Candidate # s4.previous /\ s4.previous \in Install!Entries \cup {NoLock}
      /\ s11 = 0 => Install!TreesFit /\ Sides
  BY <1>1, PlanKnown
<1>3. /\ SamePlan
      /\ (Install!Candidate)' = Install!Candidate /\ (Install!Target)' = Install!Target
      /\ (Install!Previous)' = Install!Previous /\ (Install!Updating)' = Install!Updating
      /\ (Install!Aside)' = Install!Aside
  BY <1>1, SameTrees
<1>4. Install!TypeOK'
  <2>1. s7' \in Install!Points /\ NoTree \in Install!Trees
    BY <1>1 DEF Install!Points, Install!Trees
  <2> QED
    BY <1>1, <1>2, <2>1, TypesMay DEF Install!IInv, Install!TypeOK
<1>5. Install!PointsFit'
  BY <1>1, <1>3 DEF Install!IInv, Install!PointsFit
<1>6. ASSUME s11 = 0 PROVE Install!TreesFit' /\ Sides' /\ s5 = s4.previous
  <2>1. Sides /\ s5 = s4.previous /\ s1 = Install!Previous
    BY <1>1, <1>2, <1>6 DEF Install!TreesFit
  <2>2. Install!TreesFit'
    BY <1>1, <1>3, <2>1 DEF Install!TreesFit
  <2>3. Sides'
    BY <1>1, <1>2, <1>3, <2>1 DEF Sides
  <2> QED
    BY <2>1, <2>2, <2>3
<1> QED
  BY <1>1, <1>3, <1>4, <1>5, <1>6, PlannedKeeps

---------------------------------------------------------------------------
(* Removals.                                                               *)

\* A snapshot that is no longer needed is removed, or half of it.
LEMMA DroppingKeeps ==
  ASSUME Install!IInv, s4 # NoLock, NEW id,
         UNCHANGED <<s1, s2, s4, s5, s6, s8, s9, s10, s11>>,
         s3' = IF id \in Install!TxIds THEN [s3 EXCEPT ![id] = Install!Shrunk(@)] ELSE s3,
         \/ s7 = "spare" /\ s7' \in {"spare", "journal"} /\ id = IF Install!Updating THEN s9 ELSE 0
         \/ s7 = "snapshot" /\ s7' \in {"snapshot", "source"} /\ id = s9
         \/ s7 = "source" /\ s7' \in {"source", "journal"} /\ id = s4.source
  PROVE  InstallGoal
<1>1. /\ s5 \in {s4.previous, Install!Candidate} /\ Install!Candidate # s4.previous
      /\ Install!Candidate \in Install!Entries /\ s4.previous \in Install!Entries \cup {NoLock}
      /\ s4.id = s9 /\ s9 \in Install!TxIds /\ s9 \in Nat /\ 0 \notin Install!TxIds
      /\ s3 \in [Install!TxIds -> Install!Trees]
      /\ Install!Updating = (s4.previous # NoLock)
      /\ s11 = 0 => Install!TreesFit /\ Sides
  BY PlanKnown DEF Install!TxIds
<1>2. /\ SamePlan
      /\ (Install!Candidate)' = Install!Candidate /\ (Install!Target)' = Install!Target
      /\ (Install!Previous)' = Install!Previous /\ (Install!Updating)' = Install!Updating
      /\ (Install!Aside)' = IF Install!Updating THEN s3'[s9] ELSE NoTree
  BY <1>1, SameJournal, SamePlanIs
<1>3. /\ \A t : t = NoTree => Install!Shrunk(t) = NoTree
      /\ \A t : Install!Shrunk(t) \in {NoTree, Partial}
  BY DEF Install!Shrunk
<1>4. /\ s3' \in [Install!TxIds -> Install!Trees]
      /\ s3' = s3 \/ \E t : s3' = [s3 EXCEPT ![id] = t]
      /\ \A t \in Install!TxIds : s3'[t] = IF t = id THEN Install!Shrunk(s3[t]) ELSE s3[t]
  <2>1. CASE id \in Install!TxIds
    <3>1. Install!Shrunk(s3[id]) \in Install!Trees
      BY <1>3 DEF Install!Trees
    <3>2. s3' = [s3 EXCEPT ![id] = Install!Shrunk(s3[id])]
      BY <2>1
    <3> QED
      BY <1>1, <2>1, <3>1, <3>2
  <2>2. CASE id \notin Install!TxIds
    BY <1>1, <2>2
  <2> QED
    BY <2>1, <2>2
<1>5. Install!TypeOK'
  <2>1. s7' \in Install!Points
    BY DEF Install!Points
  <2> QED
    BY <1>4, <2>1, TypesMay DEF Install!IInv, Install!TypeOK
<1>6. Install!PointsFit'
  <2>1. \A t \in Install!TxIds : t > s9 => s3'[t] = NoTree
    BY <1>3, <1>4 DEF Install!IInv, Install!PointsFit
  <2>2. s7' \in {"source", "snapshot"} => s5 = Install!Candidate /\ s4.operation = "rollback"
    BY DEF Install!IInv, Install!PointsFit
  <2> QED
    BY <1>2, <2>1, <2>2 DEF Install!PointsFit
<1>7. ASSUME s11 = 0 PROVE Install!TreesFit' /\ Sides'
  <2>1. Install!TypeOK /\ Install!PlanIsSound /\ Held(s3, s5) /\ s5 \in Install!Entries \cup {NoLock}
    BY <1>1, <1>7 DEF Install!IInv, Sides
  <2>2. CASE s7 = "spare"
    <3>1. s5 = s4.previous /\ s1 = Install!Previous
      BY <1>1, <1>7, <2>2 DEF Install!TreesFit
    <3>2. Install!TreesFit'
      BY <1>2, <2>2, <3>1 DEF Install!TreesFit
    <3>3. s5 # NoLock => \A i \in 1 .. Len(s5.history) : s5.history[i].id # id
      BY <1>1, <2>1, <2>2, <3>1, SnapshotIsNew
    <3>4. Held(s3', s5)
      BY <1>4, <2>1, <3>3, HeldStays
    <3>5. Install!Updating => s3'[s9] \in {NoTree, Partial}
      BY <1>1, <1>3, <1>4, <2>2
    <3>6. ~Install!Updating => Install!Previous = NoTree
      BY <2>1, TreesAre
    <3>7. Sides'
      BY <1>1, <1>2, <3>1, <3>4, <3>5, <3>6 DEF Sides
    <3> QED
      BY <3>2, <3>7
  <2>3. CASE s7 \in {"snapshot", "source"}
    <3>1. s5 = Install!Candidate /\ s4.operation = "rollback"
      BY <2>3 DEF Install!IInv, Install!PointsFit
    <3>2. s1 = Install!Target
      BY <1>1, <1>7, <3>1 DEF Sides
    <3>3. Install!TreesFit'
      BY <1>1, <1>2, <2>3, <3>1 DEF Install!TreesFit
    <3>4. \A i \in 1 .. Len(s5.history) : s5.history[i].id # id
      BY <1>1, <2>1, <2>3, <3>1, CandidateIs
    <3>5. Held(s3', s5)
      BY <1>4, <2>1, <3>4, HeldStays
    <3>6. Sides'
      BY <1>1, <1>2, <3>1, <3>2, <3>5 DEF Sides
    <3> QED
      BY <3>3, <3>6
  <2> QED
    BY <2>2, <2>3
<1>8. s5' \in {s4.previous, Install!Candidate} /\ s5' = s5 /\ s1' = s1 /\ s11' = s11
  BY <1>1
<1> QED
  BY <1>2, <1>5, <1>6, <1>7, <1>8, PlannedKeeps

\* The three of them.
LEMMA RemovalsKeep ==
  ASSUME Install!IInv, Install!DropSpare \/ Install!DropSnapshot \/ Install!DropSource
  PROVE  InstallGoal
<1>1. ASSUME NEW p, NEW q, NEW id, Install!Drop(p, id, q)
      PROVE  /\ UNCHANGED <<s1, s2, s4, s5, s6, s8, s9, s10, s11>> /\ s7 = p /\ s7' \in {p, q}
             /\ s3' = IF id \in Install!TxIds THEN [s3 EXCEPT ![id] = Install!Shrunk(@)] ELSE s3
  BY <1>1 DEF Install!Drop, Install!At, Install!Go
<1>2. s7 \in {"spare", "snapshot", "source"} => s4 # NoLock /\ s4.id = s9
  BY PlanKnown DEF Install!IInv, Install!PointsFit
<1>3. CASE Install!DropSpare
  <2> DEFINE id == IF Install!Updating THEN s4.id ELSE 0
  <2>1. Install!Drop("spare", id, "journal")
    BY <1>3 DEF Install!DropSpare
  <2>2. s7 = "spare" /\ id = IF Install!Updating THEN s9 ELSE 0
    BY <1>1, <1>2, <2>1
  <2> HIDE DEF id
  <2> QED
    BY <1>1, <1>2, <2>1, <2>2, DroppingKeeps
<1>4. CASE Install!DropSnapshot
  <2>1. Install!Drop("snapshot", s4.id, "source")
    BY <1>4 DEF Install!DropSnapshot
  <2> QED
    BY <1>1, <1>2, <2>1, DroppingKeeps
<1>5. CASE Install!DropSource
  <2>1. Install!Drop("source", s4.source, "journal")
    BY <1>5 DEF Install!DropSource
  <2> QED
    BY <1>1, <1>2, <2>1, DroppingKeeps
<1> QED
  BY <1>3, <1>4, <1>5

\* The journal goes last.
LEMMA EndingKeeps ==
  ASSUME Install!IInv, Install!DropJournal
  PROVE  InstallGoal
<1>1. /\ s7 = "journal" /\ s4 # NoLock /\ s4' = NoLock /\ s7' = s8 /\ s7' \in {"ready", "idle"}
      /\ UNCHANGED <<s1, s2, s3, s5, s6, s8, s9, s10, s11>>
  BY DEF Install!DropJournal, Install!At, Install!Go, Install!trees, Install!IInv, Install!PointsFit,
     Install!TypeOK
<1>2. Install!PlanIsSound'
  BY <1>1, PlanEnds DEF Install!IInv
<1>3. Install!TypeOK'
  <2>1. s7' \in Install!Points
    BY <1>1 DEF Install!Points
  <2> QED
    BY <1>1, <2>1, TypesMay DEF Install!IInv, Install!TypeOK
<1>4. Install!PointsFit'
  BY <1>1 DEF Install!IInv, Install!PointsFit
<1>5. ASSUME s11 = 0 PROVE Install!TreesFit' /\ Sides'
  <2>1. Install!TreesFit /\ Sides /\ s5 \in {s4.previous, Install!Candidate}
    BY <1>1, <1>5, PlanKnown
  <2>2. Install!TreesFit'
    BY <1>1 DEF Install!TreesFit
  <2>3. s1 = IF s5 = NoLock THEN NoTree ELSE BytesOf[s5.version]
    <3>1. CASE s5 = s4.previous
      BY <1>1, <2>1, <3>1 DEF Install!TreesFit, Install!Previous
    <3>2. CASE s5 = Install!Candidate
      <4>1. Install!Candidate.version = s4.target /\ Install!Candidate \in Install!Entries
        BY <1>1, CandidateIs DEF Install!IInv
      <4> QED
        BY <1>1, <2>1, <3>2, <4>1, InstallAssumption DEF Sides, Install!Target
    <3> QED
      BY <2>1, <3>1, <3>2
  <2>4. Sides'
    BY <1>1, <2>1, <2>3 DEF Sides
  <2> QED
    BY <2>2, <2>4
<1>6. Install!IInv'
  BY <1>1, <1>2, <1>3, <1>4, <1>5, SidesAre DEF Install!IInv
<1> QED
  BY <1>1, <1>6 DEF InstallGoal, Install!CommitIsFinalStep, Install!RecoveryNeverPromotesStep,
     Install!EditsSurviveStep

\* The user changes the active tree.
LEMMA EditingKeeps ==
  ASSUME Install!IInv, Install!UserEdits
  PROVE  InstallGoal
<1>1. /\ UNCHANGED <<s2, s3, s4, s5, s6, s7, s8, s9, s10>> /\ s1 # Partial
      /\ s1' \in Install!Packages \cup {Edited, NoTree}
      /\ s11' = s11 + 1 /\ s11 < MaxEdits /\ s11 \in 0 .. MaxEdits
  BY DEF Install!UserEdits, Install!IInv, Install!TypeOK
<1>2. s11' \in 0 .. MaxEdits /\ s11' # 0 /\ s11' # s11
  BY <1>1, InstallAssumption
<1>3. Install!TypeOK'
  <2>1. s1' \in Install!Trees
    BY <1>1 DEF Install!Trees
  <2> QED
    BY <1>1, <1>2, <2>1, TypesMay DEF Install!IInv, Install!TypeOK
<1>4. Install!PlanIsSound' /\ Install!PointsFit'
  <2>1. s7 # "clear"
    BY <1>1 DEF Install!IInv, Install!PointsFit
  <2>2. CASE s4 = NoLock
    <3>1. Install!PlanIsSound'
      BY <1>1, <2>2, PlanEnds DEF Install!IInv
    <3> QED
      BY <1>1, <2>2, <3>1 DEF Install!IInv, Install!PointsFit
  <2>3. CASE s4 # NoLock
    <3>1. /\ SamePlan
          /\ (Install!Candidate)' = Install!Candidate /\ (Install!Target)' = Install!Target
          /\ (Install!Previous)' = Install!Previous /\ (Install!Updating)' = Install!Updating
          /\ (Install!Aside)' = Install!Aside
      BY <1>1, <2>3, SameTrees
    <3>2. s5' \in {s4.previous, Install!Candidate}
      BY <1>1, <2>3, PlanKnown
    <3>3. Install!PlanIsSound'
      BY <3>1, <3>2, PlanStays DEF Install!IInv
    <3> QED
      BY <1>1, <2>1, <3>1, <3>3 DEF Install!IInv, Install!PointsFit
  <2> QED
    BY <2>2, <2>3
<1>5. Install!IInv'
  BY <1>2, <1>3, <1>4 DEF Install!IInv
<1>6. s5' = s5 /\ s11' # s11
  BY <1>1, <1>2
<1> QED
  BY <1>5, <1>6 DEF InstallGoal, Install!CommitIsFinalStep, Install!RecoveryNeverPromotesStep,
     Install!EditsSurviveStep

---------------------------------------------------------------------------
(* Theorems.                                                               *)

\* Every step keeps the invariant and does what the properties of steps say.
LEMMA InstallKept ==
  ASSUME Install!IInv, Install!Next \/ UNCHANGED Install!vars
  PROVE  InstallGoal
<1>1. CASE UNCHANGED Install!vars
  <2>1. Install!IInv'
    BY <1>1 DEF Install!vars, Install!IInv, Install!TypeOK, Install!PlanIsSound, Install!PointsFit,
       Install!TreesFit, Install!BothSidesHold, Install!InOrder, Install!Candidate, Install!Snapshot,
       Install!Updating, Install!Aside, Install!Previous, Install!Target, Install!Last, Install!Front
  <2> QED
    BY <1>1, <2>1 DEF Install!vars, InstallGoal, Install!CommitIsFinalStep,
       Install!RecoveryNeverPromotesStep, Install!EditsSurviveStep
<1>2. CASE Install!Transaction
  <2>1. ASSUME \E v \in DOMAIN BytesOf : Install!PrepareInstall(v) PROVE InstallGoal
    BY <2>1, PlansKeep DEF SkillVersions
  <2> QED
    BY <1>2, <2>1, PlansKeep, MovingKeeps, NotingKeeps, QuietSteps, PromotionKeeps, CommittingKeeps
       DEF Install!Transaction
<1>3. CASE Install!Recovery
  BY <1>3, QuietSteps, KeepingKeeps, PreviousKept, RemovingKeeps, ClearingKeeps, PuttingBackKeeps,
     ResettingKeeps DEF Install!Recovery
<1>4. CASE Install!Removals
  BY <1>4, RemovalsKeep, EndingKeeps DEF Install!Removals
<1>5. CASE Install!Begin \/ Install!Leave \/ Install!Throw \/ Install!Stop \/ Install!Enroll
  BY <1>5, QuietSteps
<1>6. CASE Install!UserEdits
  BY <1>6, EditingKeeps
<1> QED
  BY <1>1, <1>2, <1>3, <1>4, <1>5, <1>6 DEF Install!Next, Install!Command

\* The invariant in the specification of all the protocols.
InstallInv == part = "install" => Install!IInv

\* It always holds.
LEMMA InstallInvHolds == Spec => []InstallInv
<1>1. Init => InstallInv
  BY InstallInit DEF Init, InstallInv
<1>2. InstallInv /\ [Next]_vars => InstallInv'
  <2> SUFFICES ASSUME InstallInv, [Next]_vars, part' = "install"
               PROVE  Install!IInv'
    BY DEF InstallInv
  <2>1. part = "install"
    BY DEF Next, vars, Submission, Authoring, Importing, Adopting, Checking, Improving, Reporting,
       RootLocking, Installing
  <2> QED
    BY <2>1, InstallSteps, InstallKept DEF InstallInv, InstallGoal
<1> QED
  BY <1>1, <1>2, PTL DEF Spec

\* What is installed is what the registry names, whatever was stopped where; what history
\* offers can be gone back to; until a transaction is through, the tree it replaces is on
\* the disk; and outside of managed workspaces no recovery is refused but of a torn tree.
\* While the user edits no tree, for any versions, and any number of transactions and stops.
THEOREM InstallationsStayRecoverable == Spec => []InstallationIsRecoverable
<1>1. InstallInv => InstallationIsRecoverable
  <2> SUFFICES ASSUME Install!IInv, part = "install"
               PROVE  /\ Install!TreeMatchesRegistry /\ Install!HistoryIsBacked
                      /\ Install!PreviousIsKept /\ Install!RecoveryConvergesUnlessTorn
    BY DEF InstallInv, InstallationIsRecoverable
  <2>1. Install!TreeMatchesRegistry /\ Install!HistoryIsBacked
    BY DEF Install!IInv, Install!BothSidesHold, Install!Settled, Install!TreeMatchesRegistry,
       Install!HistoryIsBacked
  <2>2. ASSUME s4 # NoLock, s11 = 0, ~Install!CandidateCommitted
        PROVE  \/ Install!Updating /\ s1 = Install!Previous
                    /\ Install!Aside \in {NoTree, Partial, Install!Previous}
               \/ (Install!Updating => Install!Aside = Install!Previous)
                    /\ s1 \in {NoTree, Partial, Install!Target}
    <3>1. /\ s5 \in {s4.previous, Install!Candidate} /\ Sides
          /\ s5 # Install!Candidate
      BY <2>2, PlanKnown, SideIs
    <3> QED
      BY <2>2, <3>1 DEF Sides
  <2>3. Install!PreviousIsKept
    BY <2>2 DEF Install!PreviousIsKept
  <2>4. ASSUME s4 # NoLock, s11 = 0, ~s6, Partial \notin {s1, Install!Aside}, Install!Refused
        PROVE  FALSE
    <3>1. ~Install!CandidateCommitted
      BY <2>4 DEF Install!Refused
    <3>2. ~Install!Updating => Install!Aside = NoTree
      BY DEF Install!Aside
    <3>3. Install!PreviousAtOutput <=> Install!Updating /\ s1 = Install!Previous
      BY DEF Install!PreviousAtOutput
    <3>4. Install!Updating => Install!Previous # NoTree
      BY <2>4, TreesAre DEF Install!IInv
    <3> QED
      BY <2>2, <2>4, <3>1, <3>2, <3>3, <3>4 DEF Install!Refused
  <2>5. Install!RecoveryConvergesUnlessTorn
    BY <2>4 DEF Install!RecoveryConvergesUnlessTorn, Install!RecoveryConverges, Install!Torn
  <2> QED
    BY <2>1, <2>3, <2>5
<1> QED
  BY <1>1, InstallInvHolds, PTL

\* What the registry has committed is never undone, recovery puts nothing in place but the
\* previous tree, and no step of a command touches what the user has edited.
THEOREM RecoveryStaysOnItsSide == Spec => RecoveryKeepsItsSide
<1>1. InstallInv /\ [Next]_vars =>
        [part = "install" => /\ Install!CommitIsFinalStep /\ Install!RecoveryNeverPromotesStep
                             /\ Install!EditsSurviveStep]_vars
  BY InstallSteps, InstallKept DEF InstallInv, InstallGoal
<1> QED
  BY <1>1, InstallInvHolds, PTL DEF Spec, RecoveryKeepsItsSide

===============================================================================
