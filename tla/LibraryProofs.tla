---------------------------- MODULE LibraryProofs ----------------------------
(***************************************************************************)
(* What holds of libraries for every number of sources, snapshots, checks, *)
(* curators and adoptions, and of the journals of improvement runs for any *)
(* requests and events: the properties MCRegistry checks on a small        *)
(* instance, as theorems; and the types of all its protocols.              *)
(***************************************************************************)
EXTENDS RegistryProofs, FiniteSetTheorems, WellFoundedInduction

---------------------------------------------------------------------------
(* Imports.                                                                *)

\* While sources are imported, a step is one of theirs or changes nothing of theirs.
LEMMA ImpSteps ==
  ASSUME part = "imports", [Next]_vars
  PROVE  Imp!Next \/ UNCHANGED Imp!vars
BY DEF Next, vars, Imp!vars, Submission, Authoring, Importing, Adopting, Checking, Improving,
       Reporting, RootLocking, Installing

\* Candidates and their states.
CandStates == {"ready-for-review", "accepted", "ignored", "superseded", "expired"}
Cand == [entry : Twins, snap : DOMAIN s3, prior : Nat, order : Imp!Orders, state : CandStates]

\* The candidates are counted as finite sets are.
LEMMA ImpCounts == \A S : Imp!Cardinality(S) = Cardinality(S)
BY DEF Imp!Cardinality, Cardinality

\* Nothing is proposed at the start.
LEMMA ImpInit == Imp!Init => Imp!IInv
<1> SUFFICES ASSUME Imp!Init PROVE Imp!IInv
  OBVIOUS
<1>1. /\ s1 = Twins /\ s2 = {} /\ s3 = <<>> /\ s5 = <<>>
      /\ s4.revision = 0 /\ s4.head = 0
      /\ s6 = [b \in Twins \X Imp!Calls |-> Imp!NoBuild]
  BY DEF Imp!Init
<1>2. DOMAIN s3 = {} /\ DOMAIN s5 = {} /\ Len(s3) = 0
  BY <1>1
<1>3. Imp!TypeOK
  BY <1>1, <1>2 DEF Imp!TypeOK
<1>4. Imp!Accepted = {}
  BY <1>2 DEF Imp!Accepted
<1>5. Imp!RevisionsAreImports
  <2>1. Imp!Cardinality({}) = 0
    BY FS_EmptySet, ImpCounts
  <2>2. {s5[c].prior : c \in {}} = 0 .. (0 - 1)
    OBVIOUS
  <2> QED
    BY <1>1, <1>4, <2>1, <2>2 DEF Imp!RevisionsAreImports
<1> QED
  BY <1>1, <1>2, <1>3, <1>5 DEF Imp!IInv, Imp!NumbersFit, Imp!CountsOnce, Imp!OrdersAreCurrent,
     Imp!RemovedSourcesProposeNothing

\* The elements of a sequence.
LEMMA SeqElements ==
  ASSUME NEW T, NEW seq \in Seq(T)
  PROVE  \A i \in DOMAIN seq : seq[i] \in T
OBVIOUS

\* The rows as the invariant has them.
LEMMA ImpRows ==
  ASSUME Imp!IInv
  PROVE  /\ IsSeq(s3) /\ IsSeq(s5) /\ s5 \in Seq(Cand)
         /\ Len(s3) \in Nat /\ DOMAIN s3 = 1 .. Len(s3)
         /\ Len(s5) \in Nat /\ DOMAIN s5 = 1 .. Len(s5)
         /\ \A s \in DOMAIN s3 : s3[s] \in [entry : Twins, commit : 1 .. MaxCommit]
         /\ \A s \in DOMAIN s3 : s3[s].commit \in Int
         /\ \A c \in DOMAIN s5 : /\ s5[c] \in Cand /\ s5[c].entry \in Twins /\ s5[c].snap \in DOMAIN s3
                                 /\ s5[c].prior \in 0 .. s4.revision /\ s5[c].order \in Imp!Orders
                                 /\ s5[c].state \in CandStates
         /\ s4.revision \in Nat /\ s4.head \in 0 .. Len(s3)
<1>1. s3 \in Seq([entry : Twins, commit : 1 .. MaxCommit]) /\ s5 \in Seq(Cand)
  BY DEF Imp!IInv, Imp!TypeOK, Cand, CandStates, Imp!Orders
<1>2. IsSeq(s3) /\ IsSeq(s5)
  BY <1>1, SeqOfOwn
<1>3. \A s \in DOMAIN s3 : s3[s] \in [entry : Twins, commit : 1 .. MaxCommit]
  BY <1>1, SeqElements
<1>4. \A c \in DOMAIN s5 : s5[c] \in Cand
  BY <1>1, SeqElements
<1>5. s4.revision \in Nat /\ s4.head \in 0 .. Len(s3) /\ \A c \in DOMAIN s5 : s5[c].prior \in 0 .. s4.revision
  BY DEF Imp!IInv, Imp!TypeOK, Imp!NumbersFit
<1>6. \A c \in Cand : c.entry \in Twins /\ c.snap \in DOMAIN s3 /\ c.order \in Imp!Orders /\ c.state \in CandStates
  BY DEF Cand
<1>9. \A c \in DOMAIN s5 : s5[c] \in Cand /\ s5[c].entry \in Twins /\ s5[c].snap \in DOMAIN s3
                          /\ s5[c].order \in Imp!Orders /\ s5[c].state \in CandStates
  BY <1>4, <1>6
<1>7. \A s \in DOMAIN s3 : s3[s].commit \in Int
  BY <1>3
<1>8. Len(s3) \in Nat /\ DOMAIN s3 = 1 .. Len(s3) /\ Len(s5) \in Nat /\ DOMAIN s5 = 1 .. Len(s5)
  BY <1>2, SeqFacts
<1> QED
  BY <1>1, <1>2, <1>3, <1>4, <1>5, <1>7, <1>8, <1>9

\* A sequence of candidates that were all in one.
LEMMA CandsAgain ==
  ASSUME Imp!IInv, NEW q, DOMAIN q = DOMAIN s5, q = [c \in DOMAIN q |-> q[c]],
         \A c \in DOMAIN q : q[c] \in Cand
  PROVE  q \in Seq(Cand)
<1>1. Len(s5) \in Nat /\ DOMAIN q = 1 .. Len(s5)
  BY ImpRows
<1>2. q \in [1 .. Len(s5) -> Cand]
  BY <1>1
<1> QED
  BY <1>1, <1>2, SeqDef

\* What candidates are when some of them were given up: all but their states stay, and no
\* state but that of one to be reviewed is another.
GivenUp(q, r) ==
  /\ DOMAIN r = DOMAIN q /\ r = [c \in DOMAIN r |-> r[c]]
  /\ \A c \in DOMAIN q :
       /\ r[c].entry = q[c].entry /\ r[c].snap = q[c].snap
       /\ r[c].prior = q[c].prior /\ r[c].order = q[c].order
       /\ \/ r[c] = q[c]
          \/ q[c].state = "ready-for-review" /\ r[c].state \in {"ignored", "superseded", "expired"}
       /\ q[c] \in Cand => r[c] \in Cand

\* Superseding gives up.
LEMMA SupersededAreGivenUp ==
  ASSUME Imp!IInv, NEW cs
  PROVE  /\ GivenUp(s5, Imp!Superseded(s5, cs))
         /\ \A c \in cs \cap DOMAIN s5 : Imp!Superseded(s5, cs)[c].state # "ready-for-review"
<1>1. \A c \in DOMAIN s5 : s5[c] \in Cand
  BY ImpRows
<1> QED
  BY <1>1 DEF GivenUp, Imp!Superseded, Cand, CandStates

\* Where candidates are given up, the invariant stays, if none of a removed source is left.
LEMMA GivingUpKeeps ==
  ASSUME Imp!IInv, GivenUp(s5, s5'), s1' \subseteq s1, UNCHANGED <<s2, s3, s4, s6>>,
         \A c \in DOMAIN s5' : s5'[c].state = "ready-for-review" => s5'[c].entry \in s1'
  PROVE  Imp!IInv'
<1>1. s5' \in Seq(Cand)
  BY ImpRows, CandsAgain DEF GivenUp
<1>2. Imp!TypeOK'
  BY <1>1 DEF Imp!IInv, Imp!TypeOK, Cand, CandStates, Imp!Orders
<1>3. /\ DOMAIN s5' = DOMAIN s5
      /\ \A c \in DOMAIN s5 : s5'[c].state \in {"ready-for-review", "accepted"} => s5'[c] = s5[c]
      /\ \A c \in DOMAIN s5 : s5[c].state = "accepted" => s5'[c] = s5[c]
      /\ \A c \in DOMAIN s5 : s5'[c].prior = s5[c].prior /\ s5'[c].snap = s5[c].snap
  BY DEF GivenUp
<1>4. Imp!Accepted' = Imp!Accepted
  BY <1>3 DEF Imp!Accepted
<1>5. Imp!RevisionsAreImports'
  <2>1. {s5'[c].prior : c \in Imp!Accepted} = {s5[c].prior : c \in Imp!Accepted}
    BY <1>3 DEF Imp!Accepted
  <2>2. \A c \in Imp!Accepted : s5'[c].prior = s5[c].prior /\ s5'[c].snap = s5[c].snap
    BY <1>3 DEF Imp!Accepted
  <2> QED
    BY <1>4, <2>1, <2>2 DEF Imp!IInv, Imp!RevisionsAreImports
<1>6. Imp!NumbersFit' /\ Imp!CountsOnce' /\ Imp!RemovedSourcesProposeNothing'
  BY <1>3 DEF Imp!IInv, Imp!NumbersFit, Imp!CountsOnce, Imp!Counts, Imp!RemovedSourcesProposeNothing, Imp!Pending
<1>7. Imp!OrdersAreCurrent'
  BY <1>3 DEF Imp!IInv, Imp!OrdersAreCurrent, Imp!Pending, Imp!Order
<1> QED
  BY <1>2, <1>5, <1>6, <1>7 DEF Imp!IInv

\* Among numbers up to one there is a last.
LEMMA HasLatest ==
  ASSUME NEW n \in Nat, NEW S, S # {}, S \subseteq 1 .. n
  PROVE  \E s \in S : \A t \in S : t <= s
<1> DEFINE T == {n - t : t \in S}
<1>1. T \subseteq Nat /\ T # {}
  <2>1. \A t \in S : n - t \in Nat
    OBVIOUS
  <2>2. \E t \in S : n - t \in T
    OBVIOUS
  <2> QED
    BY <2>1, <2>2
<1>2. \E x \in T : \A y \in T : ~(<<y, x>> \in OpToRel(<, Nat))
  <2> HIDE DEF T
  <2> QED
    BY <1>1, WFMin, NatLessThanWellFounded
<1>3. \E x \in T : \A y \in T : ~(y < x)
  BY <1>1, <1>2 DEF OpToRel
<1>4. PICK s \in S : \A y \in T : ~(y < n - s)
  BY <1>3
<1>5. \A t \in S : n - t \in T /\ t \in Nat /\ s \in Nat
  OBVIOUS
<1> HIDE DEF T
<1>6. \A t \in S : ~(n - t < n - s)
  BY <1>4, <1>5
<1> QED
  BY <1>5, <1>6

\* Calls of a source that are under way, or over.
LEMMA BuildsAre ==
  ASSUME Imp!IInv, NEW b \in Twins \X Imp!Calls, s6[b] # Imp!NoBuild
  PROVE  /\ b[1] \in Twins /\ s6[b].snap \in DOMAIN s3 /\ s6[b].prior \in 0 .. s4.revision
         /\ s6[b].order \in Imp!Orders
BY DEF Imp!IInv, Imp!NumbersFit

\* Another snapshot is the business of nothing that is there.
LEMMA ImpObserved ==
  ASSUME Imp!IInv, NEW e \in Twins, NEW m \in 1 .. MaxCommit, Imp!Observe(e, m)
  PROVE  Imp!IInv'
<1> DEFINE row == [entry |-> e, commit |-> m]
<1>1. s3' = Append(s3, row) /\ UNCHANGED <<s1, s2, s4, s5, s6>>
  BY DEF Imp!Observe
<1>2. row \in [entry : Twins, commit : 1 .. MaxCommit] /\ s3 \in Seq([entry : Twins, commit : 1 .. MaxCommit])
  BY DEF Imp!IInv, Imp!TypeOK
<1>3. s3' \in Seq([entry : Twins, commit : 1 .. MaxCommit])
  <2> HIDE DEF row
  <2> QED
    BY <1>1, <1>2
<1>4. /\ DOMAIN s3 \subseteq DOMAIN s3' /\ Len(s3') = Len(s3) + 1 /\ Len(s3) \in Nat
      /\ DOMAIN s3' = 1 .. Len(s3') /\ \A s \in DOMAIN s3 : s3'[s] = s3[s]
  <2> HIDE DEF row
  <2> QED
    BY <1>1, ImpRows, SeqGrows
<1> HIDE DEF row
<1>5. Cand \subseteq Cand'
  BY <1>4 DEF Cand
<1>6. s5' \in Seq(Cand')
  BY <1>1, <1>5, ImpRows, SeqMonotonic
<1>7. Imp!TypeOK'
  BY <1>1, <1>3, <1>4, <1>6 DEF Imp!IInv, Imp!TypeOK, Cand, CandStates, Imp!Orders
<1>8. Imp!NumbersFit'
  <2>1. [snap : DOMAIN s3, prior : 0 .. s4.revision, order : Imp!Orders]
          \subseteq [snap : DOMAIN s3', prior : 0 .. s4.revision, order : Imp!Orders]
    BY <1>4
  <2> QED
    BY <1>1, <2>1 DEF Imp!IInv, Imp!NumbersFit
<1>9. Imp!OrdersAreCurrent'
  <2>1. s4.revision # 0 => s4.head \in DOMAIN s3
    <3>1. s4.head \in 0 .. Len(s3) /\ (s4.head = 0 <=> s4.revision = 0) /\ DOMAIN s3 = 1 .. Len(s3)
      BY ImpRows DEF Imp!IInv, Imp!NumbersFit
    <3> QED
      BY <1>4, <3>1
  <2>2. \A c \in DOMAIN s5 : s5[c].snap \in DOMAIN s3
    BY ImpRows
  <2>3. \A c \in DOMAIN s5 : Imp!Order(s5[c].snap)' = Imp!Order(s5[c].snap)
    BY <1>1, <1>4, <2>1, <2>2 DEF Imp!Order
  <2>4. \A b \in Twins \X Imp!Calls : s6[b] # Imp!NoBuild => Imp!Order(s6[b].snap)' = Imp!Order(s6[b].snap)
    BY <1>1, <1>4, <2>1, BuildsAre DEF Imp!Order
  <2> QED
    BY <1>1, <2>3, <2>4 DEF Imp!IInv, Imp!OrdersAreCurrent, Imp!Pending
<1> QED
  BY <1>1, <1>7, <1>8, <1>9 DEF Imp!IInv, Imp!CountsOnce, Imp!Counts, Imp!RevisionsAreImports,
     Imp!RemovedSourcesProposeNothing, Imp!Accepted, Imp!Pending

\* Builds begin with what the lineage shows, and end; nothing else is touched.
LEMMA ImpBuilds ==
  ASSUME Imp!IInv, NEW b \in Twins \X Imp!Calls, UNCHANGED <<s1, s2, s3, s4, s5>>,
         NEW next, s6' = [s6 EXCEPT ![b] = next],
         \/ next = Imp!NoBuild
         \/ \E s \in DOMAIN s3 : next = [snap |-> s, prior |-> s4.revision, order |-> Imp!Order(s)]
  PROVE  Imp!IInv'
<1>1. \A s : Imp!Order(s) \in Imp!Orders
  BY DEF Imp!Order, Imp!Orders
<1>2. next \in {Imp!NoBuild} \cup [snap : DOMAIN s3, prior : 0 .. s4.revision, order : Imp!Orders]
  BY <1>1, ImpRows
<1>3. Imp!NumbersFit'
  BY <1>2 DEF Imp!IInv, Imp!NumbersFit
<1>4. ASSUME next # Imp!NoBuild PROVE next.order = Imp!Order(next.snap)
  BY <1>4
<1>5. Imp!OrdersAreCurrent'
  <2>1. s6 \in [Twins \X Imp!Calls -> {Imp!NoBuild} \cup [snap : DOMAIN s3, prior : 0 .. s4.revision, order : Imp!Orders]]
    BY DEF Imp!IInv, Imp!NumbersFit
  <2>2. \A d \in Twins \X Imp!Calls : s6'[d] = IF d = b THEN next ELSE s6[d]
    BY <2>1
  <2>3. \A d \in Twins \X Imp!Calls : (s6'[d] # Imp!NoBuild /\ s6'[d].prior = s4.revision)
              => s6'[d].order = Imp!Order(s6'[d].snap)
    BY <1>4, <2>2 DEF Imp!IInv, Imp!OrdersAreCurrent
  <2> QED
    BY <2>3 DEF Imp!IInv, Imp!OrdersAreCurrent, Imp!Pending, Imp!Order
<1> QED
  BY <1>3, <1>5 DEF Imp!IInv, Imp!TypeOK, Imp!CountsOnce, Imp!Counts, Imp!RevisionsAreImports,
     Imp!RemovedSourcesProposeNothing, Imp!Accepted, Imp!Pending

\* One more candidate, of a snapshot that has none that counts, after others were given up.
LEMMA ImpInserted ==
  ASSUME Imp!IInv, NEW b \in Twins \X Imp!Calls, s6[b] # Imp!NoBuild, b[1] \in s1,
         UNCHANGED <<s1, s2, s3, s4>>, s6' = [s6 EXCEPT ![b] = Imp!NoBuild],
         Imp!ActiveFor(s6[b].snap) = {},
         NEW q, GivenUp(s5, q), s5' = Append(q, Imp!NewCandidate(b))
  PROVE  Imp!IInv'
<1> DEFINE row == Imp!NewCandidate(b)
           n == Len(s5)
<1>1. /\ row \in Cand /\ row.entry = b[1] /\ row.snap = s6[b].snap /\ row.prior = s6[b].prior
      /\ row.order = s6[b].order /\ row.state = "ready-for-review"
  BY BuildsAre, ImpRows DEF Imp!NewCandidate, Cand, CandStates
<1> HIDE DEF row
<1>2. q \in Seq(Cand) /\ n \in Nat /\ DOMAIN q = 1 .. n
  <2>1. \A c \in DOMAIN q : q[c] \in Cand
    BY ImpRows DEF GivenUp
  <2> QED
    BY <2>1, ImpRows, CandsAgain DEF GivenUp
<1>3. IsSeq(q) /\ Len(q) = n
  <2>1. IsSeq(q)
    BY <1>2, SeqOfOwn
  <2> QED
    BY <1>2, <2>1, SeqFacts
<1>4. s5' \in Seq(Cand)
  BY <1>1, <1>2 DEF row
<1>5. /\ DOMAIN s5' = 1 .. (n + 1) /\ s5'[n + 1] = row /\ DOMAIN s5 = 1 .. n
      /\ \A c \in 1 .. n : s5'[c] = q[c]
  BY <1>2, <1>3, SeqGrows, ImpRows DEF row
<1> HIDE DEF n
<1>6. ASSUME NEW c \in 1 .. n
      PROVE  /\ s5'[c].state \in {"ready-for-review", "accepted"} => s5'[c] = s5[c]
             /\ s5[c].state = "accepted" => s5'[c] = s5[c]
             /\ s5'[c].prior = s5[c].prior /\ s5'[c].snap = s5[c].snap /\ s5'[c].entry = s5[c].entry
  <2>1. s5'[c] = q[c] /\ c \in DOMAIN s5
    BY <1>5
  <2> QED
    BY <2>1 DEF GivenUp
<1>7. Imp!TypeOK'
  BY <1>4 DEF Imp!IInv, Imp!TypeOK, Cand, CandStates, Imp!Orders
<1>8. Imp!NumbersFit'
  <2>1. \A c \in 1 .. n + 1 : s5'[c].prior \in 0 .. s4.revision
    <3>1. row.prior \in 0 .. s4.revision
      BY <1>1, BuildsAre
    <3>2. \A c \in 1 .. n : s5'[c].prior \in 0 .. s4.revision
      BY <1>5, <1>6, ImpRows
    <3> QED
      BY <1>2, <1>5, <3>1, <3>2
  <2> DEFINE Builds == {Imp!NoBuild} \cup [snap : DOMAIN s3, prior : 0 .. s4.revision, order : Imp!Orders]
  <2>2. s6 \in [Twins \X Imp!Calls -> Builds] /\ Imp!NoBuild \in Builds
    BY DEF Imp!IInv, Imp!NumbersFit
  <2>3. s6' \in [Twins \X Imp!Calls -> Builds]
    <3> HIDE DEF Builds
    <3> QED
      BY <2>2
  <2> QED
    BY <1>5, <2>1, <2>3 DEF Imp!IInv, Imp!NumbersFit
<1>9. Imp!CountsOnce'
  <2>1. \A c \in 1 .. n : s5[c].snap = row.snap => s5[c].state \notin {"ready-for-review", "accepted"}
    BY <1>1, <1>5 DEF Imp!ActiveFor
  <2>2. \A c \in 1 .. n : s5'[c].snap = row.snap => s5'[c].state \notin {"ready-for-review", "accepted"}
    BY <1>5, <1>6, <2>1
  <2>3. ASSUME NEW c \in 1 .. n, NEW d \in 1 .. n, s5'[c].snap = s5'[d].snap,
               s5'[c].state \in {"ready-for-review", "accepted"},
               s5'[d].state \in {"ready-for-review", "accepted"}
        PROVE  c = d
    <3>1. s5'[c] = s5[c] /\ s5'[d] = s5[d] /\ c \in DOMAIN s5 /\ d \in DOMAIN s5
      BY <1>5, <1>6, <2>3
    <3> QED
      BY <2>3, <3>1 DEF Imp!IInv, Imp!CountsOnce, Imp!Counts
  <2>4. \A c \in 1 .. n + 1 : c \in 1 .. n \/ c = n + 1
    BY <1>2
  <2>5. ASSUME NEW c \in 1 .. n + 1, NEW d \in 1 .. n + 1, s5'[c].snap = s5'[d].snap,
               s5'[c].state \in {"ready-for-review", "accepted"},
               s5'[d].state \in {"ready-for-review", "accepted"}
        PROVE  c = d
    <3>1. CASE c = n + 1
      BY <1>5, <2>2, <2>4, <2>5, <3>1
    <3>2. CASE d = n + 1
      BY <1>5, <2>2, <2>4, <2>5, <3>2
    <3> QED
      BY <2>3, <2>4, <2>5, <3>1, <3>2
  <2> QED
    BY <1>5, <2>5 DEF Imp!CountsOnce, Imp!Counts
<1>10. Imp!Accepted' = Imp!Accepted
  <2>1. \A c : c \in 1 .. n + 1 <=> c \in 1 .. n \/ c = n + 1
    BY <1>2
  <2>2. \A c \in 1 .. n : s5'[c].state = "accepted" <=> s5[c].state = "accepted"
    BY <1>6
  <2>3. s5'[n + 1].state # "accepted"
    BY <1>1, <1>5
  <2>4. \A c : (c \in DOMAIN s5' /\ s5'[c].state = "accepted") <=> (c \in DOMAIN s5 /\ s5[c].state = "accepted")
    BY <1>5, <2>1, <2>2, <2>3
  <2> QED
    BY <2>4 DEF Imp!Accepted
<1>11. Imp!RevisionsAreImports'
  <2>3. \A c \in Imp!Accepted : c \in 1 .. n
    BY <1>5 DEF Imp!Accepted
  <2>1. \A c \in Imp!Accepted : s5'[c].prior = s5[c].prior /\ s5'[c].snap = s5[c].snap
    BY <1>6, <2>3
  <2>2. {s5'[c].prior : c \in Imp!Accepted} = {s5[c].prior : c \in Imp!Accepted}
    BY <2>1
  <2> QED
    BY <1>10, <2>1, <2>2 DEF Imp!IInv, Imp!RevisionsAreImports
<1>12. Imp!RemovedSourcesProposeNothing'
  <2>1. \A c \in 1 .. n : s5'[c].state = "ready-for-review" => s5'[c].entry \in s1
    BY <1>5, <1>6 DEF Imp!IInv, Imp!RemovedSourcesProposeNothing, Imp!Pending
  <2>2. \A c \in 1 .. n + 1 : c \in 1 .. n \/ c = n + 1
    BY <1>2
  <2> QED
    BY <1>1, <1>5, <2>1, <2>2 DEF Imp!RemovedSourcesProposeNothing, Imp!Pending
<1>13. Imp!OrdersAreCurrent'
  <2>1. ASSUME NEW c \in 1 .. n, s5'[c].state = "ready-for-review", s5'[c].prior = s4.revision
        PROVE  s5'[c].order = Imp!Order(s5'[c].snap)
    BY <1>5, <1>6, <2>1 DEF Imp!IInv, Imp!OrdersAreCurrent, Imp!Pending
  <2>2. row.prior = s4.revision => row.order = Imp!Order(row.snap)
    BY <1>1 DEF Imp!IInv, Imp!OrdersAreCurrent
  <2>3. \A c \in 1 .. n + 1 : c \in 1 .. n \/ c = n + 1
    BY <1>2
  <2>4. \A c \in DOMAIN s5' : (s5'[c].state = "ready-for-review" /\ s5'[c].prior = s4.revision)
          => s5'[c].order = Imp!Order(s5'[c].snap)
    BY <1>5, <2>1, <2>2, <2>3
  <2>5. \A d \in Twins \X Imp!Calls : s6'[d] # Imp!NoBuild => s6'[d] = s6[d]
    BY DEF Imp!IInv, Imp!NumbersFit
  <2>6. \A d \in Twins \X Imp!Calls : (s6'[d] # Imp!NoBuild /\ s6'[d].prior = s4.revision)
          => s6'[d].order = Imp!Order(s6'[d].snap)
    BY <2>5 DEF Imp!IInv, Imp!OrdersAreCurrent
  <2> QED
    BY <2>4, <2>6 DEF Imp!OrdersAreCurrent, Imp!Pending, Imp!Order
<1> QED
  BY <1>7, <1>8, <1>9, <1>11, <1>12, <1>13 DEF Imp!IInv

\* An import makes the next revision of the candidate that is next, gives up the others, and
\* goes back only when its candidate says that it may.
LEMMA ImpImported ==
  ASSUME Imp!IInv, NEW k \in DOMAIN s5, NEW a \in BOOLEAN, Imp!ImportCandidate(k, a)
  PROVE  Imp!IInv' /\ Imp!HeadGoesBackKnowinglyStep
<1> DEFINE q == Imp!Superseded(s5, DOMAIN s5 \ {k})
<1>1. /\ s5[k].state = "ready-for-review" /\ s4.revision = s5[k].prior /\ s5[k].entry \in s1
      /\ s4' = [revision |-> s4.revision + 1, head |-> s5[k].snap, digest |-> Imp!Digest(s5[k].snap)]
      /\ s5' = [q EXCEPT ![k].state = "accepted"] /\ s2' = s2 \cup {s5[k].entry}
      /\ UNCHANGED <<s1, s3, s6>>
  BY DEF Imp!ImportCandidate, Imp!IsNext, Imp!Accept, Imp!Pending
<1>2. GivenUp(s5, q) /\ (\A c \in DOMAIN s5 \ {k} : q[c].state # "ready-for-review") /\ q[k] = s5[k]
  BY SupersededAreGivenUp, ImpRows DEF Imp!Superseded
<1> HIDE DEF q
<1>3. /\ DOMAIN s5' = DOMAIN s5 /\ s5' = [c \in DOMAIN s5' |-> s5'[c]]
      /\ \A c \in DOMAIN s5 \ {k} : s5'[c] = q[c]
      /\ s5'[k] = [s5[k] EXCEPT !.state = "accepted"]
  BY <1>1, <1>2 DEF GivenUp
<1>4. s5'[k] \in Cand /\ s5'[k].state = "accepted" /\ s5'[k].entry = s5[k].entry
      /\ s5'[k].snap = s5[k].snap /\ s5'[k].prior = s5[k].prior
  <2>1. s5[k] \in Cand
    BY ImpRows
  <2> QED
    BY <1>3, <2>1 DEF Cand, CandStates
<1>5. ASSUME NEW c \in DOMAIN s5 \ {k}
      PROVE  /\ s5'[c].state # "ready-for-review"
             /\ s5'[c].state = "accepted" => s5'[c] = s5[c]
             /\ s5[c].state = "accepted" => s5'[c] = s5[c]
             /\ s5'[c].prior = s5[c].prior /\ s5'[c].snap = s5[c].snap /\ s5'[c] \in Cand
  BY <1>2, <1>3, ImpRows DEF GivenUp
<1>6. s5' \in Seq(Cand)
  BY <1>3, <1>4, <1>5, CandsAgain
<1>7. /\ s4'.revision = s4.revision + 1 /\ s4'.head = s5[k].snap /\ s4.revision \in Nat
      /\ s5[k].snap \in DOMAIN s3 /\ s5[k].snap \in 1 .. Len(s3) /\ s5[k].entry \in Twins
  BY <1>1, ImpRows
<1>8. Imp!TypeOK'
  <2>1. s2' \subseteq Twins
    BY <1>1, <1>7 DEF Imp!IInv, Imp!TypeOK
  <2>2. s4'.head \in 0 .. Len(s3)
    BY <1>7, ImpRows
  <2> QED
    BY <1>1, <1>6, <2>1, <2>2 DEF Imp!IInv, Imp!TypeOK, Cand, CandStates, Imp!Orders
<1>9. Imp!NumbersFit'
  <2>1. 0 .. s4.revision \subseteq 0 .. s4'.revision /\ s4'.revision \in Nat /\ s4'.revision # 0
    BY <1>7
  <2>2. s4'.head # 0
    BY <1>7, ImpRows
  <2>3. \A c \in DOMAIN s5' : s5'[c].prior \in 0 .. s4'.revision
    BY <1>3, <1>4, <1>5, <2>1, ImpRows
  <2>4. [snap : DOMAIN s3, prior : 0 .. s4.revision, order : Imp!Orders]
          \subseteq [snap : DOMAIN s3, prior : 0 .. s4'.revision, order : Imp!Orders]
    BY <2>1
  <2> QED
    BY <1>1, <2>1, <2>2, <2>3, <2>4 DEF Imp!IInv, Imp!NumbersFit
<1>10. Imp!CountsOnce'
  <2>1. \A c \in DOMAIN s5 \ {k} : s5'[c].state \in {"ready-for-review", "accepted"} =>
          s5[c].state = "accepted" /\ s5'[c].snap = s5[c].snap
    BY <1>5
  <2>2. \A c \in DOMAIN s5 \ {k} : s5'[c].state \in {"ready-for-review", "accepted"} => s5'[c].snap # s5[k].snap
    BY <1>1, <2>1 DEF Imp!IInv, Imp!CountsOnce, Imp!Counts
  <2>3. ASSUME NEW c \in DOMAIN s5, NEW d \in DOMAIN s5, s5'[c].snap = s5'[d].snap,
               s5'[c].state \in {"ready-for-review", "accepted"},
               s5'[d].state \in {"ready-for-review", "accepted"}
        PROVE  c = d
    <3>1. CASE c = k
      BY <1>4, <2>2, <2>3, <3>1
    <3>2. CASE d = k
      BY <1>4, <2>2, <2>3, <3>2
    <3>3. CASE c # k /\ d # k
      BY <2>1, <2>3, <3>3 DEF Imp!IInv, Imp!CountsOnce, Imp!Counts
    <3> QED
      BY <3>1, <3>2, <3>3
  <2> QED
    BY <1>3, <2>3 DEF Imp!CountsOnce, Imp!Counts
<1>11. Imp!RevisionsAreImports'
  <2>1. Imp!Accepted' = Imp!Accepted \cup {k} /\ k \notin Imp!Accepted
    <3>1. \A c : (c \in DOMAIN s5' /\ s5'[c].state = "accepted")
                   <=> (c \in DOMAIN s5 /\ s5[c].state = "accepted") \/ c = k
      BY <1>3, <1>4, <1>5
    <3> QED
      BY <1>1, <3>1 DEF Imp!Accepted
  <2>2. \A c \in Imp!Accepted : s5'[c].prior = s5[c].prior
    BY <1>5, <2>1 DEF Imp!Accepted
  <2>3. {s5'[c].prior : c \in Imp!Accepted \cup {k}} = {s5[c].prior : c \in Imp!Accepted} \cup {s4.revision}
    BY <1>1, <1>4, <2>2
  <2>4. {s5[c].prior : c \in Imp!Accepted} = 0 .. s4.revision - 1 /\ Imp!Cardinality(Imp!Accepted) = s4.revision
    BY DEF Imp!IInv, Imp!RevisionsAreImports
  <2>5. 0 .. (s4.revision - 1) \cup {s4.revision} = 0 .. (s4'.revision - 1)
    BY <1>7
  <2>6. IsFiniteSet(Imp!Accepted)
    <3>1. IsFiniteSet(1 .. Len(s5)) /\ Imp!Accepted \subseteq 1 .. Len(s5)
      BY FS_Interval, ImpRows DEF Imp!Accepted
    <3> QED
      BY <3>1, FS_Subset
  <2>7. Imp!Cardinality(Imp!Accepted \cup {k}) = s4'.revision
    <3>1. Cardinality(Imp!Accepted \cup {k}) = Cardinality(Imp!Accepted) + 1
      BY <2>1, <2>6, FS_AddElement
    <3>2. /\ Imp!Cardinality(Imp!Accepted \cup {k}) = Cardinality(Imp!Accepted \cup {k})
          /\ Imp!Cardinality(Imp!Accepted) = Cardinality(Imp!Accepted)
      BY ImpCounts
    <3> QED
      BY <1>7, <2>4, <3>1, <3>2
  <2>8. k \in Imp!Accepted' /\ s5'[k].prior = s4'.revision - 1 /\ s5'[k].snap = s4'.head
    BY <1>1, <1>4, <1>7, <2>1
  <2> QED
    BY <2>1, <2>3, <2>4, <2>5, <2>7, <2>8 DEF Imp!RevisionsAreImports
<1>12. Imp!RemovedSourcesProposeNothing'
  BY <1>3, <1>4, <1>5 DEF Imp!RemovedSourcesProposeNothing, Imp!Pending
<1>13. Imp!OrdersAreCurrent'
  <2>1. \A c \in DOMAIN s5 : s5'[c].state # "ready-for-review"
    BY <1>4, <1>5
  <2>2. \A b \in Twins \X Imp!Calls : s6[b] # Imp!NoBuild => s6[b].prior # s4'.revision
    BY <1>7, BuildsAre
  <2> QED
    BY <1>1, <1>3, <2>1, <2>2 DEF Imp!OrdersAreCurrent, Imp!Pending
<1>14. Imp!HeadGoesBackKnowinglyStep
  <2>1. ASSUME s4.head # 0, s3[s4'.head].commit < s3[s4.head].commit
        PROVE  s5[k].order = "unverified"
    <3>1. s5[k].order = Imp!Order(s5[k].snap) /\ s4.revision # 0
      BY <1>1, <2>1 DEF Imp!IInv, Imp!OrdersAreCurrent, Imp!NumbersFit, Imp!Pending
    <3>2. s4.head \in DOMAIN s3 /\ s4'.head \in DOMAIN s3
      BY <1>7, <2>1, ImpRows
    <3>3. s3[s4.head].commit \in Int /\ s3[s5[k].snap].commit \in Int
      BY <1>7, <3>2, ImpRows
    <3> QED
      BY <1>7, <2>1, <3>1, <3>3 DEF Imp!Order
  <2> QED
    BY <1>1, <1>4, <2>1 DEF Imp!HeadGoesBackKnowinglyStep, Imp!Pending
<1> QED
  BY <1>8, <1>9, <1>10, <1>11, <1>12, <1>13, <1>14 DEF Imp!IInv

\* Every step keeps the invariant, and goes back only knowingly.
LEMMA ImpKept ==
  ASSUME Imp!IInv, Imp!Next \/ UNCHANGED Imp!vars
  PROVE  Imp!IInv' /\ Imp!HeadGoesBackKnowinglyStep
<1>1. ASSUME s4' = s4 PROVE Imp!HeadGoesBackKnowinglyStep
  BY <1>1 DEF Imp!HeadGoesBackKnowinglyStep
<1>2. CASE UNCHANGED Imp!vars
  BY <1>1, <1>2 DEF Imp!vars, Imp!IInv, Imp!TypeOK, Imp!NumbersFit, Imp!CountsOnce, Imp!Counts,
     Imp!OrdersAreCurrent, Imp!Order, Imp!Pending, Imp!RevisionsAreImports, Imp!Accepted,
     Imp!RemovedSourcesProposeNothing
<1>3. ASSUME NEW e \in Twins, NEW m \in 1 .. MaxCommit, Imp!Observe(e, m)
      PROVE  Imp!IInv' /\ Imp!HeadGoesBackKnowinglyStep
  BY <1>1, <1>3, ImpObserved DEF Imp!Observe
<1>4. ASSUME NEW b \in Twins \X Imp!Calls, NEW s \in DOMAIN s3, Imp!StartBuild(b, s)
      PROVE  Imp!IInv' /\ Imp!HeadGoesBackKnowinglyStep
  <2>1. s6' = [s6 EXCEPT ![b] = [snap |-> s, prior |-> s4.revision, order |-> Imp!Order(s)]]
        /\ UNCHANGED <<s1, s2, s3, s4, s5>>
    BY <1>4 DEF Imp!StartBuild
  <2> QED
    BY <1>1, <2>1, ImpBuilds
<1>5. ASSUME NEW e \in Twins, NEW s \in DOMAIN s3, Imp!Preview(e, s)
      PROVE  Imp!IInv' /\ Imp!HeadGoesBackKnowinglyStep
  BY <1>4, <1>5 DEF Imp!Preview, Imp!Calls
<1>6. ASSUME NEW e \in Twins, Imp!TrackLineage(e)
      PROVE  Imp!IInv' /\ Imp!HeadGoesBackKnowinglyStep
  <2>1. Imp!Newest(e) \in DOMAIN s3
    <3>1. \E s \in Imp!SnapshotsOf(e) : \A t \in Imp!SnapshotsOf(e) : t <= s
      <4>1. Imp!SnapshotsOf(e) # {} /\ Imp!SnapshotsOf(e) \subseteq 1 .. Len(s3) /\ Len(s3) \in Nat
        BY <1>6, ImpRows DEF Imp!TrackLineage, Imp!SnapshotsOf
      <4> QED
        BY <4>1, HasLatest
    <3> QED
      BY <3>1 DEF Imp!Newest, Imp!SnapshotsOf
  <2> QED
    BY <1>4, <1>6, <2>1 DEF Imp!TrackLineage, Imp!Calls
<1>7. ASSUME NEW b \in Twins \X Imp!Calls, Imp!GiveUp(b)
      PROVE  Imp!IInv' /\ Imp!HeadGoesBackKnowinglyStep
  BY <1>1, <1>7, ImpBuilds DEF Imp!GiveUp
<1>8. ASSUME NEW b \in Twins \X Imp!Calls, Imp!InsertCandidate(b)
      PROVE  Imp!IInv' /\ Imp!HeadGoesBackKnowinglyStep
  <2> DEFINE Before == [s6 EXCEPT ![b] = Imp!NoBuild]
             Older == {c \in DOMAIN s5 : s5[c].entry = b[1] /\ s5[c].snap < s6[b].snap}
  <2>1. /\ s6[b] # Imp!NoBuild /\ b[1] \in s1 /\ UNCHANGED <<s1, s2, s3, s4>> /\ s6' = Before
        /\ \/ s5' = s5
           \/ /\ Imp!ActiveFor(s6[b].snap) = {}
              /\ s5' = Append(Imp!Superseded(s5, Older), Imp!NewCandidate(b))
    BY <1>8 DEF Imp!InsertCandidate
  <2>2. CASE s5' = s5
    BY <1>1, <2>1, <2>2, ImpBuilds
  <2>3. CASE s5' # s5
    <3>1. GivenUp(s5, Imp!Superseded(s5, Older))
      BY SupersededAreGivenUp
    <3> HIDE DEF Older
    <3> QED
      BY <1>1, <2>1, <2>3, <3>1, ImpInserted
  <2> QED
    BY <2>2, <2>3
<1>9. ASSUME NEW c \in DOMAIN s5, NEW a \in BOOLEAN, Imp!ImportCandidate(c, a)
      PROVE  Imp!IInv' /\ Imp!HeadGoesBackKnowinglyStep
  BY <1>9, ImpImported
<1>10. ASSUME NEW c \in DOMAIN s5, NEW st \in {"ignored", "expired"}, Imp!Pending(c),
              s5' = [s5 EXCEPT ![c].state = st], UNCHANGED <<s1, s2, s3, s4, s6>>
       PROVE  Imp!IInv' /\ Imp!HeadGoesBackKnowinglyStep
  <2>1. s5 = [d \in DOMAIN s5 |-> s5[d]] /\ \A d \in DOMAIN s5 : s5[d] \in Cand
    BY ImpRows DEF IsSeq
  <2>2. GivenUp(s5, s5')
    BY <1>10, <2>1 DEF GivenUp, Cand, CandStates, Imp!Pending
  <2>3. \A d \in DOMAIN s5' : s5'[d].state = "ready-for-review" => s5'[d].entry \in s1
    BY <1>10, <2>2 DEF GivenUp, Imp!IInv, Imp!RemovedSourcesProposeNothing, Imp!Pending
  <2> QED
    BY <1>1, <1>10, <2>2, <2>3, GivingUpKeeps
<1>11. ASSUME NEW c \in DOMAIN s5, Imp!IgnoreCandidate(c) \/ Imp!Expire(c)
       PROVE  Imp!IInv' /\ Imp!HeadGoesBackKnowinglyStep
  BY <1>10, <1>11 DEF Imp!IgnoreCandidate, Imp!Expire
<1>12. ASSUME NEW e \in Twins, Imp!RemoveEntry(e)
       PROVE  Imp!IInv' /\ Imp!HeadGoesBackKnowinglyStep
  <2>1. /\ s1' = s1 \ {e} /\ UNCHANGED <<s2, s3, s4, s6>>
        /\ s5' = [c \in DOMAIN s5 |-> IF s5[c].state = "ready-for-review" /\ s5[c].entry = e
                                      THEN [s5[c] EXCEPT !.state = "ignored"] ELSE s5[c]]
    BY <1>12 DEF Imp!RemoveEntry, Imp!Pending
  <2>2. \A d \in DOMAIN s5 : s5[d] \in Cand
    BY ImpRows
  <2>3. GivenUp(s5, s5')
    BY <2>1, <2>2 DEF GivenUp, Cand, CandStates
  <2>4. \A d \in DOMAIN s5' : s5'[d].state = "ready-for-review" => s5[d].entry # e /\ s5'[d] = s5[d]
    BY <2>1, <2>2 DEF Cand
  <2>5. \A d \in DOMAIN s5' : s5'[d].state = "ready-for-review" => s5'[d].entry \in s1'
    BY <2>1, <2>4 DEF Imp!IInv, Imp!RemovedSourcesProposeNothing, Imp!Pending
  <2> QED
    BY <1>1, <2>1, <2>3, <2>5, GivingUpKeeps
<1> QED
  BY <1>2, <1>3, <1>5, <1>6, <1>7, <1>8, <1>9, <1>11, <1>12 DEF Imp!Next

---------------------------------------------------------------------------
(* Adoptions.                                                              *)

\* While releases are adopted, a step is one of theirs or changes nothing of theirs.
LEMMA AdoptSteps ==
  ASSUME part = "adoptions", [Next]_vars
  PROVE  Adopt!Next \/ UNCHANGED Adopt!vars
BY DEF Next, vars, Adopt!vars, Submission, Authoring, Importing, Adopting, Checking, Improving,
       Reporting, RootLocking, Installing

\* Adoptions, and rows of bindings.
AdoptionRow == [entry : Twins, version : Releases, prior : 0 .. MaxAdoptions]
BindingRow == [status : {"active", "curation-unavailable", "detached"}, pin : Releases \cup {Adopt!None}]

\* Nothing is adopted at the start.
LEMMA AdoptInit == Adopt!Init => Adopt!IInv
<1> SUFFICES ASSUME Adopt!Init PROVE Adopt!IInv
  OBVIOUS
<1>1. /\ s1 = [e \in Twins |-> 0] /\ s2 = Twins /\ s3 = <<>>
      /\ s5 = [e \in Twins |-> <<>>]
      /\ s6 = [e \in Twins |-> Adopt!NoAdopt] /\ s7 = [e \in Twins |-> Adopt!NoBind]
  BY DEF Adopt!Init
<1>2. DOMAIN s3 = {} /\ Len(s3) = 0 /\ \A e \in Twins : DOMAIN s5[e] = {}
  BY <1>1
<1>3. Adopt!TypeOK
  BY <1>1, <1>2 DEF Adopt!TypeOK
<1>4. Adopt!CallsFit
  BY <1>1, LibraryAssumption DEF Adopt!CallsFit, Adopt!NoAdopt, Adopt!NoBind
<1> QED
  BY <1>1, <1>2, <1>3, <1>4 DEF Adopt!IInv, Adopt!AdoptionsGoOn, Adopt!AdoptionsFormAChain, Adopt!PinsFit

\* The rows as the invariant has them.
LEMMA AdoptRows ==
  ASSUME Adopt!IInv
  PROVE  /\ s3 \in Seq(AdoptionRow) /\ IsSeq(s3) /\ Len(s3) \in Nat /\ DOMAIN s3 = 1 .. Len(s3)
         /\ \A a \in DOMAIN s3 : /\ s3[a] \in AdoptionRow /\ s3[a].entry \in Twins
                                 /\ s3[a].version \in Releases /\ s3[a].prior \in Nat
         /\ s1 \in [Twins -> 0 .. Len(s3)] /\ \A e \in Twins : s1[e] \in Nat
         /\ s5 \in [Twins -> Seq(BindingRow)]
         /\ \A e \in Twins : /\ s5[e] \in Seq(BindingRow) /\ IsSeq(s5[e])
                             /\ \A b \in DOMAIN s5[e] : s5[e][b] \in BindingRow
<1>1. s3 \in Seq(AdoptionRow) /\ s1 \in [Twins -> 0 .. Len(s3)] /\ s5 \in [Twins -> Seq(BindingRow)]
  BY DEF Adopt!IInv, Adopt!TypeOK, AdoptionRow, BindingRow
<1>2. IsSeq(s3) /\ \A e \in Twins : IsSeq(s5[e])
  BY <1>1, SeqOfOwn
<1>3. \A a \in DOMAIN s3 : s3[a] \in AdoptionRow
  BY <1>1, SeqElements
<1>4. \A e \in Twins : \A b \in DOMAIN s5[e] : s5[e][b] \in BindingRow
  BY <1>1, SeqElements
<1>5. \A r \in AdoptionRow : r.entry \in Twins /\ r.version \in Releases /\ r.prior \in Nat
  BY DEF AdoptionRow
<1>6. Len(s3) \in Nat /\ DOMAIN s3 = 1 .. Len(s3)
  BY <1>2, SeqFacts
<1> HIDE DEF AdoptionRow, BindingRow
<1> QED
  BY <1>1, <1>2, <1>3, <1>4, <1>5, <1>6

\* An adoption of an active entry, in place of its current one.
LEMMA AdoptionKeeps ==
  ASSUME Adopt!IInv, NEW e \in s2, NEW v \in Releases, Adopt!AdoptAs(e, v, s1[e]),
         UNCHANGED <<s2, s4, s5, s7>>, s6' = s6 \/ s6' = [s6 EXCEPT ![e] = Adopt!NoAdopt],
         s4[v] = "available"
  PROVE  Adopt!IInv' /\ Adopt!OnlyAvailableIsAdoptedStep
<1> DEFINE n == Len(s3)
           row == [entry |-> e, version |-> v, prior |-> s1[e]]
<1>1. /\ n < MaxAdoptions /\ s3' = Append(s3, row) /\ s1' = [s1 EXCEPT ![e] = n + 1]
      /\ e \in Twins /\ s1[e] \in 0 .. n /\ n \in Nat
  BY AdoptRows DEF Adopt!AdoptAs, Adopt!IInv, Adopt!TypeOK
<1>2. row \in AdoptionRow /\ row.entry = e /\ row.version = v /\ row.prior = s1[e]
  BY <1>1, LibraryAssumption DEF AdoptionRow
<1> HIDE DEF row
<1>3. s3' \in Seq(AdoptionRow)
  BY <1>1, <1>2, AdoptRows
<1>4. /\ DOMAIN s3 = 1 .. n /\ DOMAIN s3' = 1 .. (n + 1) /\ Len(s3') = n + 1 /\ s3'[n + 1] = row
      /\ \A a \in 1 .. n : s3'[a] = s3[a]
  BY <1>1, AdoptRows, SeqGrows
<1>5. /\ s1 \in [Twins -> 0 .. n] /\ s1'[e] = n + 1
      /\ \A f \in Twins \ {e} : s1'[f] = s1[f]
  BY <1>1, AdoptRows
<1>6. s1' \in [Twins -> 0 .. (n + 1)]
  BY <1>1, <1>5
<1>7. \A a \in 1 .. (n + 1) : a \in 1 .. n \/ a = n + 1
  BY <1>1
<1> HIDE DEF n
<1>8. Adopt!TypeOK'
  BY <1>3, <1>4, <1>6 DEF Adopt!IInv, Adopt!TypeOK, AdoptionRow, BindingRow
<1>9. Adopt!CallsFit'
  <2> DEFINE T == [version : Releases \cup {Adopt!None}, expected : 0 .. MaxAdoptions]
  <2>1. s6 \in [Twins -> T] /\ Adopt!NoAdopt \in T
    BY LibraryAssumption DEF Adopt!IInv, Adopt!CallsFit, Adopt!NoAdopt
  <2> HIDE DEF T
  <2>2. s6' \in [Twins -> T] /\ \A f \in Twins : s6'[f] = s6[f] \/ s6'[f] = Adopt!NoAdopt
    BY <2>1
  <2>3. Len(s3') <= MaxAdoptions
    <3>1. n < MaxAdoptions /\ n \in Nat /\ Len(s3') = n + 1
      BY <1>1, <1>4
    <3> QED
      BY <3>1, LibraryAssumption
  <2> QED
    BY <2>2, <2>3 DEF T, Adopt!IInv, Adopt!CallsFit
<1>10. Adopt!AdoptionsGoOn'
  <2>1. ASSUME NEW a \in 1 .. (n + 1)
        PROVE  s3'[a].prior < a /\ a <= s1'[s3'[a].entry]
    <3>1. CASE a = n + 1
      BY <1>1, <1>2, <1>4, <1>5, <3>1
    <3>2. CASE a \in 1 .. n
      <4>1. s3[a].prior < a /\ a <= s1[s3[a].entry] /\ s3[a].entry \in Twins
        BY <1>4, <3>2, AdoptRows DEF Adopt!IInv, Adopt!AdoptionsGoOn
      <4> QED
        BY <1>1, <1>4, <1>5, <3>2, <4>1
    <3> QED
      BY <1>7, <3>1, <3>2
  <2>2. ASSUME NEW f \in Twins, s1'[f] # 0 PROVE s3'[s1'[f]].entry = f
    <3>1. CASE f = e
      BY <1>2, <1>4, <1>5, <3>1
    <3>2. CASE f # e
      <4>1. s1[f] \in 1 .. n /\ s3[s1[f]].entry = f
        BY <1>5, <2>2, <3>2 DEF Adopt!IInv, Adopt!AdoptionsGoOn
      <4> QED
        BY <1>4, <1>5, <3>2, <4>1
    <3> QED
      BY <3>1, <3>2
  <2> QED
    BY <1>4, <2>1, <2>2 DEF Adopt!AdoptionsGoOn
<1>11. Adopt!AdoptionsFormAChain'
  <2>1. ASSUME NEW a \in 1 .. n, s3[a].entry = e PROVE s3[a].prior # s1[e]
    <3>1. s3[a].prior < a /\ a <= s1[e] /\ s3[a].prior \in Nat
      BY <1>4, <2>1, AdoptRows DEF Adopt!IInv, Adopt!AdoptionsGoOn
    <3> QED
      BY <1>1, <3>1
  <2>2. ASSUME NEW a \in 1 .. (n + 1), NEW b \in 1 .. (n + 1), a # b, s3'[a].entry = s3'[b].entry
        PROVE  s3'[a].prior # s3'[b].prior
    <3>1. CASE a = n + 1
      BY <1>2, <1>4, <1>7, <2>1, <2>2, <3>1
    <3>2. CASE b = n + 1
      BY <1>2, <1>4, <1>7, <2>1, <2>2, <3>2
    <3>3. CASE a \in 1 .. n /\ b \in 1 .. n
      BY <1>4, <2>2, <3>3 DEF Adopt!IInv, Adopt!AdoptionsFormAChain
    <3> QED
      BY <1>7, <3>1, <3>2, <3>3
  <2> QED
    BY <1>4, <2>2 DEF Adopt!AdoptionsFormAChain
<1>12. Adopt!PinsFit'
  <2>1. ASSUME NEW f \in Twins, f \notin s2 PROVE Adopt!VersionOf(f)' = Adopt!VersionOf(f)
    <3>1. f # e /\ s1'[f] = s1[f]
      BY <1>5, <2>1
    <3>2. s1[f] # 0 => s1[f] \in 1 .. n
      BY <1>1, <1>5
    <3> QED
      BY <1>4, <3>1, <3>2 DEF Adopt!VersionOf
  <2>2. ASSUME NEW f \in Twins, NEW b \in DOMAIN s5[f]
        PROVE  /\ s5[f][b].status = "active" => s5[f][b].pin = Adopt!None
               /\ s5[f][b].status = "curation-unavailable" => f \notin s2 /\ s5[f][b].pin = Adopt!VersionOf(f)'
    BY <2>1, <2>2 DEF Adopt!IInv, Adopt!PinsFit
  <2> QED
    BY <2>2 DEF Adopt!PinsFit, Adopt!VersionOf, Adopt!None
<1>13. Adopt!OnlyAvailableIsAdoptedStep
  BY <1>2, <1>4, <1>7 DEF Adopt!OnlyAvailableIsAdoptedStep
<1> QED
  BY <1>8, <1>9, <1>10, <1>11, <1>12, <1>13 DEF Adopt!IInv

\* What may become of the rows of bindings: a row is detached, or added, or keeps the
\* version of an entry that is removed.
LEMMA BindingsKeep ==
  ASSUME Adopt!IInv, UNCHANGED <<s1, s3, s4, s6>>, s2' \subseteq s2,
         s7' \in [Twins -> [on : BOOLEAN, detach : SUBSET Twins]],
         s5' \in [Twins -> Seq(BindingRow)],
         \A f \in Twins : \A b \in DOMAIN s5'[f] :
           /\ s5'[f][b].status = "active" => s5'[f][b].pin = Adopt!None
           /\ s5'[f][b].status = "curation-unavailable" => f \notin s2' /\ s5'[f][b].pin = Adopt!VersionOf(f)
  PROVE  Adopt!IInv' /\ Adopt!OnlyAvailableIsAdoptedStep
<1>1. Adopt!TypeOK'
  BY DEF Adopt!IInv, Adopt!TypeOK, BindingRow
<1>2. Adopt!CallsFit' /\ Adopt!AdoptionsGoOn' /\ Adopt!AdoptionsFormAChain'
  BY DEF Adopt!IInv, Adopt!CallsFit, Adopt!AdoptionsGoOn, Adopt!AdoptionsFormAChain
<1>3. Adopt!PinsFit'
  BY DEF Adopt!PinsFit, Adopt!VersionOf
<1> QED
  BY <1>1, <1>2, <1>3 DEF Adopt!IInv, Adopt!OnlyAvailableIsAdoptedStep

\* Detaching leaves the pins.
LEMMA DetachedAre ==
  ASSUME Adopt!IInv, NEW f \in Twins
  PROVE  /\ Adopt!Detached(s5[f]) \in Seq(BindingRow)
         /\ \A b \in DOMAIN Adopt!Detached(s5[f]) : Adopt!Detached(s5[f])[b].status = "detached"
<1>1. Len(s5[f]) \in Nat /\ DOMAIN s5[f] = 1 .. Len(s5[f]) /\ \A b \in DOMAIN s5[f] : s5[f][b] \in BindingRow
  BY AdoptRows, SeqFacts
<1>2. \A b \in DOMAIN s5[f] : /\ [s5[f][b] EXCEPT !.status = "detached"] \in BindingRow
                              /\ [s5[f][b] EXCEPT !.status = "detached"].status = "detached"
  BY <1>1 DEF BindingRow
<1>3. Adopt!Detached(s5[f]) \in [1 .. Len(s5[f]) -> BindingRow]
  BY <1>1, <1>2 DEF Adopt!Detached
<1> QED
  BY <1>1, <1>2, <1>3, SeqDef DEF Adopt!Detached

\* Every step keeps the invariant, and adopts only what is available.
LEMMA AdoptKept ==
  ASSUME Adopt!IInv, Adopt!Next \/ UNCHANGED Adopt!vars
  PROVE  Adopt!IInv' /\ Adopt!OnlyAvailableIsAdoptedStep
<1> DEFINE Goal == Adopt!IInv' /\ Adopt!OnlyAvailableIsAdoptedStep
<1>1. /\ s6 \in [Twins -> [version : Releases \cup {Adopt!None}, expected : 0 .. MaxAdoptions]]
      /\ s7 \in [Twins -> [on : BOOLEAN, detach : SUBSET Twins]]
      /\ \A f \in Twins : s6[f] # Adopt!NoAdopt => s6[f].version \in Releases
      /\ s2 \subseteq Twins
  BY DEF Adopt!IInv, Adopt!CallsFit, Adopt!TypeOK
<1>2. ASSUME UNCHANGED <<s1, s2, s3, s5>>,
             s6' \in [Twins -> [version : Releases \cup {Adopt!None}, expected : 0 .. MaxAdoptions]],
             s7' \in [Twins -> [on : BOOLEAN, detach : SUBSET Twins]],
             \A f \in Twins : s6'[f] # Adopt!NoAdopt => s6'[f].version \in Releases
      PROVE  Goal
  BY <1>2 DEF Adopt!IInv, Adopt!TypeOK, Adopt!CallsFit, Adopt!AdoptionsGoOn, Adopt!AdoptionsFormAChain,
     Adopt!PinsFit, Adopt!VersionOf, Adopt!OnlyAvailableIsAdoptedStep
<1>3. ASSUME NEW v \in Releases, Adopt!Publish(v) \/ Adopt!Withdraw(v)
      PROVE  Goal
  BY <1>1, <1>2, <1>3 DEF Adopt!Publish, Adopt!Withdraw
<1>4. ASSUME NEW e \in Twins, NEW v \in Releases, Adopt!BeginAdopt(e, v)
      PROVE  Goal
  <2> DEFINE T == [version : Releases \cup {Adopt!None}, expected : 0 .. MaxAdoptions]
             row == [version |-> v, expected |-> s1[e]]
  <2>1. s6' = [s6 EXCEPT ![e] = row] /\ UNCHANGED <<s1, s2, s3, s4, s5, s7>>
    BY <1>4 DEF Adopt!BeginAdopt
  <2>2. row \in T /\ row.version \in Releases
    <3>1. s1[e] \in 0 .. MaxAdoptions
      <4>1. s1[e] \in 0 .. Len(s3) /\ Len(s3) \in Nat /\ Len(s3) <= MaxAdoptions
        BY AdoptRows DEF Adopt!IInv, Adopt!CallsFit
      <4> QED
        BY <4>1, LibraryAssumption
    <3> QED
      BY <3>1
  <2> HIDE DEF row, T
  <2>3. s6 \in [Twins -> T]
    BY <1>1 DEF T
  <2>4. s6' \in [Twins -> T] /\ \A f \in Twins : s6'[f] = s6[f] \/ s6'[f] = row
    BY <2>1, <2>2, <2>3
  <2>5. \A f \in Twins : s6'[f] # Adopt!NoAdopt => s6'[f].version \in Releases
    BY <1>1, <2>2, <2>4
  <2> QED
    BY <1>1, <1>2, <2>1, <2>4, <2>5 DEF T
<1>5. ASSUME NEW e \in Twins, NEW v \in Releases, Adopt!AdoptAtOnce(e, v)
      PROVE  Goal
  BY <1>5, AdoptionKeeps DEF Adopt!AdoptAtOnce
<1>6. ASSUME NEW e \in Twins, Adopt!Adopt(e)
      PROVE  Goal
  <2>1. s6[e] # Adopt!NoAdopt /\ s6' = [s6 EXCEPT ![e] = Adopt!NoAdopt] /\ UNCHANGED <<s2, s4, s5, s7>>
    BY <1>6 DEF Adopt!Adopt
  <2>2. CASE e \in s2 /\ Adopt!Adoptable(e) /\ Adopt!Unchanged(e)
    <3>1. Adopt!AdoptAs(e, s6[e].version, s1[e]) /\ s4[s6[e].version] = "available" /\ s6[e].version \in Releases
      BY <1>1, <1>6, <2>1, <2>2 DEF Adopt!Adopt, Adopt!Adoptable, Adopt!Unchanged
    <3> QED
      BY <2>1, <2>2, <3>1, AdoptionKeeps
  <2>3. CASE ~(e \in s2 /\ Adopt!Adoptable(e) /\ Adopt!Unchanged(e))
    <3>1. UNCHANGED <<s1, s3>>
      BY <1>6, <2>3 DEF Adopt!Adopt
    <3> DEFINE T == [version : Releases \cup {Adopt!None}, expected : 0 .. MaxAdoptions]
    <3>2. s6 \in [Twins -> T] /\ Adopt!NoAdopt \in T
      BY <1>1, LibraryAssumption DEF Adopt!NoAdopt
    <3> HIDE DEF T
    <3>3. s6' \in [Twins -> T] /\ \A f \in Twins : s6'[f] = s6[f] \/ s6'[f] = Adopt!NoAdopt
      BY <2>1, <3>2
    <3> QED
      BY <1>1, <1>2, <2>1, <3>1, <3>3 DEF T
  <2> QED
    BY <2>2, <2>3
<1>7. ASSUME NEW e \in Twins, NEW r \in BOOLEAN, Adopt!BeginBind(e, r)
      PROVE  Goal
  <2>1. s7' = [s7 EXCEPT ![e] = [on |-> TRUE, detach |-> Adopt!Conflicting(e)]]
        /\ UNCHANGED <<s1, s2, s3, s4, s5, s6>>
    BY <1>7 DEF Adopt!BeginBind
  <2>2. Adopt!Conflicting(e) \in SUBSET Twins
    BY DEF Adopt!Conflicting
  <2>3. s7' \in [Twins -> [on : BOOLEAN, detach : SUBSET Twins]]
    BY <1>1, <2>1, <2>2
  <2> QED
    BY <1>1, <1>2, <2>1, <2>3
<1>8. s7 \in [Twins -> [on : BOOLEAN, detach : SUBSET Twins]] /\ s5 \in [Twins -> Seq(BindingRow)]
  BY <1>1, AdoptRows
<1>9. ASSUME NEW f \in Twins, NEW b \in DOMAIN s5[f]
      PROVE  /\ s5[f][b].status = "active" => s5[f][b].pin = Adopt!None
             /\ s5[f][b].status = "curation-unavailable" => f \notin s2 /\ s5[f][b].pin = Adopt!VersionOf(f)
  BY DEF Adopt!IInv, Adopt!PinsFit
<1>10. ASSUME NEW e \in Twins, Adopt!CreateBinding(e)
       PROVE  Goal
  <2> DEFINE rows == [f \in Twins |-> IF f \in s7[e].detach THEN Adopt!Detached(s5[f]) ELSE s5[f]]
             row == [status |-> "active", pin |-> Adopt!None]
  <2>1. /\ s7' = [s7 EXCEPT ![e] = Adopt!NoBind] /\ UNCHANGED <<s1, s2, s3, s4, s6>>
        /\ s5' = rows \/ s5' = [rows EXCEPT ![e] = Append(rows[e], row)]
    BY <1>10 DEF Adopt!CreateBinding
  <2>2. s7' \in [Twins -> [on : BOOLEAN, detach : SUBSET Twins]]
    BY <1>8, <2>1 DEF Adopt!NoBind
  <2>3. rows \in [Twins -> Seq(BindingRow)]
    BY <1>8, DetachedAre
  <2>4. ASSUME NEW f \in Twins, NEW b \in DOMAIN rows[f]
        PROVE  /\ rows[f][b].status = "active" => rows[f][b].pin = Adopt!None
               /\ rows[f][b].status = "curation-unavailable" => f \notin s2 /\ rows[f][b].pin = Adopt!VersionOf(f)
    <3>1. rows[f] = Adopt!Detached(s5[f]) \/ rows[f] = s5[f]
      OBVIOUS
    <3> HIDE DEF rows
    <3> QED
      BY <1>9, <3>1, DetachedAre
  <2>5. row \in BindingRow /\ row.status = "active" /\ row.pin = Adopt!None
    BY DEF BindingRow
  <2> HIDE DEF rows, row
  <2>6. IsSeq(rows[e]) /\ Append(rows[e], row) \in Seq(BindingRow)
    BY <2>3, <2>5, SeqOfOwn
  <2>7. /\ s5' \in [Twins -> Seq(BindingRow)]
        /\ \A f \in Twins : s5'[f] = rows[f] \/ (f = e /\ s5'[f] = Append(rows[e], row))
    BY <2>1, <2>3, <2>6
  <2>8. /\ DOMAIN Append(rows[e], row) = 1 .. (Len(rows[e]) + 1)
        /\ Append(rows[e], row)[Len(rows[e]) + 1] = row
        /\ \A i \in 1 .. Len(rows[e]) : Append(rows[e], row)[i] = rows[e][i]
        /\ DOMAIN rows[e] = 1 .. Len(rows[e]) /\ Len(rows[e]) \in Nat
    BY <2>6, SeqGrows, SeqFacts
  <2>9. \A i \in 1 .. (Len(rows[e]) + 1) : i \in 1 .. Len(rows[e]) \/ i = Len(rows[e]) + 1
    BY <2>8
  <2>10. ASSUME NEW f \in Twins, NEW b \in DOMAIN s5'[f]
         PROVE  /\ s5'[f][b].status = "active" => s5'[f][b].pin = Adopt!None
                /\ s5'[f][b].status = "curation-unavailable" => f \notin s2 /\ s5'[f][b].pin = Adopt!VersionOf(f)
    BY <2>4, <2>5, <2>7, <2>8, <2>9
  <2> QED
    BY <2>1, <2>2, <2>7, <2>10, BindingsKeep
<1>11. ASSUME NEW e \in Twins, Adopt!DetachBinding(e)
       PROVE  Goal
  <2>1. s5' = [s5 EXCEPT ![e] = Adopt!Detached(s5[e])] /\ UNCHANGED <<s1, s2, s3, s4, s6, s7>>
    BY <1>11 DEF Adopt!DetachBinding
  <2>2. /\ s5' \in [Twins -> Seq(BindingRow)]
        /\ \A f \in Twins : s5'[f] = s5[f] \/ s5'[f] = Adopt!Detached(s5[f])
    BY <1>8, <2>1, DetachedAre
  <2>3. ASSUME NEW f \in Twins, NEW b \in DOMAIN s5'[f]
        PROVE  /\ s5'[f][b].status = "active" => s5'[f][b].pin = Adopt!None
               /\ s5'[f][b].status = "curation-unavailable" => f \notin s2 /\ s5'[f][b].pin = Adopt!VersionOf(f)
    BY <1>9, <2>2, DetachedAre
  <2> QED
    BY <1>8, <2>1, <2>2, <2>3, BindingsKeep
<1>12. ASSUME NEW e \in Twins, Adopt!RemoveEntry(e)
       PROVE  Goal
  <2> DEFINE rows == [b \in DOMAIN s5[e] |-> Adopt!Kept(e, s5[e][b])]
  <2>1. s2' = s2 \ {e} /\ s5' = [s5 EXCEPT ![e] = rows] /\ UNCHANGED <<s1, s3, s4, s6, s7>>
        /\ e \in s2
    BY <1>12 DEF Adopt!RemoveEntry
  <2>2. \A b \in DOMAIN s5[e] : s5[e][b] \in BindingRow
    BY AdoptRows
  <2>3. Adopt!VersionOf(e) \in Releases \cup {Adopt!None}
    BY AdoptRows DEF Adopt!VersionOf
  <2>4. ASSUME NEW b \in DOMAIN s5[e]
        PROVE  /\ Adopt!Kept(e, s5[e][b]) \in BindingRow
               /\ Adopt!Kept(e, s5[e][b]).status # "active"
               /\ Adopt!Kept(e, s5[e][b]).status = "curation-unavailable"
                    => Adopt!Kept(e, s5[e][b]).pin = Adopt!VersionOf(e)
    BY <1>9, <2>1, <2>2, <2>3 DEF Adopt!Kept, BindingRow
  <2>5. Len(s5[e]) \in Nat /\ DOMAIN s5[e] = 1 .. Len(s5[e])
    BY AdoptRows, SeqFacts
  <2>6. rows \in [1 .. Len(s5[e]) -> BindingRow]
    BY <2>4, <2>5
  <2>7. rows \in Seq(BindingRow) /\ DOMAIN rows = DOMAIN s5[e]
    BY <2>5, <2>6, SeqDef
  <2>8. /\ s5' \in [Twins -> Seq(BindingRow)] /\ s5'[e] = rows
        /\ \A f \in Twins \ {e} : s5'[f] = s5[f]
    BY <1>8, <2>1, <2>7
  <2>9. ASSUME NEW f \in Twins, NEW b \in DOMAIN s5'[f]
        PROVE  /\ s5'[f][b].status = "active" => s5'[f][b].pin = Adopt!None
               /\ s5'[f][b].status = "curation-unavailable" => f \notin s2' /\ s5'[f][b].pin = Adopt!VersionOf(f)
    <3>1. CASE f = e
      BY <2>1, <2>4, <2>8, <3>1
    <3>2. CASE f # e
      BY <1>9, <2>1, <2>8, <3>2
    <3> QED
      BY <3>1, <3>2
  <2> QED
    BY <1>8, <2>1, <2>8, <2>9, BindingsKeep
<1>13. CASE UNCHANGED Adopt!vars
  BY <1>1, <1>2, <1>13 DEF Adopt!vars
<1> QED
  BY <1>3, <1>4, <1>5, <1>6, <1>7, <1>10, <1>11, <1>12, <1>13 DEF Adopt!Next

---------------------------------------------------------------------------
(* Checks.                                                                 *)

\* While sources are checked, a step is one of theirs or changes nothing of theirs.
LEMMA CheckSteps ==
  ASSUME part = "checks", [Next]_vars
  PROVE  Check!Next \/ UNCHANGED Check!vars
BY DEF Next, vars, Check!vars, Submission, Authoring, Importing, Adopting, Checking, Improving,
       Reporting, RootLocking, Installing

\* Snapshots.
SnapRow == [commit : Nat \ {0}, complete : BOOLEAN]

\* The rows as the invariant has them.
LEMMA CheckRows ==
  ASSUME Check!SnapsFit
  PROVE  /\ s4 \in Seq(SnapRow) /\ IsSeq(s4) /\ Len(s4) \in Nat /\ DOMAIN s4 = 1 .. Len(s4)
         /\ s3.name \in Twins /\ s3.commit \in Nat /\ s3.commit # 0
         /\ \A s \in DOMAIN s4 : /\ s4[s] \in SnapRow /\ s4[s].commit \in Nat /\ s4[s].commit # 0
                                 /\ s4[s].commit <= s3.commit
         /\ \A s \in 0 .. Len(s4) : Check!CommitOf(s) \in Nat /\ Check!CommitOf(s) <= s3.commit
<1>1. s4 \in Seq(SnapRow)
  BY DEF Check!SnapsFit, SnapRow
<1>2. IsSeq(s4) /\ \A s \in DOMAIN s4 : s4[s] \in SnapRow
  BY <1>1, SeqOfOwn, SeqElements
<1>3. Len(s4) \in Nat /\ DOMAIN s4 = 1 .. Len(s4)
  BY <1>2, SeqFacts
<1>4. \A r \in SnapRow : r.commit \in Nat /\ r.commit # 0
  BY DEF SnapRow
<1>5. s3.name \in Twins /\ s3.commit \in Nat /\ s3.commit # 0
  BY DEF Check!SnapsFit
<1> HIDE DEF SnapRow
<1>6. \A s \in DOMAIN s4 : s4[s].commit <= s3.commit
  BY DEF Check!SnapsFit
<1>7. \A s \in 0 .. Len(s4) : Check!CommitOf(s) \in Nat /\ Check!CommitOf(s) <= s3.commit
  BY <1>2, <1>3, <1>4, <1>5, <1>6 DEF Check!CommitOf
<1> QED
  BY <1>1, <1>2, <1>3, <1>4, <1>5, <1>6, <1>7

\* And as they will be.
LEMMA CheckRowsNext ==
  Check!SnapsFit' =>
    /\ IsSeq(s4') /\ Len(s4') \in Nat /\ DOMAIN s4' = 1 .. Len(s4') /\ s3'.commit \in Nat
    /\ \A s \in DOMAIN s4' : s4'[s].commit \in Nat
<1>1. Check!SnapsFit =>
        /\ IsSeq(s4) /\ Len(s4) \in Nat /\ DOMAIN s4 = 1 .. Len(s4) /\ s3.commit \in Nat
        /\ \A s \in DOMAIN s4 : s4[s].commit \in Nat
  BY CheckRows
<1>2. (Check!SnapsFit =>
        /\ IsSeq(s4) /\ Len(s4) \in Nat /\ DOMAIN s4 = 1 .. Len(s4) /\ s3.commit \in Nat
        /\ \A s \in DOMAIN s4 : s4[s].commit \in Nat)'
  BY <1>1, PTL
<1> QED
  BY <1>2

\* Nothing was checked at the start.
LEMMA CheckInit == Check!Init => Check!IInv
<1> SUFFICES ASSUME Check!Init PROVE Check!IInv
  OBVIOUS
<1>1. PICK n \in Twins :
        /\ s1 = [status |-> "active", mode |-> "scheduled", next |-> "later", health |-> "healthy",
                 ack |-> n, pending |-> Check!Nobody, lease |-> Check!Free, lapsed |-> FALSE,
                 revision |-> 1, good |-> 0, goodBy |-> Check!Nobody, halted |-> FALSE]
        /\ s3 = [name |-> n, commit |-> 1]
  BY DEF Check!Init
<1>2. /\ s2 = TRUE /\ s4 = <<>> /\ s6 = [c \in Requests |-> Check!Idle] /\ s7 = Check!Idle
      /\ s8 = [revision |-> 0, pending |-> Check!Nobody]
  BY DEF Check!Init
<1>3. Len(s4) = 0 /\ DOMAIN s4 = {} /\ s4 \in Seq(SnapRow)
  BY <1>2
<1>4. Check!SnapsFit
  BY <1>1, <1>3 DEF Check!SnapsFit, SnapRow
<1>5. Check!EntryFits(s1)
  <2>1. s1 \in Check!EntryRow
    BY <1>1, <1>3 DEF Check!EntryRow, Check!Healths
  <2>2. Check!Nobody \notin Requests
    BY LibraryAssumption
  <2> QED
    BY <1>1, <2>1, <2>2 DEF Check!EntryFits
<1>6. Check!CallFits(Check!Idle) /\ Check!Idle \in Check!CallRow /\ Check!Idle.pc = "idle"
  BY <1>3 DEF Check!CallFits, Check!CallRow, Check!Idle, Check!Points
<1>7. Check!ViewFits(s1) /\ Check!LeaseFits(s1) /\ s8 \in [revision : Nat, pending : Twins \cup {Check!Nobody}]
  BY <1>1, <1>2, <1>6 DEF Check!ViewFits, Check!LeaseFits
<1> QED
  BY <1>2, <1>4, <1>5, <1>6, <1>7 DEF Check!IInv

\* Snapshots, commits and announcements only come to what is there.
Grown ==
  /\ Check!SnapsFit' /\ Len(s4) <= Len(s4')
  /\ \A s \in DOMAIN s4 : s \in DOMAIN s4' /\ s4'[s] = s4[s]
  /\ s3.commit <= s3'.commit /\ s5 \subseteq s5'

\* What fitted still fits.
LEMMA FitsOn ==
  ASSUME Check!IInv, Grown
  PROVE  /\ \A r : Check!CallFits(r) => Check!CallFits(r)'
         /\ \A row : Check!EntryFits(row) => Check!EntryFits(row)'
         /\ \A s \in 0 .. Len(s4) : Check!CommitOf(s)' = Check!CommitOf(s)
         /\ Check!CallRow \subseteq Check!CallRow' /\ Check!EntryRow \subseteq Check!EntryRow'
<1>1. /\ Len(s4) \in Nat /\ DOMAIN s4 = 1 .. Len(s4) /\ Len(s4') \in Nat /\ DOMAIN s4' = 1 .. Len(s4')
      /\ s3.commit \in Nat /\ s3'.commit \in Nat
  BY CheckRows, CheckRowsNext DEF Grown, Check!IInv
<1>2. 0 .. Len(s4) \subseteq 0 .. Len(s4')
  BY <1>1 DEF Grown
<1>3. Check!CallRow \subseteq Check!CallRow' /\ Check!EntryRow \subseteq Check!EntryRow'
  BY <1>2 DEF Check!CallRow, Check!EntryRow
<1>4. \A s \in 0 .. Len(s4) : Check!CommitOf(s)' = Check!CommitOf(s)
  BY <1>1 DEF Grown, Check!CommitOf
<1>5. ASSUME NEW r, Check!CallFits(r) PROVE Check!CallFits(r)'
  <2>1. r \in Check!CallRow /\ r.good \in 0 .. Len(s4) /\ r.snap \in 0 .. Len(s4) /\ r.commit \in Nat
    BY <1>5 DEF Check!CallFits, Check!CallRow
  <2>2. /\ Check!CommitOf(r.good)' = Check!CommitOf(r.good) /\ Check!CommitOf(r.snap)' = Check!CommitOf(r.snap)
        /\ r.good # 0 => s4'[r.good] = s4[r.good]
        /\ r.snap # 0 => s4'[r.snap] = s4[r.snap]
    BY <1>1, <1>4, <2>1 DEF Grown
  <2>3. 1 .. s3.commit \subseteq 1 .. s3'.commit
    BY <1>1 DEF Grown
  <2> QED
    BY <1>3, <1>5, <2>1, <2>2, <2>3 DEF Grown, Check!CallFits
<1>6. ASSUME NEW row, Check!EntryFits(row) PROVE Check!EntryFits(row)'
  <2>1. row \in Check!EntryRow /\ row.good \in 0 .. Len(s4)
    BY <1>6 DEF Check!EntryFits, Check!EntryRow
  <2>2. row.good # 0 => s4'[row.good] = s4[row.good]
    BY <1>1, <2>1 DEF Grown
  <2> QED
    BY <1>3, <1>6, <2>1, <2>2 DEF Check!EntryFits
<1> QED
  BY <1>3, <1>4, <1>5, <1>6

\* What a step that sets no last good snapshot owes.
CheckGoal == Check!IInv' /\ Check!AcceptsWhatWasSeenStep /\ Check!ChecksMoveForwardStep

\* An entry is given back or not, and shows a rename until a curator, having seen it,
\* accepts it.
EntryMay ==
  /\ Check!EntryFits(s1)'
  /\ s1'.lease \in {s1.lease, Check!Free} /\ s1'.good = s1.good /\ s1'.goodBy = s1.goodBy
  /\ s1'.revision >= s1.revision
  /\ s1'.revision = s1.revision => s1'.pending \in {s1.pending, Check!Nobody}
  /\ s1'.ack = s1.ack \/ s1'.ack = s8.pending

\* A curator looks, or does not.
ViewMay == s8' = s8 \/ (s8' = [revision |-> s1.revision, pending |-> s1.pending] /\ s1' = s1)

\* A call moves on or ends.
CallMay(c, r) ==
  /\ s6' = s6 \/ s6' = [s6 EXCEPT ![c] = r]
  /\ r.pc = "idle" \/ (r.good = s6[c].good /\ s6[c].pc # "idle")

\* Then the invariant stays.
LEMMA CheckMoves ==
  ASSUME Check!IInv, Grown, EntryMay, ViewMay, Check!CallFits(s7)', s2' \in BOOLEAN,
         NEW c, NEW r, CallMay(c, r), Check!CallFits(r)'
  PROVE  CheckGoal
<1>1. /\ s6 \in [Requests -> Check!CallRow] /\ \A d \in Requests : Check!CallFits(s6[d])
      /\ s8 \in [revision : Nat, pending : Twins \cup {Check!Nobody}]
      /\ Check!ViewFits(s1) /\ Check!LeaseFits(s1)
      /\ s1 \in Check!EntryRow
  BY DEF Check!IInv, Check!EntryFits
<1>2. s6 \in [Requests -> Check!CallRow'] /\ \A d \in Requests : \A q : q = s6[d] => Check!CallFits(q)'
  <2>1. Check!CallRow \subseteq Check!CallRow'
    BY FitsOn
  <2>2. \A d \in Requests : \A q : q = s6[d] => Check!CallFits(q)'
    <3>1. \A q : Check!CallFits(q) => Check!CallFits(q)'
      BY FitsOn
    <3> QED
      BY <1>1, <3>1
  <2> QED
    BY <1>1, <2>1, <2>2
<1>3. r \in Check!CallRow'
  BY DEF Check!CallFits
<1>4. /\ s6' \in [Requests -> Check!CallRow']
      /\ \A d \in Requests : s6'[d] = s6[d] \/ (d = c /\ s6'[d] = r)
  BY <1>2, <1>3 DEF CallMay
<1>5. \A d \in Requests : \A q : q = s6'[d] => Check!CallFits(q)'
  BY <1>2, <1>4
<1>6. s1.revision \in Nat /\ s1'.revision \in Nat /\ s8.revision \in Nat /\ s1.pending \in Twins \cup {Check!Nobody}
  BY <1>1 DEF Check!EntryRow, Check!EntryFits, EntryMay
<1>7. s8' \in [revision : Nat, pending : Twins \cup {Check!Nobody}]
  BY <1>1, <1>6 DEF ViewMay
<1>8. Check!ViewFits(s1)'
  BY <1>1, <1>6 DEF Check!ViewFits, EntryMay, ViewMay
<1>9. Check!LeaseFits(s1)'
  <2>1. Check!Free \notin Requests
    BY LibraryAssumption
  <2> QED
    BY <1>1, <1>4, <2>1 DEF Check!LeaseFits, EntryMay, CallMay
<1>10. Check!IInv'
  BY <1>4, <1>5, <1>7, <1>8, <1>9 DEF Check!IInv, Grown, EntryMay
<1> QED
  BY <1>10 DEF CheckGoal, EntryMay, Check!AcceptsWhatWasSeenStep, Check!ChecksMoveForwardStep

\* A row as it is written: the fields, each by its name.
Row(status, mode, next, health, ack, pending, lease, lapsed, revision, good, goodBy, halted) ==
  [status |-> status, mode |-> mode, next |-> next, health |-> health, ack |-> ack, pending |-> pending,
   lease |-> lease, lapsed |-> lapsed, revision |-> revision, good |-> good, goodBy |-> goodBy,
   halted |-> halted]

\* What the entry holds.
LEMMA EntryIs ==
  ASSUME Check!EntryFits(s1)
  PROVE  /\ s1 = Row(s1.status, s1.mode, s1.next, s1.health, s1.ack, s1.pending, s1.lease, s1.lapsed,
                     s1.revision, s1.good, s1.goodBy, s1.halted)
         /\ s1 \in Check!EntryRow
         /\ s1.status \in {"active", "removed"} /\ s1.mode \in {"off", "scheduled"}
         /\ s1.next \in {"none", "later", "due"} /\ s1.health \in Check!Healths
         /\ s1.ack \in Twins /\ s1.pending \in Twins \cup {Check!Nobody}
         /\ s1.lease \in Requests \cup {Check!Free} /\ s1.lapsed \in BOOLEAN /\ s1.revision \in Nat
         /\ s1.good \in 0 .. Len(s4) /\ s1.goodBy \in Requests \cup {Check!Nobody, "discovery"}
         /\ s1.halted \in BOOLEAN
<1>1. s1 \in Check!EntryRow
  BY DEF Check!EntryFits
<1> QED
  BY <1>1 DEF Check!EntryRow, Row

\* What a call holds.
LEMMA CallIs ==
  ASSUME NEW r, Check!CallFits(r)
  PROVE  /\ r = [pc |-> r.pc, ack |-> r.ack, good |-> r.good, name |-> r.name, commit |-> r.commit,
                 snap |-> r.snap]
         /\ r \in Check!CallRow
         /\ r.pc \in Check!Points /\ r.ack \in Twins \cup {Check!Nobody} /\ r.good \in 0 .. Len(s4)
         /\ r.name \in Twins \cup {Check!Nobody} /\ r.commit \in Nat /\ r.snap \in 0 .. Len(s4)
BY DEF Check!CallFits, Check!CallRow

\* A call that is over fits always.
LEMMA IdleFits ==
  ASSUME Check!SnapsFit
  PROVE  Check!CallFits(Check!Idle) /\ Check!Idle.pc = "idle"
<1>1. 0 \in 0 .. Len(s4)
  BY CheckRows
<1>2. Check!Idle \in Check!CallRow
  BY <1>1 DEF Check!Idle, Check!CallRow, Check!Points
<1> QED
  BY <1>2 DEF Check!CallFits, Check!Idle

\* A step that leaves snapshots, commits and announcements alone lets nothing shrink.
LEMMA GrownNot ==
  ASSUME Check!IInv, UNCHANGED <<s3, s4, s5>>
  PROVE  /\ Grown /\ \A r : Check!CallFits(r)' <=> Check!CallFits(r)
         /\ \A row : Check!EntryFits(row)' <=> Check!EntryFits(row)
<1>1. Check!SnapsFit'
  BY DEF Check!IInv, Check!SnapsFit
<1>2. Len(s4) \in Nat /\ s3.commit \in Nat
  BY CheckRows DEF Check!IInv
<1> QED
  BY <1>1, <1>2 DEF Grown, Check!CallFits, Check!EntryFits, Check!CallRow, Check!EntryRow, Check!CommitOf

\* An entry that no step writes.
LEMMA EntryRests ==
  ASSUME Check!IInv, Grown, UNCHANGED s1
  PROVE  EntryMay
<1>1. Check!EntryFits(s1) /\ s1.revision \in Nat
  BY EntryIs DEF Check!IInv
<1>2. Check!EntryFits(s1)'
  BY <1>1, FitsOn
<1> QED
  BY <1>1, <1>2 DEF EntryMay

\* Calls that move on without a write to the entry.
LEMMA PhasesKeep ==
  ASSUME Check!IInv, NEW c \in Requests,
         \/ Check!LeaseLost(c) \/ Check!Unauthorized(c) \/ Check!Begin(c) \/ Check!Renew(c)
         \/ Check!Announce(c) \/ Check!Die(c)
  PROVE  CheckGoal
<1>1. /\ Check!SnapsFit /\ Check!CallFits(s7) /\ Check!CallFits(s6[c])
      /\ s2 \in BOOLEAN /\ s6 \in [Requests -> Check!CallRow]
  BY DEF Check!IInv
<1>3. ASSUME NEW r, s6' = [s6 EXCEPT ![c] = r], Check!CallFits(r)', Grown,
             r.pc = "idle" \/ (r.good = s6[c].good /\ s6[c].pc # "idle"), UNCHANGED <<s1, s2, s7, s8>>
      PROVE  CheckGoal
  <2>1. EntryMay /\ ViewMay /\ CallMay(c, r)
    BY <1>3, EntryRests DEF ViewMay, CallMay
  <2>2. Check!CallFits(s7)'
    BY <1>1, <1>3, FitsOn
  <2> QED
    BY <1>1, <1>3, <2>1, <2>2, CheckMoves
<1>4. ASSUME NEW r, s6' = [s6 EXCEPT ![c] = r], Check!CallFits(r), UNCHANGED <<s1, s2, s3, s4, s5, s7, s8>>,
             r.pc = "idle" \/ (r.good = s6[c].good /\ s6[c].pc # "idle")
      PROVE  CheckGoal
  BY <1>3, <1>4, GrownNot
<1>5. CASE Check!LeaseLost(c) \/ Check!Die(c)
  <2>1. s6' = [s6 EXCEPT ![c] = Check!Idle] /\ UNCHANGED <<s1, s2, s3, s4, s5, s7, s8>>
    BY <1>5 DEF Check!LeaseLost, Check!Die, Check!Done
  <2> QED
    BY <1>1, <1>4, <2>1, IdleFits
<1>6. CASE Check!Unauthorized(c)
  <2>1. PICK old, r : old = s6[c] /\ r = [old EXCEPT !.pc = "unauthorized"]
    OBVIOUS
  <2>2. s6' = [s6 EXCEPT ![c] = r] /\ UNCHANGED <<s1, s2, s3, s4, s5, s7, s8>> /\ old.pc # "idle"
    BY <1>1, <1>6, <2>1 DEF Check!Unauthorized, Check!Goto
  <2>3. /\ r.pc = "unauthorized" /\ r.good = old.good /\ r.commit = old.commit
        /\ r \in Check!CallRow /\ Check!CallFits(old)
    BY <1>1, <2>1, CallIs DEF Check!CallRow, Check!Points
  <2>4. Check!CallFits(r)
    BY <2>2, <2>3 DEF Check!CallFits
  <2> QED
    BY <1>4, <2>1, <2>2, <2>3, <2>4
<1>7. CASE Check!Renew(c)
  <2>1. PICK old, r : old = s6[c] /\ r = [old EXCEPT !.pc = "store"]
    OBVIOUS
  <2>2. s6' = [s6 EXCEPT ![c] = r] /\ UNCHANGED <<s1, s2, s3, s4, s5, s7, s8>> /\ old.pc = "renew"
    BY <1>1, <1>7, <2>1 DEF Check!Renew, Check!Goto
  <2>3. /\ r.pc = "store" /\ r.good = old.good /\ r.commit = old.commit
        /\ r \in Check!CallRow /\ Check!CallFits(old)
    BY <1>1, <2>1, CallIs DEF Check!CallRow, Check!Points
  <2>4. Check!CallFits(r)
    BY <2>2, <2>3 DEF Check!CallFits
  <2> QED
    BY <1>4, <2>1, <2>2, <2>3, <2>4
<1>8. CASE Check!Announce(c)
  <2>1. PICK old, r, pair :
          /\ old = s6[c] /\ r = [old EXCEPT !.pc = "finish"]
          /\ pair = <<Check!CommitOf(old.good), Check!CommitOf(old.snap)>>
    OBVIOUS
  <2>2. /\ s6' = [s6 EXCEPT ![c] = r] /\ UNCHANGED <<s1, s2, s3, s4, s7, s8>> /\ old.pc = "announce"
        /\ s5' = IF old.good = 0 THEN s5 ELSE s5 \cup {pair}
    BY <1>1, <1>8, <2>1 DEF Check!Announce, Check!Goto
  <2>3. Grown
    <3>1. Check!SnapsFit'
      BY <1>1, <2>2 DEF Check!SnapsFit
    <3>2. Len(s4) \in Nat /\ s3.commit \in Nat
      BY <1>1, CheckRows
    <3> QED
      BY <2>2, <3>1, <3>2 DEF Grown
  <2>4. Check!CallFits(old) /\ Check!CallFits(old)'
    BY <1>1, <2>1, <2>3, FitsOn
  <2>5. r.good = old.good /\ r.snap = old.snap /\ r.pc = "finish" /\ r \in Check!CallRow
    BY <2>1, <2>4, CallIs DEF Check!CallRow, Check!Points
  <2>6. Check!CallFits(r)'
    <3>1. r.good = 0 \/ pair \in s5'
      BY <2>2, <2>5
    <3>2. Check!CommitOf(r.good)' = Check!CommitOf(old.good) /\ Check!CommitOf(r.snap)' = Check!CommitOf(old.snap)
      BY <2>2, <2>5 DEF Check!CommitOf
    <3>3. Check!CommitOf(old.good) <= Check!CommitOf(old.snap) /\ old.snap # 0 /\ s4[old.snap].complete
          /\ (old.good # 0 => s4[old.good].complete)
      BY <2>2, <2>4 DEF Check!CallFits
    <3>4. Check!CallRow' = Check!CallRow
      BY <2>2 DEF Check!CallRow
    <3> QED
      BY <2>1, <2>2, <2>5, <3>1, <3>2, <3>3, <3>4 DEF Check!CallFits
  <2> QED
    BY <1>3, <2>1, <2>2, <2>3, <2>5, <2>6
<1>9. CASE Check!Begin(c)
  <2>1. PICK old, np, ns, nm, cm, r :
          /\ old = s6[c] /\ np = Check!NextPhase(c) /\ ns = Check!SnapshotFor(c)
          /\ nm = IF np = "renamed" THEN s3.name ELSE Check!Nobody
          /\ cm = IF np = "renew" THEN s3.commit ELSE 0
          /\ r = [pc |-> np, ack |-> Check!Nobody, good |-> old.good, name |-> nm, commit |-> cm, snap |-> ns]
    OBVIOUS
  <2>2. UNCHANGED <<s1, s2, s3, s4, s5, s7, s8>> /\ old.pc = "begin" /\ Check!CallFits(old)
    BY <1>1, <1>9, <2>1 DEF Check!Begin
  <2>3. s6' = [s6 EXCEPT ![c] = r]
    <3>1. old = [pc |-> old.pc, ack |-> old.ack, good |-> old.good, name |-> old.name, commit |-> old.commit,
                 snap |-> old.snap]
      BY <2>2, CallIs
    <3>2. PICK x : x = [old EXCEPT !.pc = np, !.snap = ns]
      OBVIOUS
    <3>3. x = [pc |-> np, ack |-> old.ack, good |-> old.good, name |-> old.name, commit |-> old.commit,
               snap |-> ns]
      BY <3>1, <3>2
    <3>4. PICK y : y = [x EXCEPT !.ack = Check!Nobody, !.name = nm]
      OBVIOUS
    <3>5. y = [pc |-> np, ack |-> Check!Nobody, good |-> old.good, name |-> nm, commit |-> old.commit,
               snap |-> ns]
      BY <3>3, <3>4
    <3>6. [y EXCEPT !.commit = cm] = r
      BY <2>1, <3>5
    <3>7. [old EXCEPT !.pc = np, !.snap = ns, !.ack = Check!Nobody, !.name = nm, !.commit = cm] = r
      BY ONLY <3>2, <3>4, <3>6
    <3>8. s6' = [s6 EXCEPT ![c] = [old EXCEPT !.pc = np, !.snap = ns, !.ack = Check!Nobody,
                                              !.name = nm, !.commit = cm]]
      BY <1>1, <1>9, <2>1 DEF Check!Begin
    <3> QED
      BY ONLY <3>7, <3>8
  <2>4. /\ old.good \in 0 .. Len(s4) /\ Len(s4) \in Nat /\ DOMAIN s4 = 1 .. Len(s4)
        /\ s3.commit \in Nat /\ s3.commit # 0
        /\ s3.name \in Twins
        /\ old.good # 0 => s4[old.good].complete
        /\ Check!CommitOf(old.good) \in Nat /\ Check!CommitOf(old.good) <= s3.commit
    BY <1>1, <2>2, CallIs, CheckRows DEF Check!CallFits
  <2>5. /\ np \in {"renamed", "finish", "announce", "renew"}
        /\ np = "finish" => Check!CommitOf(old.good) = s3.commit /\ ns = old.good
        /\ np = "announce" => Check!Reusable(s3.commit) /\ ns = Len(s4)
        /\ np \in {"renamed", "renew"} => ns = 0
    BY <2>1 DEF Check!NextPhase, Check!SnapshotFor
  <2>6. r \in Check!CallRow
    BY <2>1, <2>4, <2>5 DEF Check!CallRow, Check!Points
  <2>7. /\ r.pc = np /\ r.good = old.good /\ r.snap = ns
        /\ np = "renamed" => r.name = s3.name
        /\ np = "renew" => r.commit = s3.commit
    BY <2>1
  <2>8. np = "finish" => old.good # 0
    BY <2>4, <2>5 DEF Check!CommitOf
  <2>9. np = "announce" => ns # 0 /\ ns \in DOMAIN s4 /\ s4[ns].complete /\ s4[ns].commit = s3.commit
    <3>1. CASE np = "announce"
      <4>1. s4 # <<>> /\ Check!Last(s4).complete /\ Check!Last(s4).commit = s3.commit
        BY <2>5, <3>1 DEF Check!Reusable
      <4>2. Len(s4) # 0
        BY <1>1, <4>1, CheckRows, EmptySeq
      <4> QED
        BY <2>4, <2>5, <3>1, <4>1, <4>2 DEF Check!Last
    <3> QED
      BY <3>1
  <2>10. Check!CallFits(r)
    <3>1. np = "announce" => Check!CommitOf(ns) = s3.commit
      BY <2>9 DEF Check!CommitOf
    <3> QED
      BY <2>4, <2>5, <2>6, <2>7, <2>8, <2>9, <3>1 DEF Check!CallFits
  <2> QED
    BY <1>4, <2>1, <2>2, <2>3, <2>7, <2>10
<1> QED
  BY <1>5, <1>6, <1>7, <1>8, <1>9

\* A row that is given back.
LEMMA ReleasedFits ==
  ASSUME NEW x, Check!EntryFits(x), NEW row, row = Check!Release(x)
  PROVE  /\ Check!EntryFits(row) /\ row.lease = Check!Free
         /\ row.good = x.good /\ row.goodBy = x.goodBy /\ row.revision = x.revision
         /\ row.pending = x.pending /\ row.ack = x.ack
<1>1. PICK y, no : no = FALSE /\ y = [x EXCEPT !.lease = Check!Free]
  OBVIOUS
<1>2. x \in Check!EntryRow
  BY DEF Check!EntryFits
<1>3. /\ y \in Check!EntryRow /\ y.lease = Check!Free /\ y.status = x.status /\ y.health = x.health
      /\ y.good = x.good /\ y.goodBy = x.goodBy /\ y.revision = x.revision
      /\ y.pending = x.pending /\ y.ack = x.ack
  BY <1>1, <1>2 DEF Check!EntryRow
<1>4. row = [y EXCEPT !.lapsed = no]
  BY ONLY <1>1, row = Check!Release(x) DEF Check!Release
<1>5. /\ row \in Check!EntryRow /\ row.lease = y.lease /\ row.status = y.status /\ row.health = y.health
      /\ row.good = y.good /\ row.goodBy = y.goodBy /\ row.revision = y.revision
      /\ row.pending = y.pending /\ row.ack = y.ack
  <2>1. no \in BOOLEAN
    BY <1>1
  <2> QED
    BY <1>3, <1>4, <2>1 DEF Check!EntryRow
<1> QED
  BY <1>3, <1>5 DEF Check!EntryFits

\* The row of a repository that was found under another name.
LEMMA MarkedIs ==
  ASSUME Check!EntryFits(s1), NEW name, NEW v, v = IF s1.pending = name THEN s1.revision ELSE s1.revision + 1
  PROVE  Check!Marked(name)
           = Row(s1.status, s1.mode, s1.next, Check!Review, s1.ack, name, s1.lease, s1.lapsed,
                 v, s1.good, s1.goodBy, s1.halted)
<1>1. PICK x : x = [s1 EXCEPT !.health = Check!Review, !.pending = name]
  OBVIOUS
<1>2. x = Row(s1.status, s1.mode, s1.next, Check!Review, s1.ack, name, s1.lease, s1.lapsed,
              s1.revision, s1.good, s1.goodBy, s1.halted)
  BY <1>1, EntryIs DEF Row
<1>3. [x EXCEPT !.revision = v]
        = Row(s1.status, s1.mode, s1.next, Check!Review, s1.ack, name, s1.lease, s1.lapsed,
              v, s1.good, s1.goodBy, s1.halted)
  BY <1>2 DEF Row
<1>4. Check!Marked(name) = [x EXCEPT !.revision = IF s1.pending = name THEN @ ELSE @ + 1]
  BY <1>1 DEF Check!Marked
<1>5. x.revision = s1.revision
  BY <1>2 DEF Row
<1> QED
  BY <1>3, <1>4, <1>5

\* It fits, and shows that name.
LEMMA MarkedFits ==
  ASSUME Check!EntryFits(s1), NEW name \in Twins, NEW x, x = Check!Marked(name),
         NEW v, v = IF s1.pending = name THEN s1.revision ELSE s1.revision + 1
  PROVE  /\ Check!EntryFits(x) /\ x.good = s1.good /\ x.goodBy = s1.goodBy /\ x.ack = s1.ack
         /\ x.lease = s1.lease /\ x.revision = v /\ x.pending = name
<1>1. x = Row(s1.status, s1.mode, s1.next, Check!Review, s1.ack, name, s1.lease, s1.lapsed,
              v, s1.good, s1.goodBy, s1.halted)
  BY MarkedIs
<1>2. /\ s1.status \in {"active", "removed"} /\ s1.mode \in {"off", "scheduled"}
      /\ s1.next \in {"none", "later", "due"} /\ s1.ack \in Twins
      /\ s1.lease \in Requests \cup {Check!Free} /\ s1.lapsed \in BOOLEAN /\ s1.revision \in Nat
      /\ s1.good \in 0 .. Len(s4) /\ s1.goodBy \in Requests \cup {Check!Nobody, "discovery"}
      /\ s1.halted \in BOOLEAN
  BY EntryIs
<1>3. Check!Review \in Check!Healths /\ v \in Nat /\ name \in Twins \cup {Check!Nobody}
  BY <1>2 DEF Check!Healths
<1>4. x \in Check!EntryRow
  BY <1>1, <1>2, <1>3 DEF Row, Check!EntryRow
<1>5. /\ x.health = Check!Review /\ x.good = s1.good /\ x.goodBy = s1.goodBy /\ x.ack = s1.ack
      /\ x.lease = s1.lease /\ x.revision = v /\ x.pending = name
  BY <1>1 DEF Row
<1> QED
  BY <1>4, <1>5 DEF Check!EntryFits

\* The row of a source whose tracking stops for want of a curator.
LEMMA PausedIs ==
  ASSUME Check!EntryFits(s1)
  PROVE  [s1 EXCEPT !.health = "paused", !.next = "none", !.halted = TRUE, !.revision = @ + 1]
           = Row(s1.status, s1.mode, "none", "paused", s1.ack, s1.pending, s1.lease, s1.lapsed,
                 s1.revision + 1, s1.good, s1.goodBy, TRUE)
<1>0. PICK yes : yes = TRUE
  OBVIOUS
<1>1. PICK x : x = [s1 EXCEPT !.health = "paused", !.next = "none"]
  OBVIOUS
<1>2. x = Row(s1.status, s1.mode, "none", "paused", s1.ack, s1.pending, s1.lease, s1.lapsed,
              s1.revision, s1.good, s1.goodBy, s1.halted)
  BY <1>1, EntryIs DEF Row
<1>3. PICK y : y = [x EXCEPT !.halted = yes]
  OBVIOUS
<1>4. y = Row(s1.status, s1.mode, "none", "paused", s1.ack, s1.pending, s1.lease, s1.lapsed,
              s1.revision, s1.good, s1.goodBy, yes)
  BY <1>2, <1>3 DEF Row
<1>5. PICK v : v = s1.revision + 1
  OBVIOUS
<1>6. y.revision + 1 = v
  BY <1>4, <1>5 DEF Row
<1>7. [y EXCEPT !.revision = v]
        = Row(s1.status, s1.mode, "none", "paused", s1.ack, s1.pending, s1.lease, s1.lapsed,
              v, s1.good, s1.goodBy, yes)
  BY <1>4 DEF Row
<1>8. [s1 EXCEPT !.health = "paused", !.next = "none", !.halted = TRUE, !.revision = @ + 1]
        = [y EXCEPT !.revision = v]
  BY ONLY <1>1, <1>3, <1>6, <1>0
<1> QED
  BY ONLY <1>5, <1>7, <1>8, <1>0

\* The row of a source after a check that failed.
LEMMA FailedIs ==
  ASSUME Check!EntryFits(s1), NEW h, h = IF s1.pending # Check!Nobody THEN Check!Review ELSE "failing"
  PROVE  Check!Failed = Row(s1.status, s1.mode, Check!Scheduled(s1.mode), h, s1.ack, s1.pending, s1.lease,
                            s1.lapsed, s1.revision, s1.good, s1.goodBy, s1.halted)
<1>1. PICK x : x = [s1 EXCEPT !.health = h]
  OBVIOUS
<1>2. x = Row(s1.status, s1.mode, s1.next, h, s1.ack, s1.pending, s1.lease, s1.lapsed, s1.revision,
              s1.good, s1.goodBy, s1.halted)
  BY <1>1, EntryIs DEF Row
<1>3. [x EXCEPT !.next = Check!Scheduled(s1.mode)]
        = Row(s1.status, s1.mode, Check!Scheduled(s1.mode), h, s1.ack, s1.pending, s1.lease,
              s1.lapsed, s1.revision, s1.good, s1.goodBy, s1.halted)
  BY <1>2 DEF Row
<1>4. Check!Failed = [x EXCEPT !.next = Check!Scheduled(s1.mode)]
  BY ONLY <1>1, h = IF s1.pending # Check!Nobody THEN Check!Review ELSE "failing" DEF Check!Failed
<1> QED
  BY ONLY <1>3, <1>4

\* The row of a source after a check that succeeded.
LEMMA SucceededIs ==
  ASSUME Check!EntryFits(s1), NEW c
  PROVE  Check!Succeeded(c)
           = Row(s1.status, s1.mode, Check!Scheduled(s1.mode), "healthy", s1.ack, Check!Nobody, s1.lease,
                 s1.lapsed, s1.revision, s6[c].snap, c, s1.halted)
<1>1. PICK x : x = [s1 EXCEPT !.health = "healthy", !.pending = Check!Nobody]
  OBVIOUS
<1>2. x = Row(s1.status, s1.mode, s1.next, "healthy", s1.ack, Check!Nobody, s1.lease,
              s1.lapsed, s1.revision, s1.good, s1.goodBy, s1.halted)
  BY <1>1, EntryIs DEF Row
<1>3. PICK y : y = [x EXCEPT !.next = Check!Scheduled(s1.mode), !.good = s6[c].snap]
  OBVIOUS
<1>4. y = Row(s1.status, s1.mode, Check!Scheduled(s1.mode), "healthy", s1.ack, Check!Nobody, s1.lease,
              s1.lapsed, s1.revision, s6[c].snap, s1.goodBy, s1.halted)
  BY <1>2, <1>3 DEF Row
<1>5. [y EXCEPT !.goodBy = c]
        = Row(s1.status, s1.mode, Check!Scheduled(s1.mode), "healthy", s1.ack, Check!Nobody, s1.lease,
              s1.lapsed, s1.revision, s6[c].snap, c, s1.halted)
  BY <1>4 DEF Row
<1>6. Check!Succeeded(c) = [y EXCEPT !.goodBy = c]
  BY ONLY <1>1, <1>3 DEF Check!Succeeded
<1> QED
  BY <1>5, <1>6

\* The row that an edit of the tracking leaves, before it is given back.
LEMMA EditedIs ==
  ASSUME Check!EntryFits(s1), NEW m, NEW n, NEW h, NEW a, NEW p
  PROVE  [s1 EXCEPT !.mode = m, !.next = n, !.health = h, !.ack = a, !.pending = p, !.halted = FALSE,
                    !.revision = @ + 1]
           = Row(s1.status, m, n, h, a, p, s1.lease, s1.lapsed, s1.revision + 1, s1.good, s1.goodBy, FALSE)
<1>0. PICK no : no = FALSE
  OBVIOUS
<1>1. PICK x : x = [s1 EXCEPT !.mode = m, !.next = n]
  OBVIOUS
<1>2. x = Row(s1.status, m, n, s1.health, s1.ack, s1.pending, s1.lease, s1.lapsed, s1.revision, s1.good,
              s1.goodBy, s1.halted)
  BY <1>1, EntryIs DEF Row
<1>3. PICK y : y = [x EXCEPT !.health = h, !.ack = a]
  OBVIOUS
<1>4. y = Row(s1.status, m, n, h, a, s1.pending, s1.lease, s1.lapsed, s1.revision, s1.good, s1.goodBy,
              s1.halted)
  BY <1>2, <1>3 DEF Row
<1>5. PICK z : z = [y EXCEPT !.pending = p, !.halted = no]
  OBVIOUS
<1>6. z = Row(s1.status, m, n, h, a, p, s1.lease, s1.lapsed, s1.revision, s1.good, s1.goodBy, no)
  BY <1>4, <1>5 DEF Row
<1>7. PICK v : v = s1.revision + 1
  OBVIOUS
<1>8. z.revision + 1 = v
  BY <1>6, <1>7 DEF Row
<1>9. [z EXCEPT !.revision = v]
        = Row(s1.status, m, n, h, a, p, s1.lease, s1.lapsed, v, s1.good, s1.goodBy, no)
  BY <1>6 DEF Row
<1>10. [s1 EXCEPT !.mode = m, !.next = n, !.health = h, !.ack = a, !.pending = p, !.halted = FALSE,
                  !.revision = @ + 1] = [z EXCEPT !.revision = v]
  BY ONLY <1>1, <1>3, <1>5, <1>8, <1>0
<1> QED
  BY ONLY <1>7, <1>9, <1>10, <1>0

\* The row of a source that was removed, before it is given back.
LEMMA RemovedIs ==
  ASSUME Check!EntryFits(s1)
  PROVE  [s1 EXCEPT !.status = "removed", !.mode = "off", !.next = "none", !.health = "not-tracked",
                    !.revision = @ + 1]
           = Row("removed", "off", "none", "not-tracked", s1.ack, s1.pending, s1.lease, s1.lapsed,
                 s1.revision + 1, s1.good, s1.goodBy, s1.halted)
<1>1. PICK x : x = [s1 EXCEPT !.status = "removed", !.mode = "off"]
  OBVIOUS
<1>2. x = Row("removed", "off", s1.next, s1.health, s1.ack, s1.pending, s1.lease, s1.lapsed, s1.revision,
              s1.good, s1.goodBy, s1.halted)
  BY <1>1, EntryIs DEF Row
<1>3. PICK y : y = [x EXCEPT !.next = "none", !.health = "not-tracked"]
  OBVIOUS
<1>4. y = Row("removed", "off", "none", "not-tracked", s1.ack, s1.pending, s1.lease, s1.lapsed,
              s1.revision, s1.good, s1.goodBy, s1.halted)
  BY <1>2, <1>3 DEF Row
<1>5. [y EXCEPT !.revision = @ + 1]
        = Row("removed", "off", "none", "not-tracked", s1.ack, s1.pending, s1.lease, s1.lapsed,
              s1.revision + 1, s1.good, s1.goodBy, s1.halted)
  BY <1>4 DEF Row
<1>6. [s1 EXCEPT !.status = "removed", !.mode = "off", !.next = "none", !.health = "not-tracked",
                 !.revision = @ + 1] = [y EXCEPT !.revision = @ + 1]
  BY ONLY <1>1, <1>3
<1> QED
  BY <1>5, <1>6

\* An entry row is written, and a check ends with it or none moves.
EntryWrite(row) ==
  /\ s1' = row /\ UNCHANGED <<s2, s3, s4, s5, s7, s8>>
  /\ Check!EntryFits(row)
  /\ row.lease \in {s1.lease, Check!Free} /\ row.good = s1.good /\ row.goodBy = s1.goodBy
  /\ row.revision >= s1.revision
  /\ row.revision = s1.revision => row.pending \in {s1.pending, Check!Nobody}
  /\ row.ack = s1.ack \/ row.ack = s8.pending

\* Then the invariant stays.
LEMMA EntryWrites ==
  ASSUME Check!IInv, NEW row, EntryWrite(row),
         s6' = s6 \/ \E c \in Requests : s6' = [s6 EXCEPT ![c] = Check!Idle]
  PROVE  CheckGoal
<1>1. Grown /\ Check!EntryFits(row)' /\ Check!CallFits(s7)' /\ Check!CallFits(Check!Idle)' /\ s2' \in BOOLEAN
  <2>1. Check!CallFits(s7) /\ Check!CallFits(Check!Idle) /\ s2 \in BOOLEAN
    BY IdleFits DEF Check!IInv
  <2>2. Grown /\ (\A r : Check!CallFits(r)' <=> Check!CallFits(r))
        /\ (\A q : Check!EntryFits(q)' <=> Check!EntryFits(q))
    BY GrownNot DEF EntryWrite
  <2>3. Check!CallFits(s7)'
    BY <2>1, <2>2, FitsOn DEF EntryWrite
  <2> QED
    BY <2>1, <2>2, <2>3 DEF EntryWrite
<1>2. EntryMay
  BY <1>1 DEF EntryMay, EntryWrite, Check!EntryFits
<1>3. ViewMay
  BY DEF ViewMay, EntryWrite
<1>4. PICK c : s6' = s6 \/ s6' = [s6 EXCEPT ![c] = Check!Idle]
  OBVIOUS
<1>5. CallMay(c, Check!Idle)
  BY <1>4 DEF CallMay, Check!Idle
<1> QED
  BY <1>1, <1>2, <1>3, <1>5, CheckMoves

\* A check that finds another name, fails, or stops the tracking.
LEMMA ChecksEndKeep ==
  ASSUME Check!IInv, NEW c \in Requests,
         Check!MarkIdentityChange(c) \/ Check!FailCheck(c) \/ Check!PauseUnauthorizedTracking(c)
  PROVE  CheckGoal
<1>1. Check!EntryFits(s1) /\ Check!CallFits(s6[c])
  BY DEF Check!IInv
<1>2. /\ s1.status \in {"active", "removed"} /\ s1.mode \in {"off", "scheduled"}
      /\ s1.next \in {"none", "later", "due"} /\ s1.health \in Check!Healths
      /\ s1.ack \in Twins /\ s1.pending \in Twins \cup {Check!Nobody}
      /\ s1.lease \in Requests \cup {Check!Free} /\ s1.lapsed \in BOOLEAN /\ s1.revision \in Nat
      /\ s1.good \in 0 .. Len(s4) /\ s1.goodBy \in Requests \cup {Check!Nobody, "discovery"}
      /\ s1.halted \in BOOLEAN
  BY <1>1, EntryIs
<1>3. ASSUME NEW x, Check!EntryFits(x), x.good = s1.good, x.goodBy = s1.goodBy, x.ack = s1.ack,
             x.revision >= s1.revision, x.revision = s1.revision => x.pending = s1.pending,
             s1' = Check!Release(x), UNCHANGED <<s2, s3, s4, s5, s7, s8>>, s6' = [s6 EXCEPT ![c] = Check!Idle]
      PROVE  CheckGoal
  <2>1. PICK row : row = Check!Release(x)
    OBVIOUS
  <2>2. EntryWrite(row)
    BY <1>3, <2>1, ReleasedFits DEF EntryWrite
  <2> QED
    BY <1>3, <2>2, EntryWrites
<1>4. CASE Check!MarkIdentityChange(c)
  <2>1. PICK name, v : name = s6[c].name /\ v = IF s1.pending = name THEN s1.revision ELSE s1.revision + 1
    OBVIOUS
  <2>2. /\ s1' = Check!Release(Check!Marked(name)) /\ s6' = [s6 EXCEPT ![c] = Check!Idle] /\ name \in Twins
        /\ UNCHANGED <<s2, s3, s4, s5, s7, s8>>
    BY <1>1, <1>4, <2>1 DEF Check!MarkIdentityChange, Check!Done, Check!CallFits
  <2>3. PICK x : x = Check!Marked(name)
    OBVIOUS
  <2>4. v \in Nat /\ v >= s1.revision /\ (v = s1.revision => name = s1.pending)
    BY <1>2, <2>1
  <2>5. /\ Check!EntryFits(x) /\ x.good = s1.good /\ x.goodBy = s1.goodBy /\ x.ack = s1.ack
        /\ x.revision = v /\ x.pending = name
    BY <1>1, <2>1, <2>2, <2>3, <2>4, MarkedFits
  <2> QED
    BY <1>3, <2>2, <2>3, <2>4, <2>5
<1>5. CASE Check!FailCheck(c)
  <2>1. PICK h, n, x : /\ h = IF s1.pending # Check!Nobody THEN Check!Review ELSE "failing"
                       /\ n = Check!Scheduled(s1.mode) /\ x = Check!Failed
    OBVIOUS
  <2>2. /\ s1' = Check!Release(x) /\ s6' = [s6 EXCEPT ![c] = Check!Idle]
        /\ UNCHANGED <<s2, s3, s4, s5, s7, s8>>
    BY <1>5, <2>1 DEF Check!FailCheck, Check!Done
  <2>3. x = Row(s1.status, s1.mode, n, h, s1.ack, s1.pending, s1.lease, s1.lapsed, s1.revision, s1.good,
                s1.goodBy, s1.halted)
    BY <1>1, <2>1, FailedIs
  <2>4. n \in {"none", "later", "due"}
    BY <2>1 DEF Check!Scheduled
  <2>5. h \in Check!Healths /\ (s1.pending # Check!Nobody => h = Check!Review)
    BY <2>1 DEF Check!Healths
  <2>6. x \in Check!EntryRow
    BY <1>2, <2>3, <2>4, <2>5 DEF Row, Check!EntryRow
  <2>7. /\ x.status = s1.status /\ x.health = h /\ x.pending = s1.pending /\ x.ack = s1.ack
        /\ x.good = s1.good /\ x.goodBy = s1.goodBy /\ x.revision = s1.revision
    BY <2>3 DEF Row
  <2>8. Check!EntryFits(x)
    BY <1>1, <2>5, <2>6, <2>7 DEF Check!EntryFits
  <2>9. x.revision >= s1.revision
    BY <1>2, <2>7
  <2> QED
    BY <1>3, <2>2, <2>7, <2>8, <2>9
<1>6. CASE Check!PauseUnauthorizedTracking(c)
  <2>1. s6' = [s6 EXCEPT ![c] = Check!Idle] /\ UNCHANGED <<s2, s3, s4, s5, s7, s8>>
    BY <1>6 DEF Check!PauseUnauthorizedTracking, Check!Done
  <2>2. s1.revision >= s1.revision /\ s1.revision + 1 \in Nat /\ s1.revision + 1 # s1.revision
        /\ s1.revision + 1 >= s1.revision
    BY <1>2
  <2>3. CASE ~Check!Holds(c)
    <3>1. s1' = s1
      BY <1>6, <2>3 DEF Check!PauseUnauthorizedTracking
    <3>2. EntryWrite(s1)
      BY <1>1, <2>1, <2>2, <3>1 DEF EntryWrite
    <3> QED
      BY <2>1, <3>2, EntryWrites
  <2>4. CASE Check!Holds(c) /\ s2
    <3>1. s1' = Check!Release(s1)
      BY <1>6, <2>4 DEF Check!PauseUnauthorizedTracking
    <3> QED
      BY <1>1, <1>3, <2>1, <2>2, <3>1
  <2>5. CASE Check!Holds(c) /\ ~s2
    <3>1. PICK x, yes, v :
            /\ x = [s1 EXCEPT !.health = "paused", !.next = "none", !.halted = TRUE, !.revision = @ + 1]
            /\ yes = TRUE /\ v = s1.revision + 1
      OBVIOUS
    <3>2. s1' = Check!Release(x)
      BY <1>6, <2>5, <3>1 DEF Check!PauseUnauthorizedTracking
    <3>3. x = Row(s1.status, s1.mode, "none", "paused", s1.ack, s1.pending, s1.lease, s1.lapsed, v,
                  s1.good, s1.goodBy, yes)
      BY ONLY <1>1, <3>1, PausedIs
    <3>4. "paused" \in Check!Healths /\ yes \in BOOLEAN /\ v \in Nat /\ v # s1.revision /\ v >= s1.revision
      BY <2>2, <3>1 DEF Check!Healths
    <3>5. x \in Check!EntryRow
      BY <1>2, <3>3, <3>4 DEF Row, Check!EntryRow
    <3>6. /\ x.status = s1.status /\ x.health = "paused" /\ x.pending = s1.pending /\ x.ack = s1.ack
          /\ x.good = s1.good /\ x.goodBy = s1.goodBy /\ x.revision = v
      BY <3>3 DEF Row
    <3>7. Check!EntryFits(x)
      BY <1>1, <3>5, <3>6 DEF Check!EntryFits
    <3> QED
      BY <1>3, <2>1, <3>2, <3>4, <3>6, <3>7
  <2> QED
    BY <2>3, <2>4, <2>5
<1> QED
  BY <1>4, <1>5, <1>6

\* Curators look, edit and remove; a discovery finds another name; time passes.
LEMMA EditsKeep ==
  ASSUME Check!IInv,
         \/ Check!LookAtEntry \/ Check!RemoveEntry \/ Check!Discover
         \/ Check!LeaseLapses \/ Check!CheckIsDue
         \/ \E m \in {"off", "scheduled"}, a \in BOOLEAN : Check!UpdateTracking(m, a)
  PROVE  CheckGoal
<1>1. Check!SnapsFit /\ Check!EntryFits(s1) /\ Check!CallFits(s7) /\ s2 \in BOOLEAN
  BY DEF Check!IInv
<1>2. /\ s1 \in Check!EntryRow
      /\ s1.status \in {"active", "removed"} /\ s1.mode \in {"off", "scheduled"}
      /\ s1.next \in {"none", "later", "due"} /\ s1.health \in Check!Healths
      /\ s1.ack \in Twins /\ s1.pending \in Twins \cup {Check!Nobody}
      /\ s1.lease \in Requests \cup {Check!Free} /\ s1.lapsed \in BOOLEAN /\ s1.revision \in Nat
      /\ s1.good \in 0 .. Len(s4) /\ s1.goodBy \in Requests \cup {Check!Nobody, "discovery"}
      /\ s1.halted \in BOOLEAN
  BY <1>1, EntryIs
<1>3. /\ s1.revision >= s1.revision /\ s1.revision + 1 \in Nat /\ s1.revision + 1 # s1.revision
      /\ s1.revision + 1 >= s1.revision
  BY <1>2
<1>4. ASSUME NEW r, s7' = r, Check!CallFits(r), UNCHANGED <<s2, s3, s4, s5, s6>>, ViewMay,
             Grown => EntryMay
      PROVE  CheckGoal
  <2>1. Grown /\ (\A q : Check!CallFits(q)' <=> Check!CallFits(q))
    BY <1>4, GrownNot
  <2>2. Check!CallFits(s7)'
    BY <1>4, <2>1
  <2>3. PICK c : c = Check!Free
    OBVIOUS
  <2>4. CallMay(c, Check!Idle) /\ Check!CallFits(Check!Idle)'
    BY <1>1, <1>4, <2>1, IdleFits DEF CallMay
  <2> QED
    BY <1>1, <1>4, <2>1, <2>2, <2>4, CheckMoves
<1>5. ASSUME NEW x, Check!EntryFits(x), x.good = s1.good, x.goodBy = s1.goodBy,
             x.ack = s1.ack \/ x.ack = s8.pending,
             x.revision >= s1.revision, x.revision = s1.revision => x.pending = s1.pending,
             s1' = Check!Release(x), UNCHANGED <<s2, s3, s4, s5, s6, s7, s8>>
      PROVE  CheckGoal
  <2>1. PICK row : row = Check!Release(x)
    OBVIOUS
  <2>2. EntryWrite(row)
    BY <1>5, <2>1, ReleasedFits DEF EntryWrite
  <2> QED
    BY <1>5, <2>2, EntryWrites
<1>6. CASE Check!LookAtEntry
  <2>1. /\ UNCHANGED <<s1, s2, s3, s4, s5, s6, s7>>
        /\ s8' = [revision |-> s1.revision, pending |-> s1.pending]
    BY <1>6 DEF Check!LookAtEntry
  <2> QED
    BY <1>1, <1>4, <2>1, EntryRests DEF ViewMay
<1>7. CASE Check!RemoveEntry
  <2>1. PICK x, v : /\ x = [s1 EXCEPT !.status = "removed", !.mode = "off", !.next = "none",
                                      !.health = "not-tracked", !.revision = @ + 1]
                    /\ v = s1.revision + 1
    OBVIOUS
  <2>2. s1' = Check!Release(x) /\ UNCHANGED <<s2, s3, s4, s5, s6, s7, s8>>
    BY <1>7, <2>1 DEF Check!RemoveEntry
  <2>3. x = Row("removed", "off", "none", "not-tracked", s1.ack, s1.pending, s1.lease, s1.lapsed, v, s1.good,
                s1.goodBy, s1.halted)
    BY ONLY <1>1, <2>1, RemovedIs
  <2>4. "not-tracked" \in Check!Healths /\ v \in Nat /\ v # s1.revision /\ v >= s1.revision
    BY <1>3, <2>1 DEF Check!Healths
  <2>5. x \in Check!EntryRow
    BY <1>2, <2>3, <2>4 DEF Row, Check!EntryRow
  <2>6. /\ x.status = "removed" /\ x.ack = s1.ack /\ x.good = s1.good /\ x.goodBy = s1.goodBy
        /\ x.revision = v
    BY <2>3 DEF Row
  <2>7. Check!EntryFits(x)
    BY <1>1, <2>5, <2>6 DEF Check!EntryFits
  <2> QED
    BY <1>5, <2>2, <2>4, <2>6, <2>7
<1>8. CASE \E m \in {"off", "scheduled"}, a \in BOOLEAN : Check!UpdateTracking(m, a)
  <2>1. PICK m \in {"off", "scheduled"}, a \in BOOLEAN : Check!UpdateTracking(m, a)
    BY <1>8
  <2>2. PICK n, h, k, q, x, v, no :
          /\ n = Check!Scheduled(m) /\ h = Check!EditedHealth(m, a)
          /\ k = (IF a THEN s1.pending ELSE s1.ack) /\ q = (IF a THEN Check!Nobody ELSE s1.pending)
          /\ x = [s1 EXCEPT !.mode = m, !.next = n, !.health = h, !.ack = k, !.pending = q, !.halted = FALSE,
                            !.revision = @ + 1]
          /\ v = s1.revision + 1 /\ no = FALSE
    OBVIOUS
  <2>3. s1' = Check!Release(x) /\ UNCHANGED <<s2, s3, s4, s5, s6, s7, s8>>
    <3>1. s1' = Check!Release([s1 EXCEPT !.mode = m, !.next = n, !.health = h, !.ack = k, !.pending = q,
                                        !.halted = FALSE, !.revision = @ + 1])
      BY ONLY <2>1, <2>2 DEF Check!UpdateTracking
    <3>2. UNCHANGED <<s2, s3, s4, s5, s6, s7, s8>>
      BY <2>1 DEF Check!UpdateTracking
    <3> QED
      BY ONLY <2>2, <3>1, <3>2
  <2>4. x = Row(s1.status, m, n, h, k, q, s1.lease, s1.lapsed, v, s1.good, s1.goodBy, no)
    <3>1. [s1 EXCEPT !.mode = m, !.next = n, !.health = h, !.ack = k, !.pending = q, !.halted = FALSE,
                     !.revision = @ + 1]
            = Row(s1.status, m, n, h, k, q, s1.lease, s1.lapsed, s1.revision + 1, s1.good, s1.goodBy, FALSE)
      BY ONLY <1>1, EditedIs, Zenon
    <3> QED
      BY ONLY <2>2, <3>1
  <2>5. a => s1.pending # Check!Nobody /\ s8.revision = s1.revision
    BY <2>1 DEF Check!UpdateTracking
  <2>6. a => s8.pending = s1.pending /\ s1.pending \in Twins
    BY <1>2, <2>5 DEF Check!IInv, Check!ViewFits
  <2>7. /\ n \in {"none", "later", "due"} /\ h \in Check!Healths /\ k \in Twins
        /\ q \in Twins \cup {Check!Nobody} /\ v \in Nat /\ no \in BOOLEAN
    <3>1. h \in Check!Healths
      BY <1>2, <2>2 DEF Check!EditedHealth, Check!Healths
    <3> QED
      BY <1>2, <1>3, <2>2, <2>6, <3>1 DEF Check!Scheduled
  <2>8. x \in Check!EntryRow
    BY <1>2, <2>1, <2>4, <2>7 DEF Row, Check!EntryRow
  <2>9. /\ x.status = s1.status /\ x.health = h /\ x.pending = q /\ x.ack = k
        /\ x.good = s1.good /\ x.goodBy = s1.goodBy /\ x.revision = v
    BY <2>4 DEF Row
  <2>10. q # Check!Nobody => h = Check!Review
    BY <2>2 DEF Check!EditedHealth
  <2>11. Check!EntryFits(x)
    BY <1>1, <2>8, <2>9, <2>10 DEF Check!EntryFits
  <2>12. v # s1.revision /\ v >= s1.revision
    BY <1>3, <2>2
  <2>13. k = s1.ack \/ k = s8.pending
    BY <2>2, <2>6
  <2> QED
    BY <1>5, <2>3, <2>9, <2>11, <2>12, <2>13
<1>9. CASE Check!Discover
  <2>1. UNCHANGED <<s2, s3, s4, s5, s6, s8>> /\ ViewMay
    BY <1>9 DEF Check!Discover, ViewMay
  <2>2. CASE s3.name # s1.ack
    <3>1. PICK name, v, row : /\ name = s3.name
                              /\ v = IF s1.pending = name THEN s1.revision ELSE s1.revision + 1
                              /\ row = Check!Marked(name)
      OBVIOUS
    <3>2. s1' = row /\ s7' = s7
      BY <1>9, <2>2, <3>1 DEF Check!Discover
    <3>3. name \in Twins
      BY <1>1, <3>1, CheckRows
    <3>4. /\ Check!EntryFits(row) /\ row.good = s1.good /\ row.goodBy = s1.goodBy /\ row.ack = s1.ack
          /\ row.lease = s1.lease /\ row.revision = v /\ row.pending = name
      BY <1>1, <3>1, <3>3, MarkedFits
    <3>5. v >= s1.revision /\ (v = s1.revision => name = s1.pending)
      BY <1>2, <3>1
    <3>6. EntryWrite(row)
      BY <2>1, <3>2, <3>4, <3>5 DEF EntryWrite
    <3> QED
      BY <2>1, <3>6, EntryWrites
  <2>3. CASE s3.name = s1.ack
    <3>1. PICK r : r = [pc |-> "capture", ack |-> Check!Nobody, good |-> s1.good, name |-> Check!Nobody,
                        commit |-> s3.commit, snap |-> 0]
      OBVIOUS
    <3>2. s7' = r /\ s1' = s1
      <4>1. PICK x : x = [Check!Idle EXCEPT !.pc = "capture", !.good = s1.good]
        OBVIOUS
      <4>2. x = [pc |-> "capture", ack |-> Check!Nobody, good |-> s1.good, name |-> Check!Nobody,
                 commit |-> 0, snap |-> 0]
        BY <4>1 DEF Check!Idle
      <4>3. [x EXCEPT !.commit = s3.commit] = r
        BY <3>1, <4>2
      <4>4. s7' = [Check!Idle EXCEPT !.pc = "capture", !.good = s1.good, !.commit = s3.commit] /\ s1' = s1
        BY <1>9, <2>3 DEF Check!Discover
      <4> QED
        BY ONLY <4>1, <4>3, <4>4
    <3>3. /\ s3.commit \in Nat /\ s3.commit # 0 /\ Len(s4) \in Nat
          /\ s1.good # 0 => s4[s1.good].complete
      BY <1>1, CheckRows DEF Check!EntryFits
    <3>4. r \in Check!CallRow
      BY <1>2, <3>1, <3>3 DEF Check!CallRow, Check!Points
    <3>5. Check!CallFits(r)
      BY <3>1, <3>3, <3>4 DEF Check!CallFits
    <3> QED
      BY <1>4, <2>1, <3>2, <3>5, EntryRests
  <2> QED
    BY <2>2, <2>3
<1>10. CASE Check!LeaseLapses
  <2>1. PICK yes, row : yes = TRUE /\ row = [s1 EXCEPT !.lapsed = yes]
    OBVIOUS
  <2>2. s1' = row /\ UNCHANGED <<s2, s3, s4, s5, s6, s7, s8>>
    BY <1>10, <2>1 DEF Check!LeaseLapses
  <2>3. yes \in BOOLEAN
    BY <2>1
  <2>4. /\ row \in Check!EntryRow /\ row.lease = s1.lease /\ row.status = s1.status
        /\ row.health = s1.health /\ row.good = s1.good /\ row.goodBy = s1.goodBy
        /\ row.revision = s1.revision /\ row.pending = s1.pending /\ row.ack = s1.ack
    BY <1>2, <2>1, <2>3 DEF Check!EntryRow
  <2>5. Check!EntryFits(row)
    BY <1>1, <2>4 DEF Check!EntryFits
  <2>6. EntryWrite(row)
    BY <1>3, <2>2, <2>4, <2>5 DEF EntryWrite
  <2> QED
    BY <2>2, <2>6, EntryWrites
<1>11. CASE Check!CheckIsDue
  <2>1. PICK row : row = [s1 EXCEPT !.next = "due"]
    OBVIOUS
  <2>2. s1' = row /\ UNCHANGED <<s2, s3, s4, s5, s6, s7, s8>>
    BY <1>11, <2>1 DEF Check!CheckIsDue
  <2>4. /\ row \in Check!EntryRow /\ row.lease = s1.lease /\ row.status = s1.status
        /\ row.health = s1.health /\ row.good = s1.good /\ row.goodBy = s1.goodBy
        /\ row.revision = s1.revision /\ row.pending = s1.pending /\ row.ack = s1.ack
    BY <1>2, <2>1 DEF Check!EntryRow
  <2>5. Check!EntryFits(row)
    BY <1>1, <2>4 DEF Check!EntryFits
  <2>6. EntryWrite(row)
    BY <1>3, <2>2, <2>4, <2>5 DEF EntryWrite
  <2> QED
    BY <2>2, <2>6, EntryWrites
<1> QED
  BY <1>6, <1>7, <1>8, <1>9, <1>10, <1>11

\* A snapshot that is stored, or used again, is the newest, of that commit.
LEMMA InsertGrows ==
  ASSUME Check!SnapsFit, NEW commit \in 1 .. s3.commit, Check!Insert(commit), UNCHANGED <<s3, s5>>
  PROVE  /\ Grown /\ Len(s4') \in Nat /\ Len(s4') # 0 /\ Len(s4') \in DOMAIN s4'
         /\ s4'[Len(s4')].commit = commit /\ Check!Last(s4') = s4'[Len(s4')]
<1>1. /\ s4 \in Seq(SnapRow) /\ IsSeq(s4) /\ Len(s4) \in Nat /\ DOMAIN s4 = 1 .. Len(s4)
      /\ s3.commit \in Nat
      /\ \A s \in DOMAIN s4 : s4[s].commit <= s3.commit
  BY CheckRows
<1>2. PICK whole \in BOOLEAN :
        s4' = IF whole /\ Check!Reusable(commit) THEN s4
              ELSE Append(s4, [commit |-> commit, complete |-> whole])
  BY DEF Check!Insert
<1>3. Check!Last(s4') = s4'[Len(s4')]
  BY DEF Check!Last
<1>4. CASE whole /\ Check!Reusable(commit)
  <2>1. s4' = s4 /\ s4 # <<>> /\ s4[Len(s4)].commit = commit
    BY <1>2, <1>4 DEF Check!Reusable, Check!Last
  <2>2. Len(s4) # 0
    BY <1>1, <2>1, EmptySeq
  <2>3. Check!SnapsFit'
    BY <2>1 DEF Check!SnapsFit
  <2>4. Grown
    BY <1>1, <2>1, <2>3 DEF Grown
  <2> QED
    BY <1>1, <1>3, <2>1, <2>2, <2>4
<1>5. CASE ~(whole /\ Check!Reusable(commit))
  <2>1. PICK row : row = [commit |-> commit, complete |-> whole]
    OBVIOUS
  <2>2. s4' = Append(s4, row) /\ row \in SnapRow /\ row.commit = commit
    BY <1>1, <1>2, <1>5, <2>1 DEF SnapRow
  <2> HIDE DEF SnapRow
  <2>3. /\ Len(s4') = Len(s4) + 1 /\ DOMAIN s4' = 1 .. (Len(s4) + 1) /\ s4'[Len(s4) + 1] = row
        /\ \A s \in 1 .. Len(s4) : s4'[s] = s4[s]
    BY <1>1, <2>2, SeqGrows
  <2>4. s4' \in Seq(SnapRow)
    BY <1>1, <2>2, AppendProperties
  <2>5. \A s \in DOMAIN s4' : s4'[s].commit <= s3.commit
    <3> SUFFICES ASSUME NEW s \in DOMAIN s4' PROVE s4'[s].commit <= s3.commit
      OBVIOUS
    <3>1. s \in DOMAIN s4 \/ s = Len(s4) + 1
      BY <1>1, <2>3
    <3>2. CASE s \in DOMAIN s4
      BY <1>1, <2>3, <3>2
    <3>3. CASE s = Len(s4) + 1
      BY <1>1, <2>2, <2>3, <3>3
    <3> QED
      BY <3>1, <3>2, <3>3
  <2>6. Check!SnapsFit'
    BY <2>4, <2>5 DEF Check!SnapsFit, SnapRow
  <2>7. Grown
    BY <1>1, <2>3, <2>6 DEF Grown
  <2> QED
    BY <1>1, <1>3, <2>2, <2>3, <2>7
<1> QED
  BY <1>4, <1>5

\* What is left to show where a step sets a lease or a last good snapshot.
LEMMA CheckStays ==
  ASSUME Check!IInv, Grown, Check!EntryFits(s1)', s1'.revision = s1.revision,
         s1'.pending \in {s1.pending, Check!Nobody}, UNCHANGED <<s2, s8>>, Check!CallFits(s7)',
         NEW c, NEW r, s6' = s6 \/ s6' = [s6 EXCEPT ![c] = r], Check!CallFits(r)', Check!LeaseFits(s1)'
  PROVE  Check!IInv'
<1>1. /\ s6 \in [Requests -> Check!CallRow] /\ \A d \in Requests : Check!CallFits(s6[d])
      /\ s8 \in [revision : Nat, pending : Twins \cup {Check!Nobody}]
      /\ Check!ViewFits(s1) /\ s2 \in BOOLEAN
  BY DEF Check!IInv
<1>2. s6 \in [Requests -> Check!CallRow'] /\ \A d \in Requests : \A q : q = s6[d] => Check!CallFits(q)'
  <2>1. Check!CallRow \subseteq Check!CallRow'
    BY FitsOn
  <2>2. \A d \in Requests : \A q : q = s6[d] => Check!CallFits(q)'
    <3>1. \A q : Check!CallFits(q) => Check!CallFits(q)'
      BY FitsOn
    <3> QED
      BY <1>1, <3>1
  <2> QED
    BY <1>1, <2>1, <2>2
<1>3. r \in Check!CallRow'
  BY DEF Check!CallFits
<1>4. /\ s6' \in [Requests -> Check!CallRow']
      /\ \A d \in Requests : s6'[d] = s6[d] \/ (d = c /\ s6'[d] = r)
  BY <1>2, <1>3
<1>5. \A d \in Requests : \A q : q = s6'[d] => Check!CallFits(q)'
  BY <1>2, <1>4
<1>6. Check!ViewFits(s1)'
  BY <1>1 DEF Check!ViewFits
<1> QED
  BY <1>1, <1>4, <1>5, <1>6 DEF Check!IInv, Grown

\* A check that starts.
LEMMA StartKeeps ==
  ASSUME Check!IInv, NEW c \in Requests, Check!Start(c)
  PROVE  CheckGoal
<1>1. Check!SnapsFit /\ Check!EntryFits(s1) /\ Check!CallFits(s7) /\ Check!LeaseFits(s1)
      /\ s6 \in [Requests -> Check!CallRow]
  BY DEF Check!IInv
<1>2. s1 \in Check!EntryRow /\ s1.good \in 0 .. Len(s4) /\ s1.ack \in Twins
  BY <1>1, EntryIs
<1>3. PICK row, no, r :
        /\ no = FALSE /\ row = [s1 EXCEPT !.lease = c, !.lapsed = no]
        /\ r = [pc |-> "begin", ack |-> s1.ack, good |-> s1.good, name |-> Check!Nobody, commit |-> 0, snap |-> 0]
  OBVIOUS
<1>4. s1' = row /\ UNCHANGED <<s2, s3, s4, s5, s7, s8>>
  BY <1>3 DEF Check!Start
<1>5. s6' = [s6 EXCEPT ![c] = r]
  <2>1. PICK x : x = [Check!Idle EXCEPT !.pc = "begin", !.ack = s1.ack]
    OBVIOUS
  <2>2. x = [pc |-> "begin", ack |-> s1.ack, good |-> 0, name |-> Check!Nobody, commit |-> 0, snap |-> 0]
    BY <2>1 DEF Check!Idle
  <2>3. [x EXCEPT !.good = s1.good] = r
    BY <1>3, <2>2
  <2>4. s6' = [s6 EXCEPT ![c] = [Check!Idle EXCEPT !.pc = "begin", !.ack = s1.ack, !.good = s1.good]]
    BY DEF Check!Start
  <2> QED
    BY ONLY <2>1, <2>3, <2>4
<1>6. /\ row \in Check!EntryRow /\ row.lease = c /\ row.status = s1.status
      /\ row.health = s1.health /\ row.good = s1.good /\ row.goodBy = s1.goodBy
      /\ row.revision = s1.revision /\ row.pending = s1.pending /\ row.ack = s1.ack
  <2>1. no \in BOOLEAN
    BY <1>3
  <2>2. PICK x : x = [s1 EXCEPT !.lease = c]
    OBVIOUS
  <2>3. /\ x \in Check!EntryRow /\ x.lease = c /\ x.status = s1.status
        /\ x.health = s1.health /\ x.good = s1.good /\ x.goodBy = s1.goodBy
        /\ x.revision = s1.revision /\ x.pending = s1.pending /\ x.ack = s1.ack
    BY <1>2, <2>2 DEF Check!EntryRow
  <2>4. row = [x EXCEPT !.lapsed = no]
    BY ONLY <1>3, <2>2
  <2> QED
    BY <2>1, <2>3, <2>4 DEF Check!EntryRow
<1>7. Check!EntryFits(row)
  BY <1>1, <1>6 DEF Check!EntryFits
<1>8. Check!CallFits(r) /\ r.good = s1.good
  <2>1. /\ r.pc = "begin" /\ r.good = s1.good /\ r \in Check!CallRow
    <3>1. 0 \in 0 .. Len(s4)
      BY <1>1, CheckRows
    <3> QED
      BY <1>2, <1>3, <3>1 DEF Check!CallRow, Check!Points
  <2> QED
    BY <1>1, <2>1 DEF Check!EntryFits, Check!CallFits
<1>9. Grown /\ Check!EntryFits(row)' /\ Check!CallFits(s7)' /\ Check!CallFits(r)'
  <2>1. Grown /\ (\A q : Check!CallFits(q)' <=> Check!CallFits(q))
        /\ (\A q : Check!EntryFits(q)' <=> Check!EntryFits(q))
    BY <1>4, GrownNot
  <2>2. Check!CallFits(s7)'
    BY <1>1, <1>4, <2>1, FitsOn
  <2> QED
    BY <1>7, <1>8, <2>1, <2>2
<1>10. Check!EntryFits(s1)'
  BY <1>4, <1>9 DEF Check!EntryFits
<1>11. Check!LeaseFits(s1)'
  <2>1. s6'[c].good = s1.good
    BY <1>1, <1>5, <1>8
  <2> QED
    BY <1>4, <1>6, <2>1 DEF Check!LeaseFits
<1>12. Check!IInv'
  BY <1>4, <1>5, <1>6, <1>9, <1>10, <1>11, CheckStays
<1> QED
  BY <1>4, <1>6, <1>12 DEF CheckGoal, Check!AcceptsWhatWasSeenStep, Check!ChecksMoveForwardStep

\* A snapshot that is stored by a check.
LEMMA StoreKeeps ==
  ASSUME Check!IInv, NEW c \in Requests, Check!Store(c)
  PROVE  CheckGoal
<1>1. /\ Check!SnapsFit /\ Check!CallFits(s7) /\ s6 \in [Requests -> Check!CallRow] /\ s2 \in BOOLEAN
  BY DEF Check!IInv
<1>2. PICK old, pc : /\ old = s6[c] /\ pc = IF Check!Last(s4').complete THEN "announce" ELSE "broken"
  OBVIOUS
<1>3. /\ old.pc = "store" /\ Check!CallFits(old) /\ UNCHANGED <<s1, s2, s3, s5, s7, s8>>
      /\ old.commit \in 1 .. s3.commit /\ Check!CommitOf(old.good) <= old.commit
      /\ Check!Insert(old.commit)
  BY <1>2 DEF Check!IInv, Check!Store, Check!CallFits
<1>4. /\ Grown /\ Len(s4') \in Nat /\ Len(s4') # 0 /\ Len(s4') \in DOMAIN s4'
      /\ s4'[Len(s4')].commit = old.commit /\ Check!Last(s4') = s4'[Len(s4')]
  BY <1>1, <1>3, InsertGrows
<1>5. PICK n, r : /\ n = Len(s4')
                  /\ r = [pc |-> pc, ack |-> old.ack, good |-> old.good, name |-> old.name, commit |-> 0,
                          snap |-> n]
  OBVIOUS
<1>6. s6' = [s6 EXCEPT ![c] = r]
  <2>1. old = [pc |-> old.pc, ack |-> old.ack, good |-> old.good, name |-> old.name, commit |-> old.commit,
               snap |-> old.snap]
    BY <1>3, CallIs
  <2>2. PICK x : x = [old EXCEPT !.snap = n, !.commit = 0]
    OBVIOUS
  <2>3. x = [pc |-> old.pc, ack |-> old.ack, good |-> old.good, name |-> old.name, commit |-> 0, snap |-> n]
    BY <2>1, <2>2
  <2>4. [x EXCEPT !.pc = pc] = r
    BY <1>5, <2>3
  <2>5. s6' = [s6 EXCEPT ![c] = [old EXCEPT !.snap = n, !.commit = 0, !.pc = pc]]
    BY <1>1, <1>2, <1>5 DEF Check!Store
  <2> QED
    BY ONLY <2>2, <2>4, <2>5
<1>7. Check!CallFits(r)'
  <2>1. Check!CallFits(old)' /\ Check!CommitOf(old.good)' = Check!CommitOf(old.good)
    <3>1. old.good \in 0 .. Len(s4)
      BY <1>3, CallIs
    <3> QED
      BY <1>3, <1>4, <3>1, FitsOn
  <2>2. /\ r.pc = pc /\ r.good = old.good /\ r.snap = n /\ r.ack = old.ack /\ r.name = old.name
        /\ r.commit = 0
    BY <1>5
  <2>3. /\ old.ack \in Twins \cup {Check!Nobody} /\ old.name \in Twins \cup {Check!Nobody}
        /\ old.good \in 0 .. Len(s4')
    BY <2>1 DEF Check!CallFits, Check!CallRow
  <2>4. pc \in {"announce", "broken"} /\ (pc = "announce" => s4'[n].complete)
    BY <1>2, <1>4, <1>5
  <2>5. r \in Check!CallRow'
    BY <1>4, <1>5, <2>3, <2>4 DEF Check!CallRow, Check!Points
  <2>6. Check!CommitOf(n)' = old.commit
    BY <1>4, <1>5 DEF Check!CommitOf
  <2>7. Check!CommitOf(r.good)' <= Check!CommitOf(r.snap)'
    BY <1>3, <2>1, <2>2, <2>6
  <2>8. r.good # 0 => s4'[r.good].complete
    BY <2>1, <2>2 DEF Check!CallFits
  <2> QED
    BY <1>4, <1>5, <2>2, <2>4, <2>5, <2>7, <2>8 DEF Check!CallFits
<1>8. CallMay(c, r) /\ ViewMay
  BY <1>2, <1>3, <1>5, <1>6 DEF CallMay, ViewMay
<1>9. EntryMay /\ Check!CallFits(s7)'
  <2>1. Check!CallFits(s7)'
    BY <1>1, <1>3, <1>4, FitsOn
  <2> QED
    BY <1>3, <1>4, <2>1, EntryRests
<1> QED
  BY <1>1, <1>3, <1>4, <1>7, <1>8, <1>9, CheckMoves

\* A check that succeeds.
LEMMA FinishKeeps ==
  ASSUME Check!IInv, NEW c \in Requests, Check!FinishCheck(c)
  PROVE  CheckGoal
<1>1. /\ Check!SnapsFit /\ Check!EntryFits(s1) /\ Check!CallFits(s7) /\ Check!CallFits(s6[c])
      /\ Check!LeaseFits(s1)
  BY DEF Check!IInv
<1>2. /\ s6[c].pc = "finish" /\ s1.lease = c /\ s1' = Check!Release(Check!Succeeded(c))
      /\ s6' = [s6 EXCEPT ![c] = Check!Idle] /\ UNCHANGED <<s2, s3, s4, s5, s7, s8>>
  BY DEF Check!FinishCheck, Check!Fenced, Check!Holds, Check!Done
<1>3. PICK x, row, n, t : /\ x = Check!Succeeded(c) /\ row = Check!Release(x)
                          /\ n = Check!Scheduled(s1.mode) /\ t = s6[c].snap
  OBVIOUS
<1>4. /\ s1.status \in {"active", "removed"} /\ s1.mode \in {"off", "scheduled"} /\ s1.ack \in Twins
      /\ s1.lease \in Requests \cup {Check!Free} /\ s1.lapsed \in BOOLEAN /\ s1.revision \in Nat
      /\ s1.halted \in BOOLEAN /\ s1.good \in 0 .. Len(s4)
  BY <1>1, EntryIs
<1>5. /\ t \in 0 .. Len(s4) /\ t # 0 /\ s4[t].complete
      /\ Check!CommitOf(s6[c].good) <= Check!CommitOf(t)
      /\ \/ s6[c].good = 0 \/ Check!CommitOf(s6[c].good) = Check!CommitOf(t)
         \/ <<Check!CommitOf(s6[c].good), Check!CommitOf(t)>> \in s5
  BY <1>1, <1>2, <1>3 DEF Check!CallFits, Check!CallRow
<1>6. x = Row(s1.status, s1.mode, n, "healthy", s1.ack, Check!Nobody, s1.lease, s1.lapsed, s1.revision, t, c,
              s1.halted)
  BY ONLY <1>1, <1>3, SucceededIs
<1>7. x \in Check!EntryRow
  <2>1. n \in {"none", "later", "due"} /\ "healthy" \in Check!Healths
    BY <1>3 DEF Check!Scheduled, Check!Healths
  <2> QED
    BY <1>4, <1>5, <1>6, <2>1 DEF Row, Check!EntryRow
<1>8. /\ x.good = t /\ x.goodBy = c /\ x.pending = Check!Nobody /\ x.revision = s1.revision /\ x.ack = s1.ack
  BY <1>6 DEF Row
<1>9. Check!EntryFits(x)
  BY <1>5, <1>7, <1>8 DEF Check!EntryFits
<1>10. /\ Check!EntryFits(row) /\ row.lease = Check!Free /\ row.good = t /\ row.goodBy = c
       /\ row.pending = Check!Nobody /\ row.revision = s1.revision /\ row.ack = s1.ack /\ s1' = row
  <2>1. /\ Check!EntryFits(row) /\ row.lease = Check!Free /\ row.good = x.good /\ row.goodBy = x.goodBy
        /\ row.revision = x.revision /\ row.pending = x.pending /\ row.ack = x.ack
    BY <1>3, <1>9, ReleasedFits
  <2> QED
    BY <1>2, <1>3, <1>8, <2>1
<1>11. Grown /\ Check!EntryFits(row)' /\ Check!CallFits(s7)' /\ Check!CallFits(Check!Idle)'
  <2>1. Check!CallFits(Check!Idle)
    BY <1>1, IdleFits
  <2>2. Grown /\ (\A q : Check!CallFits(q)' <=> Check!CallFits(q))
        /\ (\A q : Check!EntryFits(q)' <=> Check!EntryFits(q))
    BY <1>2, GrownNot
  <2>3. Check!CallFits(s7)'
    BY <1>1, <1>2, <2>2, FitsOn
  <2> QED
    BY <1>10, <2>1, <2>2, <2>3
<1>12. Check!EntryFits(s1)' /\ Check!LeaseFits(s1)'
  <2>1. Check!Free \notin Requests
    BY LibraryAssumption
  <2> QED
    BY <1>10, <1>11, <2>1 DEF Check!EntryFits, Check!LeaseFits
<1>13. Check!IInv'
  BY <1>2, <1>10, <1>11, <1>12, CheckStays
<1>14. Check!ChecksMoveForwardStep
  <2>1. CASE s1.goodBy \in Requests
    <3>1. s1.good = s6[c].good /\ s1.good # 0 /\ s1'.good = t
      BY <1>1, <1>2, <1>10, <2>1 DEF Check!LeaseFits, Check!EntryFits
    <3>2. Check!CommitOf(s1.good) = s4[s1.good].commit /\ Check!CommitOf(t) = s4[t].commit
      BY <1>5, <3>1 DEF Check!CommitOf
    <3>3. s4[s1.good].commit \in Nat /\ s4[t].commit \in Nat /\ s4[s1.good].commit <= s4[t].commit
      BY <1>1, <1>4, <1>5, <3>1, <3>2, CheckRows
    <3>4. s4[s1.good].commit = s4[t].commit \/ <<s4[s1.good].commit, s4[t].commit>> \in s5
      BY <1>5, <3>1, <3>2
    <3> QED
      BY <1>2, <3>1, <3>3, <3>4 DEF Check!ChecksMoveForwardStep
  <2>2. CASE s1.goodBy \notin Requests
    BY <2>2 DEF Check!ChecksMoveForwardStep
  <2> QED
    BY <2>1, <2>2
<1> QED
  BY <1>10, <1>13, <1>14 DEF CheckGoal, Check!AcceptsWhatWasSeenStep

\* A discovery that stores what it found.
LEMMA CaptureKeeps ==
  ASSUME Check!IInv, Check!Capture
  PROVE  CheckGoal
<1>1. /\ Check!SnapsFit /\ Check!EntryFits(s1) /\ Check!CallFits(s7)
      /\ s1 \in Check!EntryRow /\ s1.revision \in Nat /\ Check!LeaseFits(s1)
  BY EntryIs DEF Check!IInv
<1>2. s7' = Check!Idle /\ UNCHANGED <<s2, s3, s5, s6, s8>> /\ s7.pc = "capture"
  BY DEF Check!Capture
<1>3. s7.commit \in 1 .. s3.commit /\ Len(s4) \in Nat
  BY <1>1, <1>2, CheckRows DEF Check!CallFits
<1>4. Grown
  <2>1. CASE UNCHANGED s4
    BY <1>2, <2>1, GrownNot
  <2>2. CASE Check!Insert(s7.commit)
    BY <1>1, <1>2, <1>3, <2>2, InsertGrows
  <2> QED
    BY <2>1, <2>2 DEF Check!Capture
<1>5. Check!CallFits(Check!Idle)' /\ Check!CallFits(s7)'
  <2>1. Check!CallFits(Check!Idle)'
    BY <1>1, <1>4, IdleFits, FitsOn
  <2> QED
    BY <1>2, <2>1
<1>6. CASE s1' = s1
  <2>1. EntryMay /\ ViewMay /\ CallMay(Check!Free, Check!Idle) /\ s2' \in BOOLEAN
    <3>1. EntryMay
      BY <1>4, <1>6, EntryRests
    <3> QED
      BY <1>2, <3>1 DEF ViewMay, CallMay, Check!Idle, Check!IInv
  <2> QED
    BY <1>4, <1>5, <2>1, CheckMoves
<1>7. CASE s1' # s1
  <2>1. PICK n : n = Len(s4')
    OBVIOUS
  <2>2. /\ s1' = [s1 EXCEPT !.good = n, !.goodBy = "discovery"]
        /\ s4'[n].complete /\ n \in Nat /\ n # 0
    <3>1. CASE Check!Reusable(s7.commit) /\ UNCHANGED s4
      <4>1. s4 # <<>> /\ s4[Len(s4)].complete
        BY <3>1 DEF Check!Reusable, Check!Last
      <4>2. Len(s4) # 0
        BY <1>1, <4>1, EmptySeq, CheckRows
      <4>3. s1' = [s1 EXCEPT !.good = Len(s4), !.goodBy = "discovery"]
        BY <1>7, <3>1 DEF Check!Capture
      <4> QED
        BY <1>3, <2>1, <3>1, <4>1, <4>2, <4>3
    <3>2. CASE ~Check!Reusable(s7.commit) /\ Check!Insert(s7.commit)
      <4>1. /\ Len(s4') \in Nat /\ Len(s4') # 0 /\ Check!Last(s4') = s4'[Len(s4')]
        BY <1>1, <1>2, <1>3, <3>2, InsertGrows
      <4>2. s1' = [s1 EXCEPT !.good = Len(s4'), !.goodBy = "discovery"] /\ Check!Last(s4').complete
        BY <1>7, <3>2 DEF Check!Capture
      <4> QED
        BY <2>1, <4>1, <4>2
    <3> QED
      BY <1>7, <3>1, <3>2 DEF Check!Capture
  <2>3. PICK row : row = [s1 EXCEPT !.good = n, !.goodBy = "discovery"]
    OBVIOUS
  <2>4. n \in 0 .. Len(s4') /\ Check!EntryRow \subseteq Check!EntryRow' /\ s1 \in Check!EntryRow'
    <3>1. Check!EntryRow \subseteq Check!EntryRow'
      BY <1>4, FitsOn
    <3> QED
      BY <1>1, <2>1, <2>2, <3>1
  <2>5. /\ row \in Check!EntryRow' /\ row.good = n /\ row.goodBy = "discovery" /\ row.lease = s1.lease
        /\ row.status = s1.status /\ row.health = s1.health /\ row.pending = s1.pending
        /\ row.revision = s1.revision /\ row.ack = s1.ack
    BY <2>3, <2>4 DEF Check!EntryRow
  <2>6. "discovery" \notin Requests
    BY LibraryAssumption
  <2>7. Check!EntryFits(row)'
    BY <1>1, <2>2, <2>5, <2>6 DEF Check!EntryFits
  <2>8. s1' = row
    BY ONLY <2>2, <2>3
  <2>9. Check!EntryFits(s1)' /\ Check!LeaseFits(s1)'
    BY <2>5, <2>6, <2>7, <2>8 DEF Check!EntryFits, Check!LeaseFits
  <2>10. s1'.revision = s1.revision /\ s1'.pending = s1.pending /\ s1'.ack = s1.ack /\ s1'.goodBy \notin Requests
    BY <2>5, <2>6, <2>8
  <2>11. Check!IInv'
    BY <1>2, <1>4, <1>5, <2>9, <2>10, CheckStays
  <2> QED
    BY <2>10, <2>11 DEF CheckGoal, Check!AcceptsWhatWasSeenStep, Check!ChecksMoveForwardStep
<1> QED
  BY <1>6, <1>7

\* Commits, names and curators come and go.
LEMMA WorldKeeps ==
  ASSUME Check!IInv, Check!Push \/ Check!Rename \/ Check!CuratorChanges
  PROVE  CheckGoal
<1>1. /\ Check!SnapsFit /\ Check!CallFits(s7) /\ s2 \in BOOLEAN /\ Len(s4) \in Nat
      /\ s3.commit \in Nat /\ s3.commit # 0 /\ s3 \in [name : Twins, commit : Nat \ {0}]
      /\ \A s \in DOMAIN s4 : s4[s].commit \in Nat /\ s4[s].commit <= s3.commit
  BY CheckRows DEF Check!IInv, Check!SnapsFit
<1>2. UNCHANGED <<s1, s4, s5, s6, s7, s8>> /\ s2' \in BOOLEAN
  BY <1>1 DEF Check!Push, Check!Rename, Check!CuratorChanges
<1>3. s3' \in [name : Twins, commit : Nat \ {0}] /\ s3.commit <= s3'.commit
  <2>1. CASE Check!Push
    BY <1>1, <2>1 DEF Check!Push
  <2>2. CASE Check!Rename
    BY <1>1, <2>2 DEF Check!Rename
  <2>3. CASE Check!CuratorChanges
    BY <1>1, <2>3 DEF Check!CuratorChanges
  <2> QED
    BY <2>1, <2>2, <2>3
<1>4. Check!SnapsFit'
  <2>1. \A s \in DOMAIN s4 : s4[s].commit <= s3'.commit
    BY <1>1, <1>3
  <2>2. s4 \in Seq([commit : Nat \ {0}, complete : BOOLEAN])
    BY <1>1 DEF Check!SnapsFit
  <2> QED
    BY <1>2, <1>3, <2>1, <2>2 DEF Check!SnapsFit
<1>5. Grown
  BY <1>1, <1>2, <1>3, <1>4 DEF Grown
<1>6. Check!CallFits(s7)' /\ Check!CallFits(Check!Idle)'
  BY <1>1, <1>2, <1>5, IdleFits, FitsOn
<1>7. EntryMay /\ ViewMay /\ CallMay(Check!Free, Check!Idle)
  <2>1. EntryMay
    BY <1>2, <1>5, EntryRests
  <2> QED
    BY <1>2, <2>1 DEF ViewMay, CallMay, Check!Idle
<1> QED
  BY <1>2, <1>5, <1>6, <1>7, CheckMoves

\* Every step of the checks.
LEMMA CheckKept ==
  ASSUME Check!IInv, Check!Next \/ UNCHANGED Check!vars
  PROVE  CheckGoal
<1>1. ASSUME NEW c \in Requests, Check!Claim(c) \/ Check!CheckNow(c) \/ Check!Phase(c) \/ Check!Die(c)
      PROVE  CheckGoal
  BY <1>1, StartKeeps, PhasesKeep, ChecksEndKeep, StoreKeeps, FinishKeeps
     DEF Check!Claim, Check!CheckNow, Check!Phase
<1>2. CASE UNCHANGED Check!vars
  BY <1>2 DEF Check!vars, CheckGoal, Check!IInv, Check!SnapsFit, Check!EntryFits, Check!CallFits, Check!CallRow,
              Check!EntryRow, Check!CommitOf, Check!ViewFits, Check!LeaseFits,
              Check!AcceptsWhatWasSeenStep, Check!ChecksMoveForwardStep
<1> QED
  BY <1>1, <1>2, EditsKeep, CaptureKeeps, WorldKeeps DEF Check!Next

---------------------------------------------------------------------------
(* Libraries.                                                              *)

\* Their invariants, of whichever moves.
LibraryInv ==
  /\ part = "imports" => Imp!IInv
  /\ part = "adoptions" => Adopt!IInv
  /\ part = "checks" => Check!IInv

\* They are kept, and so is what their steps owe.
LEMMA LibraryStep ==
  ASSUME LibraryInv, [Next]_vars
  PROVE  /\ LibraryInv'
         /\ part = "imports" => Imp!HeadGoesBackKnowinglyStep
         /\ part = "adoptions" => Adopt!OnlyAvailableIsAdoptedStep
         /\ part = "checks" => Check!AcceptsWhatWasSeenStep /\ Check!ChecksMoveForwardStep
<1>1. part' = part
  BY DEF Next, vars, Submission, Authoring, Importing, Adopting, Checking, Improving, Reporting,
     RootLocking, Installing
<1>2. CASE part = "imports"
  BY <1>1, <1>2, ImpSteps, ImpKept DEF LibraryInv
<1>3. CASE part = "adoptions"
  BY <1>1, <1>3, AdoptSteps, AdoptKept DEF LibraryInv
<1>4. CASE part = "checks"
  BY <1>1, <1>4, CheckSteps, CheckKept DEF LibraryInv, CheckGoal
<1> QED
  BY <1>1, <1>2, <1>3, <1>4 DEF LibraryInv

\* They always hold.
LEMMA LibraryInvHolds == Spec => []LibraryInv
<1>1. Init => LibraryInv
  BY ImpInit, AdoptInit, CheckInit DEF Init, LibraryInv
<1>2. LibraryInv /\ [Next]_vars => LibraryInv'
  BY LibraryStep
<1> QED
  BY <1>1, <1>2, PTL DEF Spec

\* For any number of sources, commits, releases and checks: the lineage is the chain of the
\* imports that were accepted, one snapshot has one candidate that counts, a removed source
\* proposes nothing; adoptions follow each other and a lost curation keeps its pin; and
\* curators are shown the name that waits and a complete snapshot.
THEOREM LibrariesStayConsistent == Spec => []LibrariesAreConsistent
<1>1. Imp!IInv => Imp!OneCandidatePerSnapshot
  <2> SUFFICES ASSUME Imp!IInv, NEW s \in DOMAIN s3 PROVE Imp!Cardinality(Imp!ActiveFor(s)) <= 1
    BY DEF Imp!OneCandidatePerSnapshot
  <2>1. PICK S : S = Imp!ActiveFor(s)
    OBVIOUS
  <2>2. \A c, d \in S : c = d
    BY <2>1 DEF Imp!IInv, Imp!CountsOnce, Imp!Counts, Imp!ActiveFor
  <2>3. S = {} \/ \E c : S = {c}
    BY <2>2
  <2>4. Cardinality(S) <= 1
    BY <2>3, FS_EmptySet, FS_Singleton
  <2> QED
    BY <2>1, <2>4, ImpCounts
<1>2. Imp!IInv => Imp!RevisionsAreImports /\ Imp!RemovedSourcesProposeNothing
  BY DEF Imp!IInv
<1>3. Adopt!IInv => Adopt!AdoptionsFormAChain /\ Adopt!LostCurationKeepsThePin
  BY DEF Adopt!IInv, Adopt!PinsFit, Adopt!LostCurationKeepsThePin
<1>4. Check!IInv => Check!PendingIsShown /\ Check!GoodIsComplete
  BY DEF Check!IInv, Check!EntryFits, Check!PendingIsShown, Check!GoodIsComplete, Check!Active
<1>5. LibraryInv => LibrariesAreConsistent
  BY <1>1, <1>2, <1>3, <1>4 DEF LibraryInv, LibrariesAreConsistent
<1> QED
  BY <1>5, LibraryInvHolds, PTL

\* Whatever overlaps: the head goes back only by an import that was acknowledged as unverified,
\* only an available release is adopted, a curator accepts only the name looked at, and a check
\* replaces what a check found with the same or a newer commit, announced before.
THEOREM LibrariesKeepMovingKnowingly == Spec => LibrariesMoveKnowingly
<1>1. LibraryInv /\ [Next]_vars =>
        /\ part = "imports" => Imp!HeadGoesBackKnowinglyStep
        /\ part = "adoptions" => Adopt!OnlyAvailableIsAdoptedStep
        /\ part = "checks" => Check!AcceptsWhatWasSeenStep /\ Check!ChecksMoveForwardStep
  BY LibraryStep
<1> QED
  BY <1>1, LibraryInvHolds, PTL DEF Spec, LibrariesMoveKnowingly

---------------------------------------------------------------------------
(* What the journal of an improvement run comes to.                        *)

\* Among numbers there is a least.
LEMMA HasLeast ==
  ASSUME NEW S \in SUBSET Nat, S # {}
  PROVE  \E x \in S : \A y \in S : x <= y
<1>1. \E x \in S : \A y \in S : ~(<<y, x>> \in OpToRel(<, Nat))
  BY WFMin, NatLessThanWellFounded
<1>2. \E x \in S : \A y \in S : ~(y < x)
  BY <1>1 DEF OpToRel
<1> QED
  BY <1>2

\* p are the first steps of the replay of j, up to step n.
Replays(j, n, p) ==
  p = [i \in 0 .. n |-> IF i = 0 THEN Improve!Fresh ELSE Improve!Applied(p[i - 1], j[i])]

\* One by one.
LEMMA ReplaysIs ==
  ASSUME NEW j, NEW n \in Nat, NEW p
  PROVE  Replays(j, n, p) <=>
           /\ p = [i \in 0 .. n |-> p[i]] /\ p[0] = Improve!Fresh
           /\ \A i \in 1 .. n : p[i] = Improve!Applied(p[i - 1], j[i])
<1>1. ASSUME Replays(j, n, p)
      PROVE  /\ p = [i \in 0 .. n |-> p[i]] /\ p[0] = Improve!Fresh
             /\ \A i \in 1 .. n : p[i] = Improve!Applied(p[i - 1], j[i])
  <2>1. \A i \in 0 .. n : p[i] = IF i = 0 THEN Improve!Fresh ELSE Improve!Applied(p[i - 1], j[i])
    BY <1>1, Zenon DEF Replays
  <2>2. p = [i \in 0 .. n |-> p[i]]
    BY <1>1, <2>1, Zenon DEF Replays
  <2>3. 0 \in 0 .. n /\ \A i \in 1 .. n : i \in 0 .. n /\ i # 0
    OBVIOUS
  <2> QED
    BY <2>1, <2>2, <2>3, Zenon
<1>2. ASSUME p = [i \in 0 .. n |-> p[i]], p[0] = Improve!Fresh,
             \A i \in 1 .. n : p[i] = Improve!Applied(p[i - 1], j[i])
      PROVE  Replays(j, n, p)
  <2>1. \A i \in 0 .. n : i = 0 \/ i \in 1 .. n
    OBVIOUS
  <2>2. \A i \in 0 .. n : p[i] = IF i = 0 THEN Improve!Fresh ELSE Improve!Applied(p[i - 1], j[i])
    BY <1>2, <2>1, Zenon
  <2> QED
    BY <1>2, <2>2, Zenon DEF Replays
<1> QED
  BY <1>1, <1>2

\* There are no two replays of a journal.
LEMMA OneReplay ==
  ASSUME NEW j, NEW n \in Nat, NEW p, NEW q, Replays(j, n, p), Replays(j, n, q)
  PROVE  p = q
<1>1. /\ p = [i \in 0 .. n |-> p[i]] /\ q = [i \in 0 .. n |-> q[i]] /\ p[0] = q[0]
      /\ \A i \in 1 .. n : p[i] = Improve!Applied(p[i - 1], j[i]) /\ q[i] = Improve!Applied(q[i - 1], j[i])
  <2>1. /\ p = [i \in 0 .. n |-> p[i]] /\ p[0] = Improve!Fresh
        /\ \A i \in 1 .. n : p[i] = Improve!Applied(p[i - 1], j[i])
    BY ReplaysIs
  <2>2. /\ q = [i \in 0 .. n |-> q[i]] /\ q[0] = Improve!Fresh
        /\ \A i \in 1 .. n : q[i] = Improve!Applied(q[i - 1], j[i])
    BY ReplaysIs
  <2> QED
    BY <2>1, <2>2, Zenon
<1>2. ASSUME NEW k \in 0 .. n, p[k] # q[k] PROVE FALSE
  <2>1. PICK S : S = {i \in 0 .. n : p[i] # q[i]}
    OBVIOUS
  <2>2. S \in SUBSET Nat /\ S # {}
    BY <1>2, <2>1
  <2>3. PICK x \in S : \A y \in S : x <= y
    BY <2>2, HasLeast
  <2>4. x \in 0 .. n /\ p[x] # q[x] /\ x # 0
    BY <1>1, <2>1, <2>3
  <2>5. x - 1 \in 0 .. n /\ x \in 1 .. n /\ ~(x <= x - 1)
    BY <2>4
  <2>6. p[x - 1] = q[x - 1]
    BY <2>1, <2>3, <2>5, Zenon
  <2> QED
    BY <1>1, <2>4, <2>5, <2>6, Zenon
<1> QED
  BY <1>1, <1>2, Zenon

\* A replay of n steps goes on to the next step.
LEMMA ReplayGoesOn ==
  ASSUME NEW j, NEW n \in Nat, NEW p, Replays(j, n, p), NEW J, \A i \in 1 .. n : J[i] = j[i]
  PROVE  \E q : Replays(J, n + 1, q) /\ q[n + 1] = Improve!Applied(p[n], J[n + 1])
<1>1. /\ p = [i \in 0 .. n |-> p[i]] /\ p[0] = Improve!Fresh
      /\ \A i \in 1 .. n : p[i] = Improve!Applied(p[i - 1], j[i])
  BY ReplaysIs, Zenon
<1>2. PICK q : q = [i \in 0 .. (n + 1) |-> IF i = n + 1 THEN Improve!Applied(p[n], J[n + 1]) ELSE p[i]]
  OBVIOUS
<1>3. /\ n + 1 \in 0 .. (n + 1) /\ \A i \in 0 .. n : i \in 0 .. (n + 1) /\ i # n + 1
      /\ n + 1 \in Nat /\ 0 \in 0 .. n /\ n \in 0 .. n /\ (n + 1) - 1 = n
      /\ \A i \in 1 .. n : i \in 0 .. n /\ i - 1 \in 0 .. n
      /\ \A i \in 1 .. (n + 1) : i = n + 1 \/ i \in 1 .. n
  OBVIOUS
<1>4. q[n + 1] = Improve!Applied(p[n], J[n + 1]) /\ \A i \in 0 .. n : q[i] = p[i]
  BY <1>2, <1>3, Zenon
<1>5. q = [i \in 0 .. (n + 1) |-> q[i]]
  BY <1>2, Zenon
<1>6. \A i \in 1 .. (n + 1) : q[i] = Improve!Applied(q[i - 1], J[i])
  <2> SUFFICES ASSUME NEW i \in 1 .. (n + 1) PROVE q[i] = Improve!Applied(q[i - 1], J[i])
    OBVIOUS
  <2>1. CASE i = n + 1
    BY <1>3, <1>4, <2>1, Zenon
  <2>2. CASE i \in 1 .. n
    BY <1>1, <1>3, <1>4, <2>2, Zenon
  <2> QED
    BY <1>3, <2>1, <2>2
<1>7. q[0] = Improve!Fresh
  BY <1>1, <1>3, <1>4, Zenon
<1> QED
  BY <1>3, <1>4, <1>5, <1>6, <1>7, ReplaysIs, Zenon

\* Nothing replayed is a run as it starts.
LEMMA ReplayBegins == ASSUME NEW j PROVE \E p : Replays(j, 0, p)
<1>1. PICK p : p = [i \in 0 .. 0 |-> Improve!Fresh]
  OBVIOUS
<1>2. 0 \in 0 .. 0 /\ 0 \in Nat /\ \A i \in 1 .. 0 : FALSE
  OBVIOUS
<1>3. p = [i \in 0 .. 0 |-> p[i]] /\ p[0] = Improve!Fresh
  BY <1>1, <1>2, Zenon
<1> QED
  BY <1>2, <1>3, ReplaysIs, Zenon

\* Every journal has a replay.
LEMMA ReplayExists == ASSUME NEW j, NEW n \in Nat PROVE \E p : Replays(j, n, p)
<1> SUFFICES ASSUME ~(\E p : Replays(j, n, p)) PROVE FALSE
  OBVIOUS
<1>1. PICK S : S = {i \in Nat : ~(\E p : Replays(j, i, p))}
  OBVIOUS
<1>2. S \in SUBSET Nat /\ S # {}
  BY <1>1
<1>3. PICK x \in S : \A y \in S : x <= y
  BY <1>2, HasLeast
<1>4. x \in Nat /\ ~(\E p : Replays(j, x, p))
  BY <1>1, <1>3, Zenon
<1>5. x # 0
  BY <1>4, ReplayBegins
<1>6. x - 1 \in Nat /\ (x - 1) + 1 = x /\ ~(x <= x - 1)
  BY <1>4, <1>5
<1>7. PICK p : Replays(j, x - 1, p)
  BY <1>1, <1>3, <1>6, Zenon
<1>8. \E q : Replays(j, (x - 1) + 1, q)
  BY <1>6, <1>7, ReplayGoesOn, Zenon
<1> QED
  BY <1>4, <1>6, <1>8

\* What the replay of a journal comes to.
LEMMA ReplayIs ==
  ASSUME NEW j, Len(j) \in Nat, NEW p, Replays(j, Len(j), p)
  PROVE  Improve!Replay(j) = p[Len(j)]
<1>1. PICK q : q = CHOOSE t : Replays(j, Len(j), t)
  OBVIOUS
<1>2. Replays(j, Len(j), q)
  BY <1>1, Zenon
<1>3. q = p
  BY <1>2, OneReplay, Zenon
<1>4. Improve!Replay(j) = (CHOOSE r : Replays(j, Len(j), r))[Len(j)]
  BY DEF Improve!Replay, Replays
<1> QED
  BY <1>1, <1>3, <1>4, Zenon

\* Of nothing, to a run as it starts,
LEMMA ReplayOfNothing == ASSUME NEW j, Len(j) = 0 PROVE Improve!Replay(j) = Improve!Fresh
<1>1. PICK p : Replays(j, 0, p)
  BY ReplayBegins
<1>2. PICK z \in Nat : z = 0
  OBVIOUS
<1>3. Replays(j, z, p)
  BY <1>1, <1>2
<1>4. p[z] = Improve!Fresh
  BY <1>2, <1>3, ReplaysIs
<1>5. Len(j) = z /\ Replays(j, Len(j), p)
  BY <1>2, <1>3
<1>6. Improve!Replay(j) = p[Len(j)]
  BY <1>5, ReplayIs
<1> QED
  BY <1>4, <1>5, <1>6

\* and of one event more, to what the event makes of what was there.
LEMMA ReplayOfOneMore ==
  ASSUME NEW j, NEW J, Len(j) \in Nat, Len(J) = Len(j) + 1, \A i \in 1 .. Len(j) : J[i] = j[i]
  PROVE  Improve!Replay(J) = Improve!Applied(Improve!Replay(j), J[Len(J)])
<1>n. PICK n \in Nat : n = Len(j)
  OBVIOUS
<1>1. PICK p : Replays(j, n, p)
  BY ReplayExists
<1>2. PICK q : Replays(J, n + 1, q) /\ q[n + 1] = Improve!Applied(p[n], J[n + 1])
  <2>1. \A i \in 1 .. n : J[i] = j[i]
    BY <1>n
  <2> QED
    BY <1>1, <2>1, ReplayGoesOn
<1>3. n + 1 = Len(J) /\ Len(J) \in Nat
  BY <1>n
<1>4. Replays(j, Len(j), p) /\ Replays(J, Len(J), q)
  BY <1>n, <1>1, <1>2, <1>3
<1>5. Improve!Replay(j) = p[Len(j)]
  BY <1>4, ReplayIs
<1>6. Improve!Replay(J) = q[Len(J)]
  BY <1>3, <1>4, ReplayIs
<1> QED
  BY <1>n, <1>2, <1>3, <1>5, <1>6

---------------------------------------------------------------------------
(* Improvement runs and their journals.  As above, what follows is about   *)
(* both instances.                                                         *)

\* What a runner may report.
IsEvent(e) == e.type = "stage.started" => e.of \in DOMAIN Improve!Rank

\* What a run can have come to.
IsProgress(p) ==
  /\ p = [state |-> p.state, open |-> p.open, done |-> p.done, candidate |-> p.candidate, evals |-> p.evals]
  /\ p.state \in {"running", "completed"} \cup Improve!Stopped
  /\ p.open \in {"none"} \cup DOMAIN Improve!Rank

\* An event leads from progress to progress,
LEMMA AppliedFits ==
  ASSUME NEW p, IsProgress(p), NEW e, IsEvent(e),
         e.type \in {"stage.started", "stage.completed", "candidate.frozen", "evaluation.recorded",
                     "run.completed", "run.failed"}
  PROVE  IsProgress(Improve!Applied(p, e))
<1>1. PICK a1, a2, a3, a4, a5 :
        p = [state |-> a1, open |-> a2, done |-> a3, candidate |-> a4, evals |-> a5]
  BY DEF IsProgress
<1>2. a1 \in {"running", "completed"} \cup Improve!Stopped /\ a2 \in {"none"} \cup DOMAIN Improve!Rank
  BY <1>1 DEF IsProgress
<1>3. "failed" \in Improve!Stopped
  BY DEF Improve!Stopped
<1> QED
  BY <1>1, <1>2, <1>3 DEF IsProgress, IsEvent, Improve!Applied

\* and so does the end of a run that is stopped.
LEMMA EndedFits ==
  ASSUME NEW p, IsProgress(p), NEW x \in Improve!Stopped
  PROVE  IsProgress(Improve!Ended(p, x)) /\ Improve!Ended(p, x).state = x
<1>1. PICK a1, a2, a3, a4, a5 :
        p = [state |-> a1, open |-> a2, done |-> a3, candidate |-> a4, evals |-> a5]
  BY DEF IsProgress
<1>2. a1 \in {"running", "completed"} \cup Improve!Stopped /\ a2 \in {"none"} \cup DOMAIN Improve!Rank
  BY <1>1 DEF IsProgress
<1>3. PICK q : q = Improve!Ended(p, x)
  OBVIOUS
<1>4. q = [state |-> x, open |-> "none", done |-> a3, candidate |-> a4, evals |-> a5]
  <2> HIDE DEF IsProgress
  <2> QED
    BY ONLY <1>1, <1>3 DEF Improve!Ended
<1> QED
  BY <1>2, <1>3, <1>4 DEF IsProgress

\* A run starts as one.
LEMMA FreshFits == IsProgress(Improve!Fresh)
BY DEF IsProgress, Improve!Fresh, Improve!Stopped

\* What a row with this key and progress says of its journal.
RowTells(K, E, x, j) ==
  /\ x.key \in K /\ IsProgress(x.progress) /\ j \in Seq(E)
  /\ \/ x.progress = Improve!Replay(j)
     \/ /\ Improve!Replay(j).state = "running" /\ x.progress.state \in Improve!Stopped
        /\ x.progress = Improve!Ended(Improve!Replay(j), x.progress.state)

\* A request whose reading is still current stores what the row, one event or one stop later
\* would say.
CallTells(K, E, m) ==
  /\ m.at = "create" => m.key \in K
  /\ m.at \in {"check", "append"} => m.event \in E
  /\ m.at \in {"check", "append", "stop"} /\ m.version = s3[m.run].version =>
       /\ m.at = "check" => m.progress = s3[m.run].progress
       /\ m.at = "append" => m.progress = Improve!Applied(s3[m.run].progress, m.event)
       /\ m.at = "stop" => \E x \in Improve!Stopped : m.progress = Improve!Ended(s3[m.run].progress, x)

\* The invariant of an instance with these requests, keys and events.
Told(C, K, E) ==
  /\ s1 \in BOOLEAN /\ s2 \in Improve!Standings
  /\ \A r \in DOMAIN s3 : RowTells(K, E, s3[r], s4[r])
  /\ \A c \in C : CallTells(K, E, s5[c])

\* Events of an instance are events.
AreEvents(E) ==
  \A e \in E : /\ IsEvent(e)
              /\ e.type \in {"stage.started", "stage.completed", "candidate.frozen",
                            "evaluation.recorded", "run.completed", "run.failed"}

\* A run under way is what its journal comes to.
LEMMA RunningTells ==
  ASSUME NEW K, NEW E, NEW x, NEW j, RowTells(K, E, x, j), x.progress.state = "running"
  PROVE  x.progress = Improve!Replay(j)
BY DEF RowTells, Improve!Stopped

\* A row grows by an event,
LEMMA EventTells ==
  ASSUME NEW K, NEW E, AreEvents(E), NEW x, NEW j, RowTells(K, E, x, j), x.progress.state = "running",
         NEW e \in E, NEW y, y.key = x.key, y.progress = Improve!Applied(x.progress, e)
  PROVE  RowTells(K, E, y, Append(j, e))
<1>1. j \in Seq(E) /\ x.progress = Improve!Replay(j) /\ IsProgress(x.progress) /\ x.key \in K
  BY RunningTells DEF RowTells
<1>2. PICK J : J = Append(j, e)
  OBVIOUS
<1>3. /\ J \in Seq(E) /\ Len(j) \in Nat /\ Len(J) = Len(j) + 1 /\ J[Len(J)] = e
      /\ \A i \in 1 .. Len(j) : J[i] = j[i]
  BY <1>1, <1>2
<1>4. Improve!Replay(J) = Improve!Applied(Improve!Replay(j), J[Len(J)])
  BY <1>3, ReplayOfOneMore
<1>5. IsProgress(y.progress)
  BY <1>1, AppliedFits DEF AreEvents
<1> QED
  BY <1>1, <1>2, <1>3, <1>4, <1>5 DEF RowTells

\* or by a stop.
LEMMA StopTells ==
  ASSUME NEW K, NEW E, NEW x, NEW j, RowTells(K, E, x, j), x.progress.state = "running",
         NEW why \in Improve!Stopped, NEW y, y.key = x.key, y.progress = Improve!Ended(x.progress, why)
  PROVE  RowTells(K, E, y, j)
<1>1. j \in Seq(E) /\ x.progress = Improve!Replay(j) /\ IsProgress(x.progress) /\ x.key \in K
  BY RunningTells DEF RowTells
<1>2. IsProgress(y.progress) /\ y.progress.state = why
  BY <1>1, EndedFits
<1> QED
  BY <1>1, <1>2 DEF RowTells

\* What a step of these requests does, with these keys and events.
RunsMove(C, K, E) ==
  /\ s1' \in {s1, TRUE} /\ s2' \in Improve!Standings \cup {s2}
  /\ \/ \E c \in C :
          \/ \E k \in K :
               /\ s5' = [s5 EXCEPT ![c] = [at |-> "create", key |-> k, attempt |-> Len(s3) + 1]]
               /\ s3' = s3 /\ s4' = s4
          \/ Improve!CreateRun(c) \/ Improve!CheckEvent(c) \/ Improve!AppendRunEvent(c)
          \/ Improve!Terminate(c)
          \/ \E r \in DOMAIN s3 : Improve!BeginStop(c, r)
          \/ \E r \in DOMAIN s3 : \E e \in E : Improve!ReadRun(c, r, e)
     \/ s3' = s3 /\ s4' = s4 /\ s5' = s5

\* A step that leaves rows and journals as they are.
LEMMA TalesStay ==
  ASSUME NEW C, NEW K, NEW E, NEW most, Told(C, K, E), RunsInv(C, most), s3' = s3, s4' = s4,
         s1' \in {s1, TRUE}, s2' \in Improve!Standings \cup {s2},
         \/ s5' = s5
         \/ \E m : \E c \in C : s5' = [s5 EXCEPT ![c] = m] /\ CallTells(K, E, m)
  PROVE  Told(C, K, E)'
<1>1. DOMAIN s5 = C
  BY DEF RunsInv
<1>2. \A c \in C : CallTells(K, E, s5'[c])
  BY <1>1 DEF Told
<1>3. \A c \in C : CallTells(K, E, s5[c])'
  BY <1>2 DEF CallTells
<1> QED
  BY <1>3 DEF Told

\* A request at rest stores nothing.
LEMMA IdleTells == ASSUME NEW K, NEW E PROVE CallTells(K, E, Improve!Idle) /\ CallTells(K, E, Improve!Idle)'
BY DEF CallTells, Improve!Idle

\* A new row has an empty journal.
LEMMA CreatedTells ==
  ASSUME NEW K, NEW E, NEW x, x.key \in K, x.progress = Improve!Fresh
  PROVE  RowTells(K, E, x, <<>>)
<1>1. <<>> \in Seq(E) /\ Len(<<>>) = 0
  OBVIOUS
<1>2. Improve!Replay(<<>>) = Improve!Fresh
  BY <1>1, ReplayOfNothing
<1> QED
  BY <1>1, <1>2, FreshFits DEF RowTells

\* A row is added at the end.
LEMMA CreationTells ==
  ASSUME NEW C, NEW K, NEW E, NEW most, Told(C, K, E), RunsInv(C, most), NEW c \in C,
         NEW x, RowTells(K, E, x, <<>>), s3' = Append(s3, x), s4' = Append(s4, <<>>),
         s5' = [s5 EXCEPT ![c] = Improve!Idle], s1' = s1, s2' = s2
  PROVE  Told(C, K, E)'
<1>1. /\ IsSeq(s3) /\ IsSeq(s4) /\ Len(s3) \in Nat /\ Len(s4) = Len(s3)
      /\ DOMAIN s3 = 1 .. Len(s3) /\ DOMAIN s5 = C
  BY HistoryFacts DEF RunsInv
<1>2. /\ DOMAIN s3' = 1 .. (Len(s3) + 1) /\ s3'[Len(s3) + 1] = x
      /\ \A r \in 1 .. Len(s3) : s3'[r] = s3[r]
  BY <1>1, SeqGrows
<1>3. s4'[Len(s3) + 1] = <<>> /\ \A r \in 1 .. Len(s3) : s4'[r] = s4[r]
  BY <1>1, SeqGrows
<1>4. \A r \in DOMAIN s3' : RowTells(K, E, s3'[r], s4'[r])
  <2> SUFFICES ASSUME NEW r \in DOMAIN s3' PROVE RowTells(K, E, s3'[r], s4'[r])
    OBVIOUS
  <2>1. r \in 1 .. Len(s3) \/ r = Len(s3) + 1
    BY <1>1, <1>2
  <2> QED
    BY <1>1, <1>2, <1>3, <2>1 DEF Told
<1>5. ASSUME NEW d \in C PROVE CallTells(K, E, s5[d])'
  <2>1. CallTells(K, E, s5[d]) /\ CallKnows(most, s5[d])
    BY DEF Told, RunsInv
  <2>2. s5[d].at \in {"check", "append", "stop"} => s5[d].run \in 1 .. Len(s3)
    BY <1>1, <2>1 DEF CallKnows, Improve!ReadingsAreBehind
  <2>3. CASE d # c
    <3>1. s5'[d] = s5[d]
      BY <1>1, <2>3
    <3>2. s5[d].at \in {"check", "append", "stop"} => s3'[s5[d].run] = s3[s5[d].run]
      BY <1>2, <2>2
    <3> QED
      BY <2>1, <3>1, <3>2 DEF CallTells
  <2>4. CASE d = c
    <3>1. s5'[d] = Improve!Idle
      BY <1>1, <2>4
    <3> QED
      BY <3>1 DEF CallTells, Improve!Idle
  <2> QED
    BY <2>3, <2>4
<1> QED
  BY <1>4, <1>5 DEF Told

\* A row moves on, and every other request that has read it is late.
LEMMA MovedTells ==
  ASSUME NEW C, NEW K, NEW E, NEW most, Told(C, K, E), RunsInv(C, most), NEW c \in C,
         NEW r \in DOMAIN s3, NEW x, x.version = s3[r].version + 1, NEW j, RowTells(K, E, x, j),
         s3' = [s3 EXCEPT ![r] = x], s4' = [s4 EXCEPT ![r] = j],
         s5' = [s5 EXCEPT ![c] = Improve!Idle], s1' = s1, s2' = s2
  PROVE  Told(C, K, E)'
<1>1. /\ IsSeq(s3) /\ IsSeq(s4) /\ DOMAIN s4 = DOMAIN s3 /\ DOMAIN s5 = C /\ s3[r].version \in Nat
  BY HistoryFacts DEF RunsInv
<1>2. /\ DOMAIN s3' = DOMAIN s3 /\ s3'[r] = x /\ s4'[r] = j
      /\ \A q \in DOMAIN s3 : q # r => s3'[q] = s3[q] /\ s4'[q] = s4[q]
  BY <1>1, SeqChanges
<1>3. \A q \in DOMAIN s3' : RowTells(K, E, s3'[q], s4'[q])
  BY <1>2 DEF Told
<1>4. ASSUME NEW d \in C PROVE CallTells(K, E, s5[d])'
  <2>1. CallTells(K, E, s5[d]) /\ CallKnows(most, s5[d])
    BY DEF Told, RunsInv
  <2>2. s5[d].at \in {"check", "append", "stop"} =>
          /\ s5[d].run \in DOMAIN s3 /\ s5[d].version \in Nat
          /\ s5[d].version <= s3[s5[d].run].version
    BY <2>1 DEF CallKnows, Improve!ReadingsAreBehind
  <2>3. CASE d # c
    <3>1. s5'[d] = s5[d]
      BY <1>1, <2>3
    <3>2. s5[d].at \in {"check", "append", "stop"} =>
            \/ s3'[s5[d].run] = s3[s5[d].run]
            \/ s5[d].version # s3'[s5[d].run].version
      BY <1>1, <1>2, <2>2
    <3> QED
      BY <2>1, <3>1, <3>2 DEF CallTells
  <2>4. CASE d = c
    <3>1. s5'[d] = Improve!Idle
      BY <1>1, <2>4
    <3> QED
      BY <3>1 DEF CallTells, Improve!Idle
  <2> QED
    BY <2>3, <2>4
<1> QED
  BY <1>3, <1>4 DEF Told

\* A request that has read the run of its event computes what it will store.
LEMMA WillStoreTells ==
  ASSUME NEW C, NEW K, NEW E, NEW most, Told(C, K, E), RunsInv(C, most), NEW c \in C, s5[c].at = "check",
         NEW at \in {"append", "stop"}, NEW p, Improve!WillStore(c, at, p),
         at = "append" => p = Improve!Applied(s5[c].progress, s5[c].event),
         at = "stop" => \E x \in Improve!Stopped : p = Improve!Ended(s5[c].progress, x),
         s3' = s3, s4' = s4, s1' = s1, s2' = s2
  PROVE  Told(C, K, E)'
<1> DEFINE m == s5[c]
           n == [m EXCEPT !.at = at, !.progress = p]
<1>1. CallKnows(most, m) /\ CallTells(K, E, m)
  BY DEF RunsInv, Told
<1>2. m = [at |-> "check", run |-> m.run, event |-> m.event, version |-> m.version, n |-> m.n,
           progress |-> m.progress]
  BY <1>1 DEF CallKnows, Improve!ReadingsAreBehind
<1>3. PICK a1, a2, a3, a4, a5 :
        m = [at |-> "check", run |-> a1, event |-> a2, version |-> a3, n |-> a4, progress |-> a5]
  BY <1>2
<1>4. n.at = at /\ n.run = m.run /\ n.version = m.version /\ n.event = m.event /\ n.progress = p
  BY <1>3
<1>5. s5' = [s5 EXCEPT ![c] = n]
  BY DEF Improve!WillStore
<1>6. /\ m.at = "check"
      /\ at = "append" => p = Improve!Applied(m.progress, m.event)
      /\ at = "stop" => \E x \in Improve!Stopped : p = Improve!Ended(m.progress, x)
  BY DEF m
<1> HIDE DEF m, n
<1>7. CallTells(K, E, n)
  BY <1>1, <1>4, <1>6 DEF CallTells
<1> QED
  BY <1>5, <1>7, TalesStay

\* The step of a request keeps the invariant,
LEMMA RequestTells ==
  ASSUME NEW C, NEW K, NEW E, NEW most \in Nat, AreEvents(E), Told(C, K, E), RunsInv(C, most), NEW c \in C,
         \/ Improve!CreateRun(c) \/ Improve!CheckEvent(c) \/ Improve!AppendRunEvent(c)
         \/ Improve!Terminate(c)
         \/ \E r \in DOMAIN s3 : Improve!BeginStop(c, r)
         \/ \E r \in DOMAIN s3 : \E e \in E : Improve!ReadRun(c, r, e)
  PROVE  Told(C, K, E)'
<1> DEFINE m == s5[c]
<1>1. CallKnows(most, m) /\ CallTells(K, E, m)
  BY DEF RunsInv, Told
<1>2. s1' = s1 /\ s2' = s2
  BY DEF Improve!CreateRun, Improve!CheckEvent, Improve!AppendRunEvent, Improve!Terminate,
     Improve!BeginStop, Improve!ReadRun, Improve!plan
<1>3. ASSUME Improve!Done(c), s3' = s3, s4' = s4 PROVE Told(C, K, E)'
  BY <1>2, <1>3, IdleTells, TalesStay DEF Improve!Done
<1>4. CASE Improve!CreateRun(c)
  <2>1. m.at = "create" /\ m.key \in K /\ Improve!Done(c)
    BY <1>1, <1>4 DEF CallTells, Improve!CreateRun
  <2>2. \/ s3' = s3 /\ s4' = s4
        \/ /\ s3' = Append(s3, [key |-> m.key, version |-> 1, last |-> 0, progress |-> Improve!Fresh])
           /\ s4' = Append(s4, <<>>)
    BY <1>4 DEF Improve!CreateRun
  <2>3. RowTells(K, E, [key |-> m.key, version |-> 1, last |-> 0, progress |-> Improve!Fresh], <<>>)
    BY <2>1, CreatedTells
  <2>4. s5' = [s5 EXCEPT ![c] = Improve!Idle]
    BY <2>1 DEF Improve!Done
  <2> HIDE DEF m
  <2> QED
    BY <1>2, <1>3, <2>1, <2>2, <2>3, <2>4, CreationTells
<1>5. CASE Improve!CheckEvent(c)
  <2>1. m.at = "check" /\ s3' = s3 /\ s4' = s4
    BY <1>5 DEF Improve!CheckEvent
  <2>2. \/ Improve!Done(c)
        \/ Improve!WillStore(c, "append", Improve!Applied(m.progress, m.event))
        \/ \E x \in Improve!Stopped : Improve!WillStore(c, "stop", Improve!Ended(m.progress, x))
    BY <1>5 DEF Improve!CheckEvent, Improve!Stopped
  <2>3. CASE Improve!WillStore(c, "append", Improve!Applied(m.progress, m.event))
    BY <1>2, <2>1, <2>3, WillStoreTells
  <2>4. ASSUME NEW x \in Improve!Stopped, Improve!WillStore(c, "stop", Improve!Ended(m.progress, x))
        PROVE  Told(C, K, E)'
    BY <1>2, <2>1, <2>4, WillStoreTells
  <2> QED
    BY <1>3, <2>1, <2>2, <2>3, <2>4
<1>6. CASE Improve!AppendRunEvent(c)
  <2>1. m.at = "append" /\ m.run \in DOMAIN s3 /\ m.event \in E /\ Improve!Done(c)
    BY <1>1, <1>6 DEF Improve!AppendRunEvent, CallKnows, Improve!ReadingsAreBehind, CallTells
  <2> DEFINE r == m.run
             x == [key |-> s3[r].key, version |-> s3[r].version + 1, last |-> m.n, progress |-> m.progress]
  <2>2. \/ s3' = s3 /\ s4' = s4
        \/ /\ s3[r].version = m.version /\ s3[r].progress.state = "running"
           /\ s3' = [s3 EXCEPT ![r] = x] /\ s4' = [s4 EXCEPT ![r] = Append(s4[r], m.event)]
    BY <1>6 DEF Improve!AppendRunEvent, Improve!IsCurrent, Improve!State, Improve!Stored
  <2>3. ASSUME s3[r].version = m.version, s3[r].progress.state = "running"
        PROVE  RowTells(K, E, x, Append(s4[r], m.event))
    <3>1. m.progress = Improve!Applied(s3[r].progress, m.event)
      BY <1>1, <2>1, <2>3 DEF CallTells
    <3>2. RowTells(K, E, s3[r], s4[r])
      BY <2>1 DEF Told
    <3>3. x.key = s3[r].key /\ x.progress = m.progress
      OBVIOUS
    <3> HIDE DEF m, r, x
    <3> QED
      BY <2>1, <2>3, <3>1, <3>2, <3>3, EventTells
  <2>4. x.version = s3[r].version + 1
    OBVIOUS
  <2>5. s5' = [s5 EXCEPT ![c] = Improve!Idle] /\ r \in DOMAIN s3
    BY <2>1 DEF Improve!Done
  <2> HIDE DEF m, r, x
  <2> QED
    BY <1>2, <1>3, <2>1, <2>2, <2>3, <2>4, <2>5, MovedTells
<1>7. CASE Improve!Terminate(c)
  <2>1. m.at = "stop" /\ m.run \in DOMAIN s3 /\ Improve!Done(c) /\ s4' = s4
    BY <1>1, <1>7 DEF Improve!Terminate, CallKnows, Improve!ReadingsAreBehind, CallTells
  <2> DEFINE r == m.run
             x == [key |-> s3[r].key, version |-> s3[r].version + 1, last |-> s3[r].last, progress |-> m.progress]
  <2>2. \/ s3' = s3
        \/ /\ s3[r].version = m.version /\ s3[r].progress.state = "running"
           /\ s3' = [s3 EXCEPT ![r] = x]
    BY <1>7 DEF Improve!Terminate, Improve!IsCurrent, Improve!State, Improve!Stored
  <2>3. ASSUME s3[r].version = m.version, s3[r].progress.state = "running"
        PROVE  RowTells(K, E, x, s4[r])
    <3>1. PICK why \in Improve!Stopped : m.progress = Improve!Ended(s3[r].progress, why)
      BY <1>1, <2>1, <2>3 DEF CallTells
    <3>2. RowTells(K, E, s3[r], s4[r])
      BY <2>1 DEF Told
    <3>3. x.key = s3[r].key /\ x.progress = m.progress
      OBVIOUS
    <3> HIDE DEF m, r, x
    <3> QED
      BY <2>1, <2>3, <3>1, <3>2, <3>3, StopTells
  <2>4. x.version = s3[r].version + 1
    OBVIOUS
  <2>5. s5' = [s5 EXCEPT ![c] = Improve!Idle] /\ r \in DOMAIN s3
    BY <2>1 DEF Improve!Done
  <2>6. s4 = [q \in DOMAIN s4 |-> s4[q]]
    BY HistoryFacts DEF RunsInv, IsSeq
  <2>7. PICK j : j = s4[r] /\ s4' = [s4 EXCEPT ![r] = j]
    BY <2>1, <2>6
  <2> HIDE DEF m, r, x
  <2>8. CASE s3' = s3
    BY <1>3, <2>1, <2>8
  <2>9. CASE /\ s3[r].version = m.version /\ s3[r].progress.state = "running"
             /\ s3' = [s3 EXCEPT ![r] = x]
    <3>1. RowTells(K, E, x, j)
      BY <2>3, <2>7, <2>9
    <3> QED
      BY <1>2, <2>4, <2>5, <2>7, <2>9, <3>1, MovedTells
  <2> QED
    BY <2>2, <2>8, <2>9
<1>8. ASSUME NEW r \in DOMAIN s3, Improve!BeginStop(c, r) PROVE Told(C, K, E)'
  <2>1. PICK why \in Improve!Stopped :
          /\ s5' = [s5 EXCEPT ![c] = [at |-> "stop", run |-> r, version |-> s3[r].version,
                                       progress |-> Improve!Ended(s3[r].progress, why)]]
          /\ s3' = s3 /\ s4' = s4
    BY <1>8 DEF Improve!BeginStop, Improve!Stopped
  <2>2. CallTells(K, E, [at |-> "stop", run |-> r, version |-> s3[r].version,
                         progress |-> Improve!Ended(s3[r].progress, why)])
    BY DEF CallTells
  <2> QED
    BY <1>2, <2>1, <2>2, TalesStay
<1>9. ASSUME NEW r \in DOMAIN s3, NEW e \in E, Improve!ReadRun(c, r, e) PROVE Told(C, K, E)'
  <2> DEFINE n == [at |-> "check", run |-> r, event |-> e, version |-> s3[r].version,
                   n |-> s3[r].last + 1, progress |-> s3[r].progress]
  <2>1. s5' = [s5 EXCEPT ![c] = n] /\ s3' = s3 /\ s4' = s4
    BY <1>9 DEF Improve!ReadRun
  <2>2. CallTells(K, E, n)
    BY DEF CallTells
  <2> HIDE DEF n
  <2> QED
    BY <1>2, <2>1, <2>2, TalesStay
<1> QED
  BY <1>4, <1>5, <1>6, <1>7, <1>8, <1>9

\* and so does every step.
LEMMA MovesTell ==
  ASSUME NEW C, NEW K, NEW E, NEW most \in Nat, AreEvents(E), Told(C, K, E), RunsInv(C, most),
         RunsMove(C, K, E)
  PROVE  Told(C, K, E)'
<1>1. ASSUME NEW c \in C, NEW k \in K,
             s5' = [s5 EXCEPT ![c] = [at |-> "create", key |-> k, attempt |-> Len(s3) + 1]],
             s3' = s3, s4' = s4
      PROVE  Told(C, K, E)'
  <2>1. CallTells(K, E, [at |-> "create", key |-> k, attempt |-> Len(s3) + 1])
    BY DEF CallTells
  <2> QED
    BY <1>1, <2>1, TalesStay DEF RunsMove
<1>2. CASE s3' = s3 /\ s4' = s4 /\ s5' = s5
  BY <1>2, TalesStay DEF RunsMove
<1> QED
  BY <1>1, <1>2, RequestTells DEF RunsMove

\* The steps of the two instances are such steps.
LEMMA ImproveMoves ==
  ASSUME part = "improvements", [Next]_vars
  PROVE  RunsMove(Requests, Releases, FewEvents)
<1>1. CASE Improve!Next
  <2>1. CASE \/ Improve!PlanExpires \/ Improve!StandingChanges
             \/ \E r \in DOMAIN s3 : \E n \in DOMAIN s4[r], e \in FewEvents : Improve!ReplayEvent(r, n, e)
    BY <2>1 DEF Improve!PlanExpires, Improve!StandingChanges, Improve!ReplayEvent, Improve!plan, RunsMove
  <2>2. ASSUME NEW c \in Requests, NEW k \in Releases, Improve!BeginRun(c, k)
        PROVE  RunsMove(Requests, Releases, FewEvents)
    BY <2>2 DEF Improve!BeginRun, Improve!plan, RunsMove
  <2>3. ASSUME NEW c \in Requests,
               \/ Improve!CreateRun(c) \/ Improve!CheckEvent(c) \/ Improve!AppendRunEvent(c)
               \/ Improve!Terminate(c)
               \/ \E r \in DOMAIN s3 :
                    Improve!BeginStop(c, r) \/ \E e \in FewEvents : Improve!ReadRun(c, r, e)
        PROVE  RunsMove(Requests, Releases, FewEvents)
    <3>1. s1' = s1 /\ s2' = s2
      BY <2>3 DEF Improve!CreateRun, Improve!CheckEvent, Improve!AppendRunEvent, Improve!Terminate,
         Improve!BeginStop, Improve!ReadRun, Improve!plan
    <3> QED
      BY <2>3, <3>1 DEF RunsMove
  <2> QED
    BY <1>1, <2>1, <2>2, <2>3 DEF Improve!Next
<1>2. Improve!Next \/ UNCHANGED Improve!vars
  BY DEF Next, vars, Improve!vars, Submission, Authoring, Importing, Adopting, Checking, Improving,
     Reporting, RootLocking, Installing
<1> QED
  BY <1>1, <1>2 DEF Improve!vars, RunsMove

\* So are those of the second.
LEMMA ReportMoves ==
  ASSUME part = "reports", [Next]_vars
  PROVE  RunsMove({Third}, Releases, AllEvents)
<1>1. CASE Report!Next
  <2>1. CASE \/ Report!PlanExpires \/ Report!StandingChanges
             \/ \E r \in DOMAIN s3 : \E n \in DOMAIN s4[r], e \in AllEvents : Report!ReplayEvent(r, n, e)
    BY <2>1 DEF Report!PlanExpires, Report!StandingChanges, Report!Standings, Improve!Standings,
       Report!ReplayEvent, Report!plan, RunsMove
  <2>2. ASSUME NEW c \in {Third}, NEW k \in Releases, Report!BeginRun(c, k)
        PROVE  RunsMove({Third}, Releases, AllEvents)
    BY <2>2 DEF Report!BeginRun, Report!plan, RunsMove
  <2>3. ASSUME NEW c \in {Third},
               \/ Report!CreateRun(c) \/ Report!CheckEvent(c) \/ Report!AppendRunEvent(c)
               \/ Report!Terminate(c)
               \/ \E r \in DOMAIN s3 :
                    Report!BeginStop(c, r) \/ \E e \in AllEvents : Report!ReadRun(c, r, e)
        PROVE  RunsMove({Third}, Releases, AllEvents)
    <3>1. s1' = s1 /\ s2' = s2
      BY <2>3 DEF Report!CreateRun, Report!CheckEvent, Report!AppendRunEvent, Report!Terminate,
         Report!BeginStop, Report!ReadRun, Report!plan
    <3> QED
      BY <2>3, <3>1, ReportActions DEF RunsMove
  <2> QED
    BY <1>1, <2>1, <2>2, <2>3 DEF Report!Next
<1>2. Report!Next \/ UNCHANGED Report!vars
  BY DEF Next, vars, Report!vars, Submission, Authoring, Importing, Adopting, Checking, Improving,
     Reporting, RootLocking, Installing
<1> QED
  BY <1>1, <1>2 DEF Report!vars, RunsMove

\* The events of both are events.
LEMMA EventsAre == AreEvents(FewEvents) /\ AreEvents(AllEvents)
<1>1. DOMAIN Improve!Rank = {"analyze", "propose", "evaluate"}
  BY DEF Improve!Rank
<1>2. AreEvents(FewEvents)
  BY <1>1 DEF AreEvents, IsEvent, FewEvents, Event
<1>3. AllEvents = FewEvents \cup
        {Event("stage.started", "propose"), Event("stage.started", "evaluate"),
         Event("stage.completed", "propose"), Event("stage.completed", "evaluate"),
         Event("evaluation.recorded", "baseline"), Event("evaluation.recorded", "candidate"),
         Event("candidate.frozen", "none"), Event("run.completed", "candidate")}
  BY DEF AllEvents
<1> QED
  BY <1>1, <1>2, <1>3 DEF AreEvents, IsEvent, Event

\* The invariants of the two, for the time each moves.
HistoryInv ==
  /\ RegistryInv
  /\ part = "improvements" => Told(Requests, Releases, FewEvents)
  /\ part = "reports" => Told({Third}, Releases, AllEvents)

\* They always hold.
LEMMA HistoryInvHolds == Spec => []HistoryInv
<1>1. Init => HistoryInv
  <2>1. ASSUME NEW C, NEW K, NEW E, s1 = FALSE, s2 = "valid", s3 = <<>>, s5 = [c \in C |-> Improve!Idle]
        PROVE  Told(C, K, E)
    <3>1. s1 \in BOOLEAN /\ s2 \in Improve!Standings
      BY <2>1 DEF Improve!Standings
    <3>2. DOMAIN s3 = {}
      BY <2>1
    <3>3. \A c \in C : CallTells(K, E, s5[c])
      BY <2>1, IdleTells
    <3> QED
      BY <3>1, <3>2, <3>3 DEF Told
  <2>2. /\ Improve!Init => Told(Requests, Releases, FewEvents)
        /\ Report!Init => Told({Third}, Releases, AllEvents)
    BY <2>1 DEF Improve!Init, Report!Init, Improve!Idle, Report!Idle
  <2>3. Init => RegistryInv
    BY SubInit, DraftInit, RunsInit, RootInit DEF Init, RegistryInv
  <2> QED
    BY <2>2, <2>3 DEF Init, HistoryInv
<1>2. HistoryInv /\ [Next]_vars => HistoryInv'
  <2> SUFFICES ASSUME HistoryInv, [Next]_vars PROVE HistoryInv'
    OBVIOUS
  <2>1. RegistryInv' /\ part' = part
    BY RegistryStep DEF HistoryInv, Next, vars, Submission, Authoring, Importing, Adopting, Checking,
       Improving, Reporting, RootLocking, Installing
  <2>2. CASE part = "improvements"
    BY <2>1, <2>2, ImproveMoves, MovesTell, EventsAre DEF HistoryInv, RegistryInv
  <2>3. CASE part = "reports"
    BY <2>1, <2>3, ReportMoves, MovesTell, EventsAre DEF HistoryInv, RegistryInv
  <2> QED
    BY <2>1, <2>2, <2>3 DEF HistoryInv
<1> QED
  BY <1>1, <1>2, PTL DEF Spec

\* The two instances apply the events alike.
LEMMA ReplaysAgree == \A j : Report!Replay(j) = Improve!Replay(j)
BY DEF Report!Replay, Improve!Replay, Report!Applied, Improve!Applied, Report!Fresh, Improve!Fresh

\* Whatever requests overlap, are repeated, come late or meet a plan that is over: what the row
\* of an improvement run says is what its events come to, one after the other, until it is
\* stopped, and then all but its state and its open stage; events that were answered for are
\* among them; and attempts follow each other under keys of their own.
THEOREM ImprovementsStayReplayable == Spec => []ImprovementsAreReplayable
<1>1. ASSUME NEW C, NEW K, NEW E, NEW most, Told(C, K, E), RunsInv(C, most)
      PROVE  Improve!ProgressIsTheJournal
  <2>1. \A r \in DOMAIN s3 : s3[r].last = Len(s4[r]) /\ RowTells(K, E, s3[r], s4[r])
    BY <1>1, HistoryFacts DEF RunsInv, Told
  <2> QED
    BY <2>1 DEF RowTells, Improve!ProgressIsTheJournal, Improve!State
<1>2. Improve!ProgressIsTheJournal => Report!ProgressIsTheJournal
  BY ReplaysAgree DEF Improve!ProgressIsTheJournal, Report!ProgressIsTheJournal, Improve!State, Report!State,
     Improve!Stopped, Report!Stopped, Improve!Ended, Report!Ended
<1>3. HistoryInv => ImprovementsAreReplayable
  BY <1>1, <1>2, RunsInvIs DEF HistoryInv, RegistryInv, Improve!IInv, Report!IInv, ImprovementsAreReplayable
<1> QED
  BY <1>3, HistoryInvHolds, PTL

\* Every protocol about skills keeps its variables in their types.
THEOREM RegistryTypes == Spec => []TypesOK
<1>1. ASSUME NEW C, NEW E, NEW most, Told(C, Releases, E), RunsInv(C, most)
      PROVE  /\ s1 \in BOOLEAN /\ s2 \in Improve!Standings
             /\ s4 \in Seq(Seq(E)) /\ Len(s4) = Len(s3)
             /\ \A r \in DOMAIN s3 : /\ s3[r].key \in Releases /\ s3[r].last \in Nat
                                     /\ s3[r].progress.state \in {"running", "completed"} \cup Improve!Stopped
                                     /\ s3[r].progress.open \in {"none"} \cup DOMAIN Improve!Rank
  <2>1. /\ IsSeq(s4) /\ Len(s4) = Len(s3) /\ DOMAIN s4 = DOMAIN s3
        /\ \A r \in DOMAIN s3 : s3[r].last \in Nat
    BY <1>1, HistoryFacts DEF RunsInv
  <2>2. \A r \in DOMAIN s3 : s4[r] \in Seq(E)
    BY <1>1 DEF Told, RowTells
  <2>3. s4 \in Seq(Seq(E))
    BY <2>1, <2>2, SeqMonotonic DEF IsSeq
  <2> QED
    BY <1>1, <2>1, <2>3 DEF Told, RowTells, IsProgress
<1>2. HistoryInv => /\ part = "improvements" => Improve!TypeOK
                    /\ part = "reports" => Report!TypeOK
  <2>1. Report!Standings = Improve!Standings /\ Report!Stopped = Improve!Stopped /\ Report!Rank = Improve!Rank
    BY DEF Report!Standings, Improve!Standings, Report!Stopped, Improve!Stopped, Report!Rank, Improve!Rank
  <2>2. ASSUME HistoryInv, part = "improvements" PROVE Improve!TypeOK
    BY <1>1, <2>2 DEF HistoryInv, RegistryInv, Improve!TypeOK, Improve!State
  <2>3. ASSUME HistoryInv, part = "reports" PROVE Report!TypeOK
    BY <1>1, <2>1, <2>3 DEF HistoryInv, RegistryInv, Report!TypeOK, Report!State
  <2> QED
    BY <2>2, <2>3
<1>3. RegistryInv => /\ part = "submissions" => Sub!TypeOK
                     /\ part = "drafts" => Draft!TypeOK
                     /\ part = "root" => Root!TypeOK
  BY DEF RegistryInv, Sub!IInv, Draft!IInv, Root!IInv
<1>4. LibraryInv => /\ part = "imports" => Imp!TypeOK
                    /\ part = "adoptions" => Adopt!TypeOK
                    /\ part = "checks" => Check!TypeOK
  <2>1. Check!IInv => Check!TypeOK
    BY DEF Check!IInv, Check!EntryFits, Check!EntryRow, Check!CallFits, Check!CallRow, Check!TypeOK
  <2> QED
    BY <2>1 DEF LibraryInv, Imp!IInv, Adopt!IInv
<1>5. InstallInv => (part = "install" => Install!TypeOK)
  BY DEF InstallInv, Install!IInv
<1>6. HistoryInv /\ LibraryInv /\ InstallInv => TypesOK
  BY <1>2, <1>3, <1>4, <1>5 DEF HistoryInv, TypesOK
<1> QED
  BY <1>6, HistoryInvHolds, LibraryInvHolds, InstallInvHolds, PTL

=============================================================================
