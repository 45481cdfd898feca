------------------------- MODULE SyncJournalProofs --------------------------
(***************************************************************************)
(* What holds of the journal of sync runs for every number of runs, calls  *)
(* and steps, every budget and every way to deny: the properties MCSync    *)
(* checks on three small instances, as theorems about SyncJournal itself.  *)
(***************************************************************************)
EXTENDS SyncJournal, TLAPS, WellFoundedInduction

---------------------------------------------------------------------------
(* Orders, sequences and the loops over steps.                             *)

\* Each move of a run, of a step, and a claim go up.
LEMMA MovesGoUp ==
  /\ \A a \in States : Rank[a] \in Nat
  /\ \A a, b \in States : Rank[a] = Rank[b] => a = b
  /\ \A a, b \in States : <<a, b>> \in RunMoves => Rank[a] < Rank[b]
  /\ \A a \in Ready : Rank[a] < Rank["revalidating"]
  /\ \A a \in StepStates : StepRank[a] \in Nat
  /\ \A a, b \in StepStates : StepRank[a] = StepRank[b] => a = b
  /\ \A a, b \in StepStates : <<a, b>> \in StepMoves => StepRank[a] < StepRank[b]
BY DEF States, Ready, Interrupted, Terminal, RunMoves, Rank, StepStates, StepMoves, StepRank

\* A run is not moved out of its end, nor out of what is undone, and into its first
\* approval only by an approval.
LEMMA MovesEnd ==
  /\ \A a \in Terminal, b \in States : <<a, b>> \notin RunMoves
  /\ \A a \in Undone, b \in States : <<a, b>> \in RunMoves => b \in Undone
  /\ \A a \in {"drafted", "awaiting_approval"}, b \in States :
       (<<a, b>> \in RunMoves /\ b \notin {"drafted", "awaiting_approval"}) => b = "approved"
  /\ \A a \in States : <<a, "succeeded">> \in RunMoves => a = "verifying"
BY DEF States, Ready, Interrupted, Terminal, RunMoves, Undone

\* Reading what was appended.
LEMMA Appending ==
  ASSUME NEW T, NEW seq \in Seq(T), NEW x \in T
  PROVE  /\ Append(seq, x) \in Seq(T)
         /\ Len(seq) \in Nat
         /\ Len(Append(seq, x)) = Len(seq) + 1
         /\ \A i \in 1 .. Len(seq) : Append(seq, x)[i] = seq[i] /\ seq[i] \in T
         /\ Append(seq, x)[Len(seq) + 1] = x
         /\ Append(seq, x) # <<>>
OBVIOUS

\* What is in a sequence is in its set.
LEMMA Reading ==
  ASSUME NEW T, NEW seq \in Seq(T), NEW i \in 1 .. Len(seq)
  PROVE  seq[i] \in T
OBVIOUS

\* What is written is one receipt or none.
LEMMA Writing ==
  ASSUME NEW T, NEW seq \in Seq(T)
  PROVE  /\ seq \o <<>> = seq
         /\ \A x \in T : seq \o <<x>> = Append(seq, x)
OBVIOUS

\* Among numbers there is a first.
LEMMA HasFirst ==
  ASSUME NEW S, S # {}, S \subseteq Nat
  PROVE  \E s \in S : \A t \in S : s <= t
<1>1. \E x \in S : \A y \in S : ~(<<y, x>> \in OpToRel(<, Nat))
  BY WFMin, NatLessThanWellFounded
<1>2. \E x \in S : \A y \in S : ~(y < x)
  BY <1>1 DEF OpToRel
<1> QED
  BY <1>2

\* The loop goes to the first step that is not done, or to its end.
LEMMA EachIsNext ==
  ASSUME NEW n \in Nat, NEW steps, NEW k \in Nat, steps \in [1 .. n -> StepStates], NEW body, NEW end,
         NEW next, next = Each(steps, k, body, end)
  PROVE  \/ /\ next.pc = end /\ next.step = 0
            /\ \A s \in k .. n : steps[s] \in Done
         \/ /\ next.pc = body /\ next.step \in k .. n
            /\ \A s \in k .. next.step - 1 : steps[s] \in Done
            /\ steps[next.step] \notin Done
<1> DEFINE todo == {s \in k .. n : steps[s] \notin Done}
<1>1. Len(steps) = n
  OBVIOUS
<1>2. CASE todo = {}
  <2>1. next = [pc |-> end, step |-> 0]
    BY <1>1, <1>2 DEF Each
  <2> QED
    BY <1>2, <2>1
<1>3. CASE todo # {}
  <2> DEFINE first == CHOOSE s \in todo : \A t \in todo : s <= t
  <2>1. next = [pc |-> body, step |-> first]
    BY <1>1, <1>3 DEF Each
  <2>2. \E s \in todo : \A t \in todo : s <= t
    <3>1. todo \subseteq Nat
      OBVIOUS
    <3> HIDE DEF todo
    <3> QED
      BY <1>3, <3>1, HasFirst
  <2>3. first \in todo /\ \A t \in todo : first <= t
    <3> HIDE DEF todo
    <3> QED
      BY <2>2
  <2> HIDE DEF first
  <2>4. \A s \in k .. first - 1 : steps[s] \in Done
    BY <2>3
  <2> QED
    BY <2>1, <2>3, <2>4
<1> QED
  BY <1>2, <1>3

---------------------------------------------------------------------------
(* The frame of every step.                                                *)

\* The constants are as assumed and the state is in the invariant.
Sound == JournalAssumption /\ IInv

\* What the invariant says of a run.
LEMMA RunFacts ==
  ASSUME Sound, NEW r \in Runs
  PROVE  /\ StepsOf[r] \in Nat /\ Runs \subseteq Nat /\ MaxFence \in Nat
         /\ RowFits(r, row[r]) /\ row[r].state \in States
         /\ row[r].steps \in [1 .. StepsOf[r] -> StepStates]
         /\ row[r].receipts \in Seq(Receipts) /\ Len(row[r].receipts) \in Nat
         /\ lease.fence \in 0 .. MaxFence /\ row[r].fence \in 0 .. MaxFence
         /\ target[r] \in [1 .. StepsOf[r] -> Seq(1 .. MaxFence)]
<1>1. StepsOf \in Seq(Nat) /\ MaxFence \in Nat /\ r \in 1 .. Len(StepsOf)
  BY DEF Sound, JournalAssumption, Runs
<1>2. StepsOf[r] \in Nat /\ 1 .. Len(StepsOf) \subseteq Nat
  BY <1>1
<1>3. RowFits(r, row[r])
  BY DEF Sound, IInv
<1>4. row[r].receipts \in Seq(Receipts) => Len(row[r].receipts) \in Nat
  OBVIOUS
<1>5. lease.fence \in 0 .. MaxFence
  BY DEF Sound, IInv, LeaseFits
<1> QED
  BY <1>1, <1>2, <1>3, <1>4, <1>5 DEF RowFits, StepMap, Runs, Sound, IInv, TargetFits

\* What the invariant says of a call.
LEMMA CallFacts ==
  ASSUME Sound, NEW c \in Calls, ~At(c, "idle")
  PROVE  /\ calls[c] # Idle /\ CallFits(calls[c]) /\ CallAgrees(calls[c])
         /\ RunOf(c) \in Runs /\ SnapFits(RunOf(c), Snap(c))
         /\ Snap(c).state \in States /\ Snap(c).seen \in Nat /\ Snap(c).fence \in 0 .. MaxFence
         /\ Snap(c).steps \in [1 .. StepsOf[RunOf(c)] -> StepStates]
         /\ calls[c].claim \in 0 .. MaxFence /\ StepOf(c) \in Nat
<1>1. calls[c] # Idle
  BY DEF At, Idle
<1> QED
  BY <1>1 DEF Sound, IInv, CallFits, SnapFits, RunOf, Snap, StepOf, StepMap

\* What steps do to a run: its journal grows, it goes on or leaves a receipt, what it
\* takes for done stays on the target while it is open, and new fences there are of X.
OnwardOf(q, X) ==
  /\ Len(row[q].receipts) <= Len(row[q].receipts)'
  /\ \A i \in 1 .. Len(row[q].receipts) : row[q].receipts[i]' = row[q].receipts[i]
  /\ Len(row[q].receipts)' = Len(row[q].receipts) =>
       /\ Rank[row[q].state] <= Rank[row[q].state]'
       /\ \A s \in 1 .. StepsOf[q] : StepRank[row[q].steps[s]] <= StepRank[row[q].steps[s]]'
  /\ Open(q)' => /\ Open(q)
                 /\ \A s \in 1 .. StepsOf[q] : target[q][s] # <<>> => target[q][s]' # <<>>
  /\ \A s \in 1 .. StepsOf[q] : Under(q, s)' \subseteq Under(q, s) \cup X
\* A step goes onward: the counter of fences and every run do, and X is at most what it adds.
Onward(X) == lease.fence <= lease.fence' /\ \A q \in Runs : OnwardOf(q, X)

\* What a call relies on stays, whatever other calls do.
LEMMA AgreesOnward ==
  ASSUME Sound, NEW m, CallFits(m), CallAgrees(m), NEW X, Onward(X), m.pc \in Applying => m.claim \notin X,
         \A q \in Runs : RowFits(q, row[q])', lease.fence' \in Nat
  PROVE  CallAgrees(m)'
<1> PICK r : r = m.run
  OBVIOUS
<1>1. r \in Runs /\ OnwardOf(r, X) /\ lease.fence <= lease.fence'
  BY DEF CallFits, Onward
<1>2. /\ StepsOf[r] \in Nat /\ lease.fence \in Nat /\ MaxFence \in Nat
      /\ row[r].receipts \in Seq(Receipts) /\ Len(row[r].receipts) \in Nat
      /\ row[r].state \in States /\ row[r].steps \in [1 .. StepsOf[r] -> StepStates]
  <2>1. lease.fence \in 0 .. MaxFence /\ MaxFence \in Nat
    BY <1>1, RunFacts
  <2> QED
    BY <1>1, <2>1, RunFacts
<1>3. /\ row'[r].receipts \in Seq(Receipts) /\ Len(row'[r].receipts) \in Nat
      /\ row'[r].state \in States /\ row'[r].steps \in [1 .. StepsOf[r] -> StepStates]
  <2>1. row'[r].receipts \in Seq(Receipts) => Len(row'[r].receipts) \in Nat
    OBVIOUS
  <2> QED
    BY <1>1, <2>1 DEF RowFits, StepMap
<1>4. /\ m.snap.state \in States /\ m.snap.steps \in [1 .. StepsOf[r] -> StepStates]
      /\ m.snap.seen \in Nat /\ m.snap.fence \in Nat /\ m.claim \in Nat
  <2>1. m.snap.fence \in 0 .. MaxFence /\ m.claim \in 0 .. MaxFence
    BY DEF CallFits, SnapFits
  <2> QED
    BY <1>2, <2>1 DEF CallFits, SnapFits, StepMap
<1> DEFINE steps == 1 .. StepsOf[r]
<1>5. /\ m.snap.seen <= Len(row'[r].receipts)
      /\ m.claim <= lease.fence' /\ m.snap.fence <= lease.fence'
  <2>1. /\ m.snap.seen <= Len(row[r].receipts)
        /\ m.claim <= lease.fence /\ m.snap.fence <= lease.fence
    BY DEF CallAgrees
  <2>2. Len(row[r].receipts) <= Len(row'[r].receipts)
    BY <1>1 DEF OnwardOf
  <2>3. lease.fence \in Nat /\ lease.fence' \in Nat /\ lease.fence <= lease.fence'
    BY <1>1, <1>2
  <2>4. Len(row[r].receipts) \in Nat /\ Len(row'[r].receipts) \in Nat
    BY <1>2, <1>3
  <2>5. m.snap.seen \in Nat /\ m.snap.fence \in Nat /\ m.claim \in Nat
    BY <1>4
  <2>6. m.snap.seen <= Len(row'[r].receipts)
    BY <2>1, <2>2, <2>4, <2>5
  <2>7. m.claim <= lease'.fence /\ m.snap.fence <= lease'.fence
    BY <2>1, <2>3, <2>5
  <2> QED
    BY <2>6, <2>7
<1>6. m.snap.seen = Len(row'[r].receipts) =>
        m.snap.seen = Len(row[r].receipts) /\ Len(row'[r].receipts) = Len(row[r].receipts)
  BY <1>1, <1>2, <1>3, <1>4 DEF OnwardOf, CallAgrees
<1>7. ASSUME m.snap.seen = Len(row'[r].receipts)
      PROVE  /\ Rank[m.snap.state] <= Rank[row'[r].state]
             /\ \A s \in steps : StepRank[m.snap.steps[s]] <= StepRank[row'[r].steps[s]]
  <2>1. Rank[m.snap.state] <= Rank[row[r].state] /\ Rank[row[r].state] <= Rank[row'[r].state]
    BY <1>1, <1>6, <1>7 DEF OnwardOf, CallAgrees
  <2>2. ASSUME NEW s \in steps
        PROVE  StepRank[m.snap.steps[s]] <= StepRank[row[r].steps[s]] /\ StepRank[row[r].steps[s]] <= StepRank[row'[r].steps[s]]
    BY <1>1, <1>6, <1>7 DEF OnwardOf, CallAgrees
  <2>3. Rank[m.snap.state] \in Nat /\ Rank[row[r].state] \in Nat /\ Rank[row'[r].state] \in Nat
    BY <1>2, <1>3, <1>4, MovesGoUp
  <2>4. ASSUME NEW s \in steps
        PROVE  /\ StepRank[m.snap.steps[s]] \in Nat /\ StepRank[row[r].steps[s]] \in Nat
               /\ StepRank[row'[r].steps[s]] \in Nat
    <3>1. m.snap.steps[s] \in StepStates /\ row[r].steps[s] \in StepStates /\ row'[r].steps[s] \in StepStates
      BY <1>2, <1>3, <1>4
    <3> QED
      BY <3>1, MovesGoUp
  <2> QED
    BY <2>1, <2>2, <2>3, <2>4
<1>8. m.snap.seen = Len(row'[r].receipts) =>
        \A f \in {row'[r].receipts[i].fence : i \in 1 .. Len(row'[r].receipts)} : f \in Written(r)
  BY <1>1, <1>6 DEF OnwardOf, Written
<1>9. (m.snap.seen = Len(row'[r].receipts) /\ m.claim # 0 /\ m.pc # "release") =>
        \A f \in {row'[r].receipts[i].fence : i \in 1 .. Len(row'[r].receipts)} : f <= m.claim
  BY <1>6, <1>8 DEF CallAgrees
<1>10. ASSUME m.pc \in Verifying \cup {"succeed"}, NEW s \in steps, m.snap.steps[s] = "succeeded",
              ~(m.pc = "verified" /\ s = m.step)
       PROVE  Seen(row'[r].receipts, s)
  <2>1. Seen(row[r].receipts, s)
    BY <1>10 DEF CallAgrees
  <2>2. PICK i \in 1 .. Len(row[r].receipts) :
          \/ row[r].receipts[i].kind = "verify" /\ row[r].receipts[i].ok /\ row[r].receipts[i].step = s
          \/ row[r].receipts[i].condition = "desiredReadback"
    BY <2>1 DEF Seen
  <2>3. i \in 1 .. Len(row'[r].receipts) /\ row'[r].receipts[i] = row[r].receipts[i]
    BY <1>1, <1>2, <1>3 DEF OnwardOf
  <2> QED
    BY <2>2, <2>3, Zenon DEF Seen
<1>11. ASSUME NEW s \in Unexecuted(m)
       PROVE  m.claim \notin Under(r, s)'
  <2>1. m.pc \in Applying
    BY DEF Unexecuted, Applying, Zenon
  <2>2. s \in 1 .. StepsOf[r]
    BY <1>2 DEF Unexecuted, CallFits
  <2> QED
    BY <1>1, <2>1, <2>2 DEF OnwardOf, CallAgrees
<1>12. m.pc \in Restoring => ~Open(r)'
  BY <1>1 DEF OnwardOf, CallAgrees
<1>13. Open(r)' => \A s \in steps : m.snap.steps[s] = "succeeded" => target'[r][s] # <<>>
  BY <1>1 DEF OnwardOf, CallAgrees
<1>14. (Open(r)' /\ m.pc = "verify2") => target'[r][m.step] # <<>>
  <2>1. m.pc = "verify2" => m.step \in steps
    BY DEF CallFits, Verifying
  <2> QED
    BY <1>1, <2>1 DEF OnwardOf, CallAgrees
<1>15. (Open(r)' /\ m.pc = "recover") =>
         /\ m.evidence = "noMutation" => \A s \in steps : m.snap.steps[s] # "succeeded"
         /\ m.evidence = "desiredReadback" => \A s \in steps : target'[r][s] # <<>>
  BY <1>1 DEF OnwardOf, CallAgrees
<1>16. (m.snap.seen = Len(row'[r].receipts) /\ m.claim # 0 /\ m.pc # "release") => \A f \in Written(r)' : f <= m.claim
  BY <1>9 DEF Written
<1> QED
  BY <1>5, <1>7, <1>10, <1>11, <1>12, <1>13, <1>14, <1>15, <1>16 DEF CallAgrees

\* A step of one call keeps the invariant, when the rows it leaves fit, the step leads
\* onward, and the call itself goes on as one that fits.
LEMMA StepKeeps ==
  ASSUME Sound, NEW c \in Calls, NEW m, calls' = [calls EXCEPT ![c] = m],
         m = Idle \/ (CallFits(m) /\ CallAgrees(m)'),
         NEW X, Onward(X),
         \A d \in Calls \ {c} : calls[d].pc \in Applying => calls[d].claim \notin X,
         m.pc \in Applying =>
           \A d \in Calls \ {c} : calls[d].pc \in Applying => calls[d].claim # m.claim,
         row' = [q \in Runs |-> row'[q]], \A q \in Runs : RowFits(q, row[q])',
         target' = [q \in Runs |-> target'[q]], LeaseFits', TargetFits',
         lapsed' \subseteq Lapsing, left' \in [Runs -> [Operations -> Nat]]
  PROVE  IInv'
<1>1. calls' = [d \in Calls |-> calls'[d]] /\ calls'[c] = m /\ \A d \in Calls \ {c} : calls'[d] = calls[d]
  BY DEF Sound, IInv
<1>2. lease.fence' \in Nat
  <2>1. lease'.fence \in 0 .. MaxFence
    BY DEF LeaseFits
  <2> QED
    BY <2>1 DEF Sound, JournalAssumption
<1>3. ASSUME NEW d \in Calls, calls'[d] # Idle
      PROVE  CallFits(calls'[d]) /\ CallAgrees(calls[d])'
  <2>1. CASE d = c
    BY <1>1, <1>3, <2>1
  <2>2. CASE d # c
    <3>1. PICK old : old = calls[d]
      OBVIOUS
    <3>2. old = calls'[d] /\ CallFits(old) /\ CallAgrees(old)
      BY <1>1, <1>3, <2>2, <3>1 DEF Sound, IInv
    <3>3. old.pc \in Applying => old.claim \notin X
      BY <2>2, <3>1
    <3>4. CallAgrees(old)'
      BY <1>2, <3>2, <3>3, AgreesOnward
    <3>5. CallAgrees(calls[d])'
      BY <3>2, <3>4 DEF CallAgrees, Unexecuted
    <3> QED
      BY <3>2, <3>5
  <2> QED
    BY <2>1, <2>2
<1>4. ClaimsDiffer'
  BY <1>1 DEF ClaimsDiffer, Sound, IInv
<1>5. \A d \in Calls : calls'[d] # Idle => CallFits(calls[d])' /\ CallAgrees(calls[d])'
  BY <1>3 DEF CallFits, SnapFits
<1> QED
  BY <1>1, <1>4, <1>5 DEF IInv

\* The three properties of steps.
Orderly == SettledRunsStaySettledStep /\ WritesFollowTheFenceStep /\ OvertakenCallsAreFencedStep

\* A step that leaves the rows alone is orderly.
LEMMA StillIsOrderly ==
  ASSUME Sound, UNCHANGED row
  PROVE  Orderly
<1>1. SettledRunsStaySettledStep
  BY DEF SettledRunsStaySettledStep, Written
<1>2. WritesFollowTheFenceStep
  <2>1. \A r \in Runs : ~(Len(row[r].receipts) > Len(row[r].receipts))
    BY RunFacts
  <2> QED
    BY <2>1 DEF WritesFollowTheFenceStep
<1>3. OvertakenCallsAreFencedStep
  BY DEF OvertakenCallsAreFencedStep
<1> QED
  BY <1>1, <1>2, <1>3 DEF Orderly

\* And so it leads onward, with the target and the fences unchanged.
LEMMA StillIsOnward ==
  ASSUME Sound, UNCHANGED <<row, target>>, lease'.fence = lease.fence
  PROVE  Onward({})
<1>1. ASSUME NEW q \in Runs PROVE OnwardOf(q, {})
  <2>1. Rank[row[q].state] \in Nat /\ Len(row[q].receipts) \in Nat
    BY RunFacts, MovesGoUp
  <2>2. ASSUME NEW s \in 1 .. StepsOf[q] PROVE StepRank[row[q].steps[s]] \in Nat
    <3>1. row[q].steps[s] \in StepStates
      BY RunFacts
    <3> QED
      BY <3>1, MovesGoUp
  <2> QED
    BY <2>1, <2>2 DEF OnwardOf, Open, Under
<1>2. lease.fence \in Nat
  BY DEF Sound, JournalAssumption, IInv, LeaseFits
<1> QED
  BY <1>1, <1>2 DEF Onward

\* The journal and the target of such a step are as they were.
LEMMA StillFits ==
  ASSUME Sound, UNCHANGED <<row, target>>, lease' = [lease EXCEPT !.live = lease'.live], lease'.live \in BOOLEAN
  PROVE  /\ row' = [q \in Runs |-> row'[q]] /\ (\A q \in Runs : RowFits(q, row[q])')
         /\ target' = [q \in Runs |-> target'[q]] /\ LeaseFits' /\ TargetFits'
         /\ lease'.fence = lease.fence /\ lease'.run = lease.run
<1>1. lease' \in [run : Runs \cup {NoRun}, fence : 0 .. MaxFence, live : BOOLEAN]
      /\ lease'.fence = lease.fence /\ lease'.run = lease.run
  BY DEF Sound, IInv, LeaseFits
<1>2. LeaseFits'
  BY <1>1 DEF Sound, IInv, LeaseFits, Written
<1>3. TargetFits'
  BY <1>1 DEF Sound, IInv, TargetFits, Under, Open
<1> QED
  BY <1>1, <1>2, <1>3 DEF Sound, IInv, RowFits

\* A call that changes itself only.
LEMMA TurnKeeps ==
  ASSUME Sound, NEW c \in Calls, NEW m, calls' = [calls EXCEPT ![c] = m],
         m = Idle \/ (CallFits(m) /\ CallAgrees(m)),
         m.pc \in Applying => calls[c].pc \in Applying /\ calls[c].claim = m.claim,
         UNCHANGED <<row, target>>, lease' = [lease EXCEPT !.live = lease'.live], lease'.live \in BOOLEAN,
         lapsed' \subseteq Lapsing, left' \in [Runs -> [Operations -> Nat]]
  PROVE  IInv' /\ Orderly
<1>1. m = Idle \/ (CallFits(m) /\ CallAgrees(m)')
  <2>1. lease'.fence = lease.fence
    BY StillFits
  <2> QED
    BY <2>1 DEF CallAgrees, Written, Open, Under
<1>2. Onward({})
  BY StillIsOnward, StillFits
<1>3. m.pc \in Applying => \A d \in Calls \ {c} : calls[d].pc \in Applying => calls[d].claim # m.claim
  BY DEF Sound, IInv, ClaimsDiffer
<1>4. IInv'
  BY <1>1, <1>2, <1>3, StillFits, StepKeeps
<1> QED
  BY <1>4, StillIsOrderly

\* Time changes no call.
LEMMA TimeKeeps ==
  ASSUME Sound, UNCHANGED <<calls, row, target, left>>, lapsed' \subseteq Lapsing,
         lease' = [lease EXCEPT !.live = lease'.live], lease'.live \in BOOLEAN
  PROVE  IInv' /\ Orderly
<1>1. ASSUME NEW d \in Calls, calls'[d] # Idle
      PROVE  CallFits(calls[d])' /\ CallAgrees(calls[d])'
  <2>1. PICK old : old = calls[d] /\ old = calls'[d]
    OBVIOUS
  <2>2. CallFits(old) /\ CallAgrees(old)
    BY <1>1, <2>1 DEF Sound, IInv
  <2>3. lease'.fence = lease.fence
    BY StillFits
  <2>4. CallAgrees(old)'
    BY <2>2, <2>3 DEF CallAgrees, Written, Open, Under
  <2>5. CallAgrees(calls[d])'
    BY <2>1, <2>4 DEF CallAgrees, Unexecuted
  <2>6. CallFits(calls[d])'
    BY <2>1, <2>2 DEF CallFits, SnapFits
  <2> QED
    BY <2>5, <2>6
<1>2. IInv'
  BY <1>1, StillFits DEF Sound, IInv, ClaimsDiffer
<1> QED
  BY <1>2, StillIsOrderly

---------------------------------------------------------------------------
(* Calls that go on without writing.                                       *)

\* Where a call goes on its way, and where it may give up.
Ways == {<<"fence", "execute">>, <<"rolling", "restore">>, <<"restored", "compensate">>, <<"enter", "prepare">>,
         <<"beforeStep", "prepareStep">>, <<"beforeStep", "fence">>, <<"beforeVerify", "verify">>,
         <<"beforeRollback", "rolling">>, <<"beforeRollback", "roll">>, <<"verify", "unverify">>,
         <<"restore", "restored">>, <<"restore", "unrestored">>}

\* A call that turns to a next point of its way still fits.
LEMMA WaysFit ==
  ASSUME Sound, NEW m, CallFits(m), CallAgrees(m), NEW n, n = [m EXCEPT !.pc = n.pc],
         \/ <<m.pc, n.pc>> \in Ways
         \/ n.pc \in {"block", "thrown"} /\ m.pc # "release"
         \/ m.pc = "verify" /\ n.pc = "verify2" /\ target[m.run][m.step] # <<>>
  PROVE  CallFits(n) /\ CallAgrees(n) /\ (n.pc \in Applying => m.pc \in Applying /\ m.claim = n.claim)
<1>1. /\ n = [pc |-> n.pc, run |-> n.run, step |-> n.step, claim |-> n.claim,
              evidence |-> n.evidence, snap |-> n.snap]
      /\ n.run = m.run /\ n.step = m.step /\ n.claim = m.claim /\ n.snap = m.snap
  BY DEF CallFits
<1>2. CASE <<m.pc, n.pc>> \in Ways
  <2>1. CallFits(n)
    BY <1>1, <1>2 DEF CallFits, Ways, Points, Applying, Executing, Executed, Verifying, Mismatching, Restoring
  <2>2. n.pc \in Applying => m.pc \in Applying
    BY <1>2 DEF Ways, Applying, Executing, Executed
  <2>3. Unexecuted(n) \subseteq Unexecuted(m)
    BY <1>1, <1>2, Zenon DEF Ways, Unexecuted, Executing, Executed
  <2>4. CallAgrees(n)
    BY <1>1, <1>2, <2>3 DEF CallAgrees, Ways, Verifying, Restoring
  <2> QED
    BY <1>1, <2>1, <2>2, <2>4
<1>3. CASE n.pc \in {"block", "thrown"} /\ m.pc # "release"
  <2>1. CallFits(n)
    BY <1>1, <1>3 DEF CallFits, Points, Applying, Executing, Executed, Verifying, Mismatching, Restoring
  <2>2. Unexecuted(n) = {}
    BY <1>3 DEF Unexecuted, Executing, Executed
  <2>3. CallAgrees(n)
    BY <1>1, <1>3, <2>2 DEF CallAgrees, Verifying, Restoring
  <2> QED
    BY <1>1, <1>3, <2>1, <2>3 DEF Applying, Executing, Executed
<1>4. CASE m.pc = "verify" /\ n.pc = "verify2" /\ target[m.run][m.step] # <<>>
  <2>1. CallFits(n)
    BY <1>1, <1>4 DEF CallFits, Points, Applying, Executing, Executed, Verifying, Mismatching, Restoring
  <2>2. Unexecuted(n) = {}
    BY <1>4 DEF Unexecuted, Executing, Executed
  <2>3. CallAgrees(n)
    BY <1>1, <1>4, <2>2 DEF CallAgrees, Verifying, Restoring
  <2> QED
    BY <1>1, <1>4, <2>1, <2>3 DEF Applying, Executing, Executed
<1> QED
  BY <1>2, <1>3, <1>4

\* Nothing but the calls changes.
LEMMA OnlyCalls ==
  ASSUME Sound, UNCHANGED <<row, lapsed, lease, target>>
  PROVE  /\ UNCHANGED <<row, target>> /\ lease' = [lease EXCEPT !.live = lease'.live]
         /\ lease'.live \in BOOLEAN /\ lapsed' \subseteq Lapsing
BY DEF Sound, IInv, LeaseFits

\* A call that only goes on to another point, along one of the ways there are.
LEMMA GoKeeps ==
  ASSUME Sound, NEW c \in Calls, NEW p, Go(c, p), ~At(c, "idle"),
         \/ <<calls[c].pc, p>> \in Ways
         \/ p \in {"block", "thrown"} /\ ~At(c, "release")
         \/ At(c, "verify") /\ p = "verify2" /\ target[RunOf(c)][StepOf(c)] # <<>>
  PROVE  IInv' /\ Orderly
<1>1. PICK m, n : m = calls[c] /\ n = [m EXCEPT !.pc = p]
  OBVIOUS
<1>2. CallFits(m) /\ CallAgrees(m)
  BY <1>1, CallFacts
<1>3. n.pc = p
  BY <1>1, <1>2 DEF CallFits
<1>4. CallFits(n) /\ CallAgrees(n) /\ (n.pc \in Applying => m.pc \in Applying /\ m.claim = n.claim)
  BY <1>1, <1>2, <1>3, WaysFit DEF At, RunOf, StepOf
<1>5. calls' = [calls EXCEPT ![c] = n]
  BY <1>1 DEF Go
<1>6. left' \in [Runs -> [Operations -> Nat]]
  BY DEF Go, Sound, IInv
<1>7. UNCHANGED <<row, lapsed, lease, target>>
  BY DEF Go
<1> QED
  BY <1>1, <1>4, <1>5, <1>6, <1>7, OnlyCalls, TurnKeeps

\* A call that is over frees its slot.
LEMMA EndKeeps ==
  ASSUME Sound, NEW c \in Calls, End(c)
  PROVE  IInv' /\ Orderly
<1>1. Idle.pc \notin Applying
  BY DEF Idle, Applying, Executing, Executed
<1>2. calls' = [calls EXCEPT ![c] = Idle] /\ left' \in [Runs -> [Operations -> Nat]]
  BY DEF End, Sound, IInv
<1>3. UNCHANGED <<row, lapsed, lease, target>>
  BY DEF End
<1> QED
  BY <1>1, <1>2, <1>3, OnlyCalls, TurnKeeps

\* A call begins with the row as it is.
LEMMA HydratedFits ==
  ASSUME Sound, NEW r \in Runs, NEW h, h = Hydrated(r)
  PROVE  /\ SnapFits(r, h) /\ h.state = row[r].state /\ h.steps = row[r].steps
         /\ h.seen = Len(row[r].receipts) /\ h.fence <= lease.fence
         /\ Rank[h.state] <= Rank[row[r].state]
         /\ \A s \in 1 .. StepsOf[r] : StepRank[h.steps[s]] <= StepRank[row[r].steps[s]]
         /\ Open(r) => \A s \in 1 .. StepsOf[r] : h.steps[s] = "succeeded" => target[r][s] # <<>>
<1>1. /\ h.state = row[r].state /\ h.steps = row[r].steps
      /\ h.seen = Len(row[r].receipts) /\ h.fence = HydratedFence(r)
      /\ h = [state |-> h.state, steps |-> h.steps, seen |-> h.seen, fence |-> h.fence]
  BY DEF Hydrated
<1>2. HydratedFence(r) \in 0 .. MaxFence /\ HydratedFence(r) <= lease.fence
  <2>1. lease.fence \in 0 .. MaxFence /\ row[r].fence \in 0 .. MaxFence /\ MaxFence \in Nat
    BY RunFacts
  <2>2. row[r].fence <= lease.fence
    BY DEF Sound, IInv, TargetFits
  <2>3. HydratedFence(r) = lease.fence \/ HydratedFence(r) = row[r].fence
    BY DEF HydratedFence
  <2> QED
    BY <2>1, <2>2, <2>3
<1>3. SnapFits(r, h)
  BY <1>1, <1>2, RunFacts DEF SnapFits, RowFits, StepMap
<1>4. Rank[row[r].state] \in Nat
  BY RunFacts, MovesGoUp
<1>5. ASSUME NEW s \in 1 .. StepsOf[r] PROVE StepRank[row[r].steps[s]] \in Nat
  <2>1. row[r].steps[s] \in StepStates
    BY RunFacts
  <2> QED
    BY <2>1, MovesGoUp
<1>6. Open(r) => \A s \in 1 .. StepsOf[r] : row[r].steps[s] = "succeeded" => target[r][s] # <<>>
  BY DEF Sound, IInv, TargetFits
<1> QED
  BY <1>1, <1>2, <1>3, <1>4, <1>5, <1>6

\* A call that starts has the row as it is, and goes where the state of the row sends it.
LEMMA StartKeeps ==
  ASSUME Sound, NEW c \in Calls, NEW r \in Runs, NEW op \in Operations, NEW p, Start(c, op, r, p),
         \/ p \in {"claim", "block", "finalize"}
         \/ p = "await" /\ row[r].state = "drafted"
         \/ p = "accept" /\ row[r].state = "awaiting_approval"
         \/ p = "evidence" /\ row[r].state \in Interrupted
         \/ p = "ensure" /\ row[r].state \in Undone
  PROVE  IInv' /\ Orderly
<1>1. PICK m : m = [Idle EXCEPT !.pc = p, !.run = r, !.snap = Hydrated(r)]
  OBVIOUS
<1>2. m = [pc |-> p, run |-> r, step |-> 0, claim |-> 0, evidence |-> "none", snap |-> Hydrated(r)]
  BY <1>1 DEF Idle
<1>3. /\ m.pc = p /\ m.run = r /\ m.step = 0 /\ m.claim = 0 /\ m.snap = Hydrated(r)
      /\ m = [pc |-> m.pc, run |-> m.run, step |-> m.step, claim |-> m.claim,
              evidence |-> m.evidence, snap |-> m.snap]
  BY <1>2
<1>4. PICK h : h = Hydrated(r)
  OBVIOUS
<1>5. CallFits(m)
  <2>1. SnapFits(r, h) /\ h.state = row[r].state
    BY <1>4, HydratedFits
  <2>2. MaxFence \in Nat
    BY RunFacts
  <2> QED
    BY <1>3, <1>4, <2>1, <2>2
    DEF CallFits, Points, Applying, Executing, Executed, Verifying, Mismatching, Restoring
<1>6. p \notin Applying
  BY DEF Applying, Executing, Executed
<1>7. CallAgrees(m)
  <2>1. Unexecuted(m) = {}
    BY <1>3 DEF Unexecuted, Executing, Executed
  <2>2. Len(row[r].receipts) \in Nat /\ lease.fence \in Nat
    <3>1. lease.fence \in 0 .. MaxFence /\ MaxFence \in Nat
      BY RunFacts
    <3> QED
      BY <3>1, RunFacts
  <2>3. p \notin Verifying \cup {"succeed", "recover", "verify2"}
    BY DEF Verifying
  <2>4. p \in Restoring => ~Open(r)
    BY DEF Restoring, Open
  <2> QED
    BY <1>3, <1>4, <2>1, <2>2, <2>3, <2>4, HydratedFits DEF CallAgrees
<1>8. calls' = [calls EXCEPT ![c] = m]
  BY <1>1 DEF Start
<1>9. left' \in [Runs -> [Operations -> Nat]]
  <2>1. left \in [Runs -> [Operations -> Nat]] /\ left[r][op] \in Nat /\ left[r][op] > 0
    BY DEF Start, Sound, IInv
  <2>2. left' = [left EXCEPT ![r][op] = @ - 1]
    BY DEF Start
  <2> QED
    BY <2>1, <2>2
<1>10. UNCHANGED <<row, lapsed, lease, target>>
  BY DEF Start
<1> QED
  BY <1>3, <1>5, <1>6, <1>7, <1>8, <1>9, <1>10, OnlyCalls, TurnKeeps

\* Each of the four operations starts like that.
LEMMA StartsKeep ==
  ASSUME Sound, NEW c \in Calls, Starts(c)
  PROVE  IInv' /\ Orderly
<1>1. PICK r \in Runs : StartApprove(c, r) \/ StartApply(c, r) \/ StartRecover(c, r) \/ StartRollback(c, r)
  BY DEF Starts
<1>2. CASE StartApprove(c, r)
  BY <1>2, StartKeeps DEF StartApprove, Operations
<1>3. CASE StartApply(c, r)
  BY <1>3, StartKeeps DEF StartApply, Operations
<1>4. CASE StartRecover(c, r)
  BY <1>4, StartKeeps DEF StartRecover, Operations
<1>5. CASE StartRollback(c, r)
  BY <1>5, StartKeeps DEF StartRollback, Operations, Undone
<1> QED
  BY <1>1, <1>2, <1>3, <1>4, <1>5

\* The checks of the lease and of the boundary store nothing.
LEMMA ChecksKeep ==
  ASSUME Sound, NEW c \in Calls, Checks(c)
  PROVE  IInv' /\ Orderly
<1>1. CASE AssertLease(c)
  <2>1. calls[c].pc \in {"fence", "rolling", "restored"}
    BY <1>1 DEF AssertLease, AfterAssert
  <2>2. ~At(c, "idle") /\ ~At(c, "release")
    BY <2>1 DEF At
  <2>3. Go(c, "block") \/ (Leased(c) /\ Go(c, AfterAssert[calls[c].pc]))
    BY <1>1 DEF AssertLease
  <2>4. <<calls[c].pc, AfterAssert[calls[c].pc]>> \in Ways
    BY <2>1 DEF AfterAssert, Ways
  <2> QED
    BY <2>2, <2>3, <2>4, GoKeeps
<1>2. CASE EnforceBoundary(c)
  <2>1. calls[c].pc \in {"enter", "beforeStep", "beforeVerify", "beforeRollback"}
    BY <1>2 DEF EnforceBoundary, AfterBoundary
  <2>2. ~At(c, "idle") /\ ~At(c, "release")
    BY <2>1 DEF At
  <2>3. Go(c, "block") \/ (Leased(c) /\ Go(c, AfterBoundary(c)[calls[c].pc]))
    BY <1>2 DEF EnforceBoundary
  <2>4. <<calls[c].pc, AfterBoundary(c)[calls[c].pc]>> \in Ways
    BY <2>1 DEF AfterBoundary, Ways
  <2> QED
    BY <2>2, <2>3, <2>4, GoKeeps
<1> QED
  BY <1>1, <1>2 DEF Checks

\* A claim that finds the run over goes on with the row as it is.
LEMMA ClaimCompletedKeeps ==
  ASSUME Sound, NEW c \in Calls, ClaimCompleted(c)
  PROVE  IInv' /\ Orderly
<1>1. PICK m, r, h, n : m = calls[c] /\ r = m.run /\ h = Hydrated(r) /\ n = [m EXCEPT !.pc = "finalize", !.snap = h]
  OBVIOUS
<1>2. m.pc = "claim" /\ ~At(c, "idle")
  BY <1>1 DEF ClaimCompleted, At
<1>3. CallFits(m) /\ CallAgrees(m) /\ r \in Runs
  BY <1>1, <1>2, CallFacts DEF RunOf
<1>4. /\ n.pc = "finalize" /\ n.run = r /\ n.step = m.step /\ n.claim = 0 /\ n.snap = h
      /\ n = [pc |-> n.pc, run |-> n.run, step |-> n.step, claim |-> n.claim,
              evidence |-> n.evidence, snap |-> n.snap]
  BY <1>1, <1>2, <1>3 DEF CallFits
<1>5. CallFits(n)
  <2>1. SnapFits(r, h)
    BY <1>1, <1>3, HydratedFits
  <2> QED
    BY <1>1, <1>3, <1>4, <2>1 DEF CallFits, Points, Applying, Executing, Executed, Verifying, Mismatching, Restoring
<1>6. CallAgrees(n)
  <2>1. Unexecuted(n) = {}
    BY <1>4 DEF Unexecuted, Executing, Executed
  <2>2. Len(row[r].receipts) \in Nat /\ lease.fence \in Nat
    <3>1. lease.fence \in 0 .. MaxFence /\ MaxFence \in Nat
      BY <1>3, RunFacts
    <3> QED
      BY <1>3, <3>1, RunFacts
  <2>3. /\ h.seen = Len(row[r].receipts) /\ h.fence <= lease.fence
        /\ Rank[h.state] <= Rank[row[r].state]
        /\ \A s \in 1 .. StepsOf[r] : StepRank[h.steps[s]] <= StepRank[row[r].steps[s]]
        /\ Open(r) => \A s \in 1 .. StepsOf[r] : h.steps[s] = "succeeded" => target[r][s] # <<>>
    BY <1>1, <1>3, HydratedFits
  <2> QED
    BY <1>4, <2>1, <2>2, <2>3 DEF CallAgrees, Verifying, Restoring
<1>7. calls' = [calls EXCEPT ![c] = n] /\ left' = left /\ UNCHANGED <<row, lapsed, lease, target>>
  BY <1>1 DEF ClaimCompleted, RunOf
<1>8. n.pc \notin Applying
  BY <1>4 DEF Applying, Executing, Executed
<1>9. left' \in [Runs -> [Operations -> Nat]]
  BY <1>7 DEF Sound, IInv
<1> QED
  BY <1>5, <1>6, <1>7, <1>8, <1>9, OnlyCalls, TurnKeeps

\* A step that is read back changes nothing but the point of the call.
LEMMA VerifyKeeps ==
  ASSUME Sound, NEW c \in Calls, Verify(c)
  PROVE  IInv' /\ Orderly
<1>1. ~At(c, "idle") /\ ~At(c, "release") /\ At(c, "verify")
  BY DEF Verify, At
<1>2. <<calls[c].pc, "unverify">> \in Ways
  BY <1>1 DEF At, Ways
<1> QED
  BY <1>1, <1>2, GoKeeps DEF Verify

\* Evidence that is read is what the target had at that moment.
LEMMA ReadEvidenceKeeps ==
  ASSUME Sound, NEW c \in Calls, ReadEvidence(c)
  PROVE  IInv' /\ Orderly
<1>1. PICK e \in Evidence(RunOf(c)) : calls' = [calls EXCEPT ![c].pc = "recover", ![c].evidence = e]
  BY DEF ReadEvidence
<1>2. PICK m, r, n : m = calls[c] /\ r = m.run /\ n = [m EXCEPT !.pc = "recover", !.evidence = e]
  OBVIOUS
<1>3. m.pc = "evidence" /\ ~At(c, "idle")
  BY <1>2 DEF ReadEvidence, At
<1>4. CallFits(m) /\ CallAgrees(m) /\ r \in Runs
  BY <1>2, <1>3, CallFacts DEF RunOf
<1>5. /\ n.pc = "recover" /\ n.run = r /\ n.step = m.step /\ n.claim = m.claim /\ n.snap = m.snap
      /\ n.evidence = e
      /\ n = [pc |-> n.pc, run |-> n.run, step |-> n.step, claim |-> n.claim,
              evidence |-> n.evidence, snap |-> n.snap]
  BY <1>2, <1>4 DEF CallFits
<1>6. target[r] \in [1 .. StepsOf[r] -> Seq(1 .. MaxFence)]
  BY <1>4, RunFacts
<1>7. /\ e \in Conditions
      /\ e = "noMutation" => \A s \in 1 .. StepsOf[r] : target[r][s] = <<>>
      /\ e = "desiredReadback" => \A s \in 1 .. StepsOf[r] : target[r][s] # <<>>
  <2>1. e \in Evidence(r)
    BY <1>2 DEF RunOf
  <2>2. DOMAIN target[r] = 1 .. StepsOf[r]
    BY <1>6
  <2>3. PICK applied : applied = {s \in DOMAIN target[r] : target[r][s] # <<>>}
    OBVIOUS
  <2>4. e \in {"ambiguousReadback"}
               \cup (IF applied = {} THEN {"noMutation"} ELSE {"restorablePartialState", "irreversibleUnrecoverable"})
               \cup (IF applied = DOMAIN target[r] THEN {"desiredReadback"} ELSE {})
    BY <2>1, <2>3 DEF Evidence
  <2>5. e = "noMutation" => applied = {}
    BY <2>4
  <2>6. e = "desiredReadback" => applied = DOMAIN target[r]
    BY <2>4
  <2>7. e \in Conditions
    BY <2>4 DEF Conditions, NextRunState
  <2> QED
    BY <2>2, <2>3, <2>5, <2>6, <2>7
<1>8. CallFits(n)
  BY <1>2, <1>3, <1>4, <1>5, <1>7
  DEF CallFits, Points, Applying, Executing, Executed, Verifying, Mismatching, Restoring
<1>9. CallAgrees(n)
  <2>1. Unexecuted(n) = {}
    BY <1>5 DEF Unexecuted, Executing, Executed
  <2>2. Open(r) => \A s \in 1 .. StepsOf[r] : m.snap.steps[s] = "succeeded" => target[r][s] # <<>>
    BY <1>2, <1>4 DEF CallAgrees
  <2> QED
    BY <1>2, <1>3, <1>4, <1>5, <1>7, <2>1, <2>2 DEF CallAgrees, Verifying, Restoring
<1>10. n.pc \notin Applying
  BY <1>5 DEF Applying, Executing, Executed
<1>11. calls' = [calls EXCEPT ![c] = n]
  BY <1>1, <1>2
<1>12. left' \in [Runs -> [Operations -> Nat]] /\ UNCHANGED <<row, lapsed, lease, target>>
  BY DEF ReadEvidence, Sound, IInv
<1> QED
  BY <1>8, <1>9, <1>10, <1>11, <1>12, OnlyCalls, TurnKeeps

\* A rollback under the lease its run has.
LEMMA EnsuredKeeps ==
  ASSUME Sound, NEW c \in Calls, At(c, "ensure"), Leased(c),
         calls' = [calls EXCEPT ![c].pc = "beforeRollback", ![c].claim = Snap(c).fence],
         UNCHANGED <<row, lapsed, lease, target, left>>
  PROVE  IInv' /\ Orderly
<1>1. PICK m, r, f, n : m = calls[c] /\ r = m.run /\ f = m.snap.fence /\ n = [m EXCEPT !.pc = "beforeRollback", !.claim = f]
  OBVIOUS
<1>2. m.pc = "ensure" /\ ~At(c, "idle")
  BY <1>1 DEF At
<1>3. CallFits(m) /\ CallAgrees(m) /\ r \in Runs
  BY <1>1, <1>2, CallFacts DEF RunOf
<1>4. /\ n.pc = "beforeRollback" /\ n.run = r /\ n.step = m.step /\ n.claim = f /\ n.snap = m.snap
      /\ n = [pc |-> n.pc, run |-> n.run, step |-> n.step, claim |-> n.claim,
              evidence |-> n.evidence, snap |-> n.snap]
  BY <1>1, <1>3 DEF CallFits
<1>5. CallFits(n)
  BY <1>1, <1>2, <1>3, <1>4
  DEF CallFits, SnapFits, Points, Applying, Executing, Executed, Verifying, Mismatching, Restoring
<1>6. CallAgrees(n)
  <2>1. Unexecuted(n) = {}
    BY <1>4 DEF Unexecuted, Executing, Executed
  <2>2. lease.fence = f /\ \A g \in Written(r) : g <= lease.fence
    BY <1>1, <1>3 DEF Leased, Fenced, Snap, Sound, IInv, LeaseFits
  <2>3. f <= lease.fence
    BY <1>1, <1>3 DEF CallAgrees
  <2> QED
    BY <1>1, <1>2, <1>3, <1>4, <2>1, <2>2, <2>3 DEF CallAgrees, Verifying, Restoring
<1>7. calls' = [calls EXCEPT ![c] = n]
  BY <1>1 DEF Snap
<1>8. n.pc \notin Applying
  BY <1>4 DEF Applying, Executing, Executed
<1>9. left' \in [Runs -> [Operations -> Nat]]
  BY DEF Sound, IInv
<1> QED
  BY <1>5, <1>6, <1>7, <1>8, <1>9, OnlyCalls, TurnKeeps

\* A lease that is released or left keeps its fence.
LEMMA ReleaseKeeps ==
  ASSUME Sound, NEW c \in Calls, ReleaseLease(c)
  PROVE  IInv' /\ Orderly
<1>1. Idle.pc \notin Applying
  BY DEF Idle, Applying, Executing, Executed
<1>2. lease' = [lease EXCEPT !.live = lease'.live] /\ lease'.live \in BOOLEAN
  <2>1. PICK live : live = (lease.live /\ ~Leased(c))
    OBVIOUS
  <2>2. live \in BOOLEAN /\ lease' = [lease EXCEPT !.live = live]
    BY <2>1 DEF ReleaseLease
  <2>3. lease \in [run : Runs \cup {NoRun}, fence : 0 .. MaxFence, live : BOOLEAN]
    BY DEF Sound, IInv, LeaseFits
  <2>4. lease'.live = live
    BY <2>2, <2>3
  <2> QED
    BY <2>2, <2>4
<1>3. /\ calls' = [calls EXCEPT ![c] = Idle] /\ left' \in [Runs -> [Operations -> Nat]]
      /\ lapsed' \subseteq Lapsing /\ UNCHANGED <<row, target>>
  BY DEF ReleaseLease, Sound, IInv
<1> QED
  BY <1>1, <1>2, <1>3, TurnKeeps

\* So does one that expires.
LEMMA LeaseExpiresKeeps ==
  ASSUME Sound, LeaseExpires
  PROVE  IInv' /\ Orderly
<1>1. lease' = [lease EXCEPT !.live = lease'.live] /\ lease'.live \in BOOLEAN
  <2>1. PICK live : live = FALSE
    OBVIOUS
  <2>2. live \in BOOLEAN /\ lease' = [lease EXCEPT !.live = live]
    BY <2>1 DEF LeaseExpires
  <2>3. lease \in [run : Runs \cup {NoRun}, fence : 0 .. MaxFence, live : BOOLEAN]
    BY DEF Sound, IInv, LeaseFits
  <2>4. lease'.live = live
    BY <2>2, <2>3
  <2> QED
    BY <2>2, <2>4
<1>2. UNCHANGED <<calls, row, target, left>> /\ lapsed' \subseteq Lapsing
  BY DEF LeaseExpires, Sound, IInv
<1> QED
  BY <1>1, <1>2, TimeKeeps

\* An approval that lapses concerns the claims to come.
LEMMA ApprovalLapsesKeeps ==
  ASSUME Sound, NEW r \in Runs, ApprovalLapses(r)
  PROVE  IInv' /\ Orderly
<1>1. UNCHANGED <<calls, row, target, left, lease>> /\ lapsed' \subseteq Lapsing
  BY DEF ApprovalLapses, Sound, IInv
<1>2. lease' = [lease EXCEPT !.live = lease'.live] /\ lease'.live \in BOOLEAN
  BY <1>1 DEF Sound, IInv, LeaseFits
<1> QED
  BY <1>1, <1>2, TimeKeeps

\* The end of a call that has nothing to record.
LEMMA FinalizedKeeps ==
  ASSUME Sound, NEW c \in Calls, At(c, "finalize"),
         NEW h, h = Hydrated(RunOf(c)) \/ h = Snap(c),
         calls' = [calls EXCEPT ![c].pc = "release", ![c].snap = h],
         UNCHANGED <<row, lapsed, lease, target, left>>
  PROVE  IInv' /\ Orderly
<1>1. PICK m, r, n : m = calls[c] /\ r = m.run /\ n = [m EXCEPT !.pc = "release", !.snap = h]
  OBVIOUS
<1>2. m.pc = "finalize" /\ ~At(c, "idle")
  BY <1>1 DEF At
<1>3. CallFits(m) /\ CallAgrees(m) /\ r \in Runs
  BY <1>1, <1>2, CallFacts DEF RunOf
<1>4. /\ n.pc = "release" /\ n.run = r /\ n.step = m.step /\ n.claim = m.claim /\ n.snap = h
      /\ n = [pc |-> n.pc, run |-> n.run, step |-> n.step, claim |-> n.claim,
              evidence |-> n.evidence, snap |-> n.snap]
  BY <1>1, <1>3 DEF CallFits
<1>5. /\ SnapFits(r, h) /\ h.fence <= lease.fence /\ h.seen <= Len(row[r].receipts)
      /\ h.seen = Len(row[r].receipts) =>
           /\ Rank[h.state] <= Rank[row[r].state]
           /\ \A s \in 1 .. StepsOf[r] : StepRank[h.steps[s]] <= StepRank[row[r].steps[s]]
      /\ Open(r) => \A s \in 1 .. StepsOf[r] : h.steps[s] = "succeeded" => target[r][s] # <<>>
  <2>1. CASE h = Hydrated(r)
    <3>1. Len(row[r].receipts) \in Nat
      BY <1>3, RunFacts
    <3> QED
      BY <1>3, <2>1, <3>1, HydratedFits
  <2>2. CASE h = m.snap
    BY <1>1, <1>3, <2>2 DEF CallFits, CallAgrees
  <2> QED
    BY <1>1, <2>1, <2>2 DEF RunOf, Snap
<1>6. CallFits(n)
  BY <1>1, <1>3, <1>4, <1>5
  DEF CallFits, Points, Applying, Executing, Executed, Verifying, Mismatching, Restoring
<1>7. CallAgrees(n)
  <2>1. Unexecuted(n) = {}
    BY <1>4 DEF Unexecuted, Executing, Executed
  <2>2. m.claim <= lease.fence
    BY <1>3 DEF CallAgrees
  <2> QED
    BY <1>4, <1>5, <2>1, <2>2 DEF CallAgrees, Verifying, Restoring
<1>8. calls' = [calls EXCEPT ![c] = n]
  BY <1>1
<1>9. n.pc \notin Applying
  BY <1>4 DEF Applying, Executing, Executed
<1>10. left' \in [Runs -> [Operations -> Nat]]
  BY DEF Sound, IInv
<1> QED
  BY <1>6, <1>7, <1>8, <1>9, <1>10, OnlyCalls, TurnKeeps

---------------------------------------------------------------------------
(* Calls that store their snapshot.                                        *)

\* What a receipt says of fences: that of the call if it is evidence of a write, which
\* no run gets that has succeeded or is blocked.
ReceiptFits(x, new) ==
  /\ x \in Receipts
  /\ IF x.kind \in WriteLike
     THEN x.fence = new.fence /\ new.state \notin {"succeeded", "blocked"}
     ELSE x.fence = 0

\* What a call may store: its snapshot with a next state, with steps it has worked on
\* while its run is not over, or with the compensation of a run that is rolled back.
SaveFits(c, r, new, written) ==
  /\ SnapFits(r, new) /\ new.seen = Snap(c).seen /\ new.fence = Snap(c).fence
  /\ written = <<>> \/ \E x : ReceiptFits(x, new) /\ written = <<x>>
  /\ \/ new.steps = Snap(c).steps \/ new.state \notin Terminal
     \/ /\ new.state = "rolled_back"
        /\ \A s \in 1 .. StepsOf[r] : \/ new.steps[s] = Snap(c).steps[s]
                                      \/ Snap(c).steps[s] = "succeeded" /\ new.steps[s] = "compensated"
  /\ (new.state = "approved" /\ Snap(c).state # "approved") =>
       \E x : ReceiptFits(x, new) /\ written = <<x>> /\ x.fence = 0
  /\ (new.state = "succeeded" /\ Snap(c).state # "succeeded") =>
       \A s \in 1 .. StepsOf[r] : Seen(row[r].receipts, s)
  /\ (Open(r) /\ new.state \notin Undone) =>
       \A s \in 1 .. StepsOf[r] : new.steps[s] = "succeeded" => target[r][s] # <<>>

\* And where it may go on.
NextFits(c, r, new, written, n) ==
  /\ CallFits(n) /\ n.run = r /\ n.claim = calls[c].claim /\ n.snap = new
  /\ n.pc \in Restoring => calls[c].pc \in Restoring
  /\ n.pc \in Applying => calls[c].pc \in Applying
  /\ n.pc \notin {"verify2", "recover"}
  /\ n.pc \in Verifying \cup {"succeed"} =>
       \A s \in 1 .. StepsOf[r] : new.steps[s] = "succeeded" =>
         \/ Seen(row[r].receipts, s) \/ (n.pc = "verified" /\ s = n.step)
         \/ \E x : written = <<x>> /\ x.kind = "verify" /\ x.ok /\ x.step = s
  /\ \A s \in Unexecuted(n) : n.claim \notin Under(r, s)

\* What every save of a call does to the row, and what its snapshot needs.
Saving(c, r, new, written) ==
  /\ Sound /\ c \in Calls /\ r = RunOf(c) /\ ~At(c, "idle") /\ ~At(c, "release")
  /\ Storable(r, new, written) /\ SaveFits(c, r, new, written)
  /\ row' = [row EXCEPT ![r] = [state |-> new.state, steps |-> new.steps,
                                receipts |-> @.receipts \o written, fence |-> new.fence]]
  /\ UNCHANGED <<lapsed, lease, target, left>>

\* The parts of the snapshot a call has not worked on are those of the row.
PartsAgree(c, r, new) ==
  /\ r \in Runs /\ new.seen = Len(row[r].receipts)
  /\ row[r].state = new.state \/ <<row[r].state, new.state>> \in RunMoves
  /\ \A s \in 1 .. StepsOf[r] :
       row[r].steps[s] = new.steps[s] \/ <<row[r].steps[s], new.steps[s]>> \in StepMoves
  /\ new.state = Snap(c).state => row[r].state = new.state
  /\ \A s \in 1 .. StepsOf[r] : new.steps[s] = Snap(c).steps[s] => row[r].steps[s] = new.steps[s]
  /\ \A s \in 1 .. StepsOf[r] : StepRank[Snap(c).steps[s]] <= StepRank[row[r].steps[s]]

\* A save that the store accepts has those parts from the row.
LEMMA SavedParts ==
  ASSUME NEW c, NEW r, NEW new, NEW written, Saving(c, r, new, written)
  PROVE  PartsAgree(c, r, new)
<1>1. r \in Runs /\ CallAgrees(calls[c]) /\ SnapFits(r, Snap(c)) /\ SnapFits(r, new) /\ r = calls[c].run
  BY CallFacts DEF Saving, SaveFits, RunOf
<1>2. PICK h : h = Hydrated(r)
  OBVIOUS
<1>3. h.state = row[r].state /\ h.steps = row[r].steps /\ h.seen = Len(row[r].receipts)
  BY <1>1, <1>2, HydratedFits DEF Saving
<1>4. /\ new.seen = h.seen /\ Moves(RunMoves, h.state, new.state)
      /\ \A s \in DOMAIN h.steps : Moves(StepMoves, h.steps[s], new.steps[s])
  BY <1>2 DEF Saving, Storable
<1>5. row[r].steps \in [1 .. StepsOf[r] -> StepStates] /\ row[r].state \in States
  BY <1>1, RunFacts DEF Saving
<1>6. /\ row[r].state = new.state \/ <<row[r].state, new.state>> \in RunMoves
      /\ \A s \in 1 .. StepsOf[r] :
           row[r].steps[s] = new.steps[s] \/ <<row[r].steps[s], new.steps[s]>> \in StepMoves
  <2>1. DOMAIN h.steps = 1 .. StepsOf[r]
    BY <1>3, <1>5
  <2> QED
    BY <1>3, <1>4, <2>1 DEF Moves
<1>7. /\ Rank[Snap(c).state] <= Rank[row[r].state]
      /\ \A s \in 1 .. StepsOf[r] : StepRank[Snap(c).steps[s]] <= StepRank[row[r].steps[s]]
  <2>1. Snap(c).seen = Len(row[r].receipts)
    BY <1>3, <1>4 DEF Saving, SaveFits
  <2> QED
    BY <1>1, <2>1 DEF CallAgrees, Snap
<1>8. ASSUME new.state = Snap(c).state PROVE row[r].state = new.state
  <2>1. Snap(c).state \in States
    BY <1>1 DEF SnapFits
  <2>2. Rank[Snap(c).state] \in Nat /\ Rank[row[r].state] \in Nat
    BY <1>5, <2>1, MovesGoUp
  <2>3. <<row[r].state, new.state>> \in RunMoves => Rank[row[r].state] < Rank[new.state]
    BY <1>5, <1>8, <2>1, MovesGoUp
  <2> QED
    BY <1>6, <1>7, <1>8, <2>2, <2>3
<1>9. ASSUME NEW s \in 1 .. StepsOf[r], new.steps[s] = Snap(c).steps[s] PROVE row[r].steps[s] = new.steps[s]
  <2>1. Snap(c).steps[s] \in StepStates /\ row[r].steps[s] \in StepStates
    BY <1>1, <1>5 DEF SnapFits, StepMap
  <2>2. StepRank[Snap(c).steps[s]] \in Nat /\ StepRank[row[r].steps[s]] \in Nat
    BY <2>1, MovesGoUp
  <2>3. <<row[r].steps[s], new.steps[s]>> \in StepMoves => StepRank[row[r].steps[s]] < StepRank[new.steps[s]]
    BY <1>9, <2>1, MovesGoUp
  <2> QED
    BY <1>6, <1>7, <1>9, <2>2, <2>3
<1> QED
  BY <1>1, <1>3, <1>4, <1>6, <1>7, <1>8, <1>9 DEF PartsAgree

\* The row that was stored: its journal is the old one with what was written.
RowIs(r, new, written) ==
  /\ row' = [q \in Runs |-> row'[q]] /\ \A q \in Runs \ {r} : row'[q] = row[q]
  /\ row'[r] = [state |-> row'[r].state, steps |-> row'[r].steps, receipts |-> row'[r].receipts,
                fence |-> row'[r].fence]
  /\ row'[r].state = new.state /\ row'[r].steps = new.steps /\ row'[r].fence = new.fence
  /\ row'[r].receipts \in Seq(Receipts)
  /\ \/ written = <<>> /\ row'[r].receipts = row[r].receipts
     \/ \E x : /\ ReceiptFits(x, new) /\ written = <<x>> /\ row'[r].receipts = Append(row[r].receipts, x)
               /\ Len(row'[r].receipts) = Len(row[r].receipts) + 1
               /\ row'[r].receipts[Len(row[r].receipts) + 1] = x
               /\ (x.kind \in WriteLike => Fenced(r, new.fence))
  /\ Len(row'[r].receipts) \in Nat /\ Len(row[r].receipts) <= Len(row'[r].receipts)
  /\ \A i \in 1 .. Len(row[r].receipts) : row'[r].receipts[i] = row[r].receipts[i]

\* A save makes the row what the snapshot says, and appends its receipts.
LEMMA SavedRow ==
  ASSUME NEW c, NEW r, NEW new, NEW written, Saving(c, r, new, written)
  PROVE  RowIs(r, new, written)
<1>1. r \in Runs
  BY SavedParts DEF PartsAgree
<1>2. PICK old : old = row[r].receipts
  OBVIOUS
<1>3. old \in Seq(Receipts)
  BY <1>1, <1>2, RunFacts DEF Saving
<1>4. row = [q \in Runs |-> row[q]]
  BY DEF Saving, Sound, IInv
<1>5. row' = [row EXCEPT ![r] = [state |-> new.state, steps |-> new.steps,
                                 receipts |-> old \o written, fence |-> new.fence]]
  BY <1>2 DEF Saving
<1>6. row'[r] = [state |-> new.state, steps |-> new.steps, receipts |-> old \o written, fence |-> new.fence]
  BY <1>1, <1>4, <1>5
<1>7. row' = [q \in Runs |-> row'[q]] /\ \A q \in Runs \ {r} : row'[q] = row[q]
  BY <1>4, <1>5
<1>8. row'[r].receipts = old \o written
  BY <1>6
<1>9. Len(old) \in Nat
  BY <1>3
<1>10. ASSUME written = <<>> PROVE RowIs(r, new, written)
  <2>1. old \o written = old
    BY <1>3, <1>10, Writing
  <2> QED
    BY <1>2, <1>3, <1>6, <1>7, <1>8, <1>9, <1>10, <2>1 DEF RowIs
<1>11. ASSUME NEW x, ReceiptFits(x, new), written = <<x>>
       PROVE  /\ row'[r].receipts = Append(old, x)
              /\ row'[r].receipts \in Seq(Receipts)
              /\ Len(row'[r].receipts) = Len(old) + 1
              /\ row'[r].receipts[Len(old) + 1] = x
              /\ \A i \in 1 .. Len(old) : row'[r].receipts[i] = old[i]
              /\ x.kind \in WriteLike => Fenced(r, new.fence)
  <2>1. x \in Receipts
    BY <1>11 DEF ReceiptFits
  <2>2. old \o written = Append(old, x)
    BY <1>3, <1>11, <2>1, Writing
  <2>3. x.kind \in WriteLike => Fenced(r, new.fence)
    <3>1. DOMAIN written = {1} /\ written[1] = x
      BY <1>11
    <3>2. \A i \in DOMAIN written : written[i].kind \in WriteLike => Fenced(r, new.fence)
      BY DEF Saving, Storable
    <3> QED
      BY <3>1, <3>2
  <2> QED
    BY <1>3, <1>8, <2>1, <2>2, <2>3, Appending
<1>12. CASE \E x : ReceiptFits(x, new) /\ written = <<x>>
  BY <1>2, <1>6, <1>7, <1>9, <1>11, <1>12 DEF RowIs
<1> QED
  BY <1>10, <1>12 DEF Saving, SaveFits

\* What has been seen stays seen.
LEMMA SeenStays ==
  ASSUME NEW a, NEW b, Len(a) \in Nat, Len(b) \in Nat, Len(a) <= Len(b),
         \A i \in 1 .. Len(a) : b[i] = a[i], NEW s, Seen(a, s)
  PROVE  Seen(b, s)
<1>1. PICK i \in 1 .. Len(a) : \/ a[i].kind = "verify" /\ a[i].ok /\ a[i].step = s
                               \/ a[i].condition = "desiredReadback"
  BY DEF Seen
<1>2. i \in 1 .. Len(b) /\ b[i] = a[i]
  OBVIOUS
<1> QED
  BY <1>1, <1>2, Zenon DEF Seen

\* The row fits again.
LEMMA SavedRowFits ==
  ASSUME NEW c, NEW r, NEW new, NEW written, Saving(c, r, new, written)
  PROVE  \A q \in Runs : RowFits(q, row[q])'
<1>a. PartsAgree(c, r, new)
  BY SavedParts
<1>b. RowIs(r, new, written)
  BY SavedRow
<1>1. r \in Runs /\ RowFits(r, row[r])
  BY <1>a, RunFacts DEF Saving, PartsAgree
<1>2. PICK x, y : x = row[r] /\ y = row'[r]
  OBVIOUS
<1>3. /\ y = [state |-> y.state, steps |-> y.steps, receipts |-> y.receipts, fence |-> y.fence]
      /\ y.state = new.state /\ y.steps = new.steps /\ y.fence = new.fence /\ y.receipts \in Seq(Receipts)
      /\ Len(y.receipts) \in Nat /\ Len(x.receipts) <= Len(y.receipts)
      /\ \A i \in 1 .. Len(x.receipts) : y.receipts[i] = x.receipts[i]
  BY <1>2, <1>b DEF RowIs
<1>4. SnapFits(r, new) /\ Len(x.receipts) \in Nat
  BY <1>1, <1>2, RunFacts DEF Saving, SaveFits
<1>5. ASSUME y.state \notin {"drafted", "awaiting_approval"}
      PROVE  \E i \in 1 .. Len(y.receipts) : y.receipts[i].fence = 0
  <2>1. CASE x.state \notin {"drafted", "awaiting_approval"}
    <3>1. PICK i \in 1 .. Len(x.receipts) : x.receipts[i].fence = 0
      BY <1>1, <1>2, <2>1 DEF RowFits
    <3> QED
      BY <1>3, <1>4, <3>1
  <2>2. CASE x.state \in {"drafted", "awaiting_approval"}
    <3>1. new.state # x.state /\ <<x.state, new.state>> \in RunMoves /\ new.state \in States
      BY <1>2, <1>3, <1>4, <1>5, <2>2, <1>a DEF SnapFits, PartsAgree
    <3>2. new.state = "approved"
      BY <1>3, <1>5, <2>2, <3>1, MovesEnd
    <3>3. Snap(c).state # "approved"
      BY <1>2, <3>1, <3>2, <1>a DEF PartsAgree
    <3>4. PICK z : ReceiptFits(z, new) /\ written = <<z>> /\ z.fence = 0
      BY <3>2, <3>3 DEF Saving, SaveFits
    <3>5. written # <<>> /\ \A w : written = <<w>> => w = z
      BY <3>4
    <3>6. Len(y.receipts) = Len(x.receipts) + 1 /\ y.receipts[Len(x.receipts) + 1] = z
      <4>1. \E w : /\ written = <<w>> /\ Len(y.receipts) = Len(x.receipts) + 1
                   /\ y.receipts[Len(x.receipts) + 1] = w
        <5>1. \/ written = <<>>
              \/ \E w : /\ written = <<w>> /\ Len(row'[r].receipts) = Len(row[r].receipts) + 1
                        /\ row'[r].receipts[Len(row[r].receipts) + 1] = w
          BY <1>b DEF RowIs
        <5> QED
          BY <1>2, <3>5, <5>1
      <4> QED
        BY <3>5, <4>1
    <3>7. Len(x.receipts) + 1 \in 1 .. Len(y.receipts)
      BY <1>4, <3>6
    <3> QED
      BY <3>4, <3>6, <3>7
  <2> QED
    BY <2>1, <2>2
<1>6. ASSUME y.state = "succeeded", NEW s \in 1 .. StepsOf[r] PROVE Seen(y.receipts, s)
  <2>1. Seen(x.receipts, s)
    <3>1. CASE Snap(c).state # "succeeded"
      BY <1>2, <1>3, <1>6, <3>1 DEF Saving, SaveFits
    <3>2. CASE Snap(c).state = "succeeded"
      <4>1. x.state = "succeeded"
        BY <1>2, <1>3, <1>6, <3>2, <1>a DEF PartsAgree
      <4> QED
        BY <1>1, <1>2, <1>6, <4>1 DEF RowFits
    <3> QED
      BY <3>1, <3>2
  <2> QED
    BY <1>3, <1>4, <2>1, SeenStays
<1>7. RowFits(r, y)
  BY <1>3, <1>4, <1>5, <1>6 DEF RowFits, SnapFits
<1>8. ASSUME NEW q \in Runs PROVE RowFits(q, row'[q])
  <2>1. CASE q = r
    BY <1>2, <1>7, <2>1
  <2>2. CASE q # r
    <3>1. row'[q] = row[q]
      BY <2>2, <1>b DEF RowIs
    <3> QED
      BY <3>1, RunFacts DEF Saving
  <2> QED
    BY <2>1, <2>2
<1> QED
  BY <1>8 DEF RowFits

\* It has gone onward.
LEMMA SavedOnward ==
  ASSUME NEW c, NEW r, NEW new, NEW written, Saving(c, r, new, written)
  PROVE  Onward({})
<1>a. PartsAgree(c, r, new)
  BY SavedParts
<1>b. RowIs(r, new, written)
  BY SavedRow
<1>1. /\ lease.fence <= lease.fence' /\ Sound /\ UNCHANGED target
  BY DEF Saving, Sound, IInv, LeaseFits, JournalAssumption
<1>2. ASSUME NEW q \in Runs PROVE OnwardOf(q, {})
  <2>1. Rank[row[q].state] \in Nat /\ Len(row[q].receipts) \in Nat
    BY <1>1, RunFacts, MovesGoUp
  <2>2. ASSUME NEW s \in 1 .. StepsOf[q] PROVE row[q].steps[s] \in StepStates /\ StepRank[row[q].steps[s]] \in Nat
    <3>1. row[q].steps[s] \in StepStates
      BY <1>1, RunFacts
    <3> QED
      BY <3>1, MovesGoUp
  <2>3. CASE q # r
    <3>1. row'[q] = row[q]
      BY <2>3, <1>b DEF RowIs
    <3> QED
      BY <1>1, <2>1, <2>2, <3>1 DEF OnwardOf, Open, Under
  <2>4. CASE q = r
    <3>1. row[r].state \in States /\ new.state \in States /\ new.steps \in [1 .. StepsOf[r] -> StepStates]
      BY <1>1, <2>4, RunFacts DEF Saving, SaveFits, SnapFits, StepMap
    <3>2. Rank[row[r].state] <= Rank[new.state]
      <4>1. <<row[r].state, new.state>> \in RunMoves => Rank[row[r].state] < Rank[new.state]
        BY <3>1, MovesGoUp
      <4>2. Rank[row[r].state] \in Nat /\ Rank[new.state] \in Nat
        BY <3>1, MovesGoUp
      <4> QED
        BY <4>1, <4>2, <1>a DEF PartsAgree
    <3>3. ASSUME NEW s \in 1 .. StepsOf[r] PROVE StepRank[row[r].steps[s]] <= StepRank[new.steps[s]]
      <4>1. row[r].steps[s] \in StepStates /\ new.steps[s] \in StepStates
        BY <2>2, <2>4, <3>1
      <4>2. <<row[r].steps[s], new.steps[s]>> \in StepMoves => StepRank[row[r].steps[s]] < StepRank[new.steps[s]]
        BY <4>1, MovesGoUp
      <4>3. StepRank[row[r].steps[s]] \in Nat /\ StepRank[new.steps[s]] \in Nat
        BY <4>1, MovesGoUp
      <4>4. row[r].steps[s] = new.steps[s] \/ <<row[r].steps[s], new.steps[s]>> \in StepMoves
        BY <1>a DEF PartsAgree
      <4> QED
        BY <4>2, <4>3, <4>4
    <3>4. Open(r)' => Open(r)
      <4>1. row[r].state \in Undone => new.state \in Undone
        BY <3>1, MovesEnd, <1>a DEF PartsAgree
      <4> QED
        BY <4>1, <1>b DEF Open, RowIs
    <3>5. /\ Len(row[r].receipts) <= Len(row'[r].receipts)
          /\ \A i \in 1 .. Len(row[r].receipts) : row'[r].receipts[i] = row[r].receipts[i]
          /\ row'[r].state = new.state /\ row'[r].steps = new.steps
      BY <1>b DEF RowIs
    <3> QED
      BY <1>1, <2>4, <3>2, <3>3, <3>4, <3>5 DEF OnwardOf, Under
  <2> QED
    BY <2>3, <2>4
<1> QED
  BY <1>1, <1>2 DEF Onward

\* What was written stands under the fence of the lease, or under none.
LEMMA SavedFences ==
  ASSUME NEW c, NEW r, NEW new, NEW written, Saving(c, r, new, written)
  PROVE  /\ \A q \in Runs \ {r} : Written(q)' = Written(q)
         /\ \A f \in Written(r)' :
              f \in Written(r) \/ f = 0 \/ (f = new.fence /\ f = lease.fence /\ lease.run = r)
         /\ Written(r) \subseteq Written(r)'
         /\ \A x : (ReceiptFits(x, new) /\ written = <<x>> /\ x.kind \notin WriteLike) =>
              \A f \in Written(r)' : f \in Written(r) \/ f = 0
         /\ written = <<>> => Written(r)' = Written(r)
<1>b. RowIs(r, new, written)
  BY SavedRow
<1>1. PICK x, y : x = row[r].receipts /\ y = row'[r].receipts
  OBVIOUS
<1>2. /\ Written(r) = {x[i].fence : i \in 1 .. Len(x)}
      /\ Written(r)' = {y[i].fence : i \in 1 .. Len(y)}
  BY <1>1 DEF Written
<1>3. Len(x) \in Nat /\ Len(y) \in Nat /\ Len(x) <= Len(y) /\ \A i \in 1 .. Len(x) : y[i] = x[i]
  <2>1. r \in Runs /\ Sound
    BY SavedParts DEF PartsAgree, Saving
  <2>2. Len(x) \in Nat
    BY <1>1, <2>1, RunFacts
  <2> QED
    BY <1>1, <1>b, <2>2 DEF RowIs
<1>4. \A q \in Runs \ {r} : Written(q)' = Written(q)
  BY <1>b DEF RowIs, Written
<1>5. Written(r) \subseteq Written(r)'
  BY <1>2, <1>3
<1>6. written = <<>> \/ \E z : /\ ReceiptFits(z, new) /\ written = <<z>> /\ Len(y) = Len(x) + 1 /\ y[Len(x) + 1] = z
                               /\ (z.kind \in WriteLike => Fenced(r, new.fence))
  BY <1>1, <1>b DEF RowIs
<1>7. written = <<>> => y = x
  BY <1>1, <1>b DEF RowIs
<1>8. ASSUME NEW z, ReceiptFits(z, new), written = <<z>>, Len(y) = Len(x) + 1, y[Len(x) + 1] = z,
             z.kind \in WriteLike => Fenced(r, new.fence), NEW f \in Written(r)'
      PROVE  \/ f \in Written(r)
             \/ f = 0 /\ z.kind \notin WriteLike
             \/ z.kind \in WriteLike /\ f = new.fence /\ f = lease.fence /\ lease.run = r
  <2>1. PICK i \in 1 .. Len(y) : f = y[i].fence
    BY <1>2
  <2>2. CASE i \in 1 .. Len(x)
    BY <1>2, <1>3, <2>1, <2>2
  <2>3. CASE i = Len(x) + 1
    BY <1>8, <2>1, <2>3 DEF ReceiptFits, Fenced
  <2> QED
    BY <1>3, <1>8, <2>2, <2>3
<1>9. \A f \in Written(r)' : f \in Written(r) \/ f = 0 \/ (f = new.fence /\ f = lease.fence /\ lease.run = r)
  BY <1>2, <1>6, <1>7, <1>8
<1>10. ASSUME NEW z, ReceiptFits(z, new), written = <<z>>, z.kind \notin WriteLike, NEW f \in Written(r)'
       PROVE  f \in Written(r) \/ f = 0
  <2>1. written # <<>> /\ \A w : written = <<w>> => w = z
    BY <1>10
  <2> QED
    BY <1>6, <1>8, <1>10, <2>1
<1>11. written = <<>> => Written(r)' = Written(r)
  BY <1>2, <1>7
<1>12. \A z : (ReceiptFits(z, new) /\ written = <<z>> /\ z.kind \notin WriteLike) =>
               \A f \in Written(r)' : f \in Written(r) \/ f = 0
  BY <1>10
<1> QED
  BY <1>4, <1>5, <1>9, <1>12, <1>11

\* The lease and the target agree with the row that was stored.
LEMMA SavedLease ==
  ASSUME NEW c, NEW r, NEW new, NEW written, Saving(c, r, new, written)
  PROVE  /\ LeaseFits' /\ TargetFits' /\ target' = [q \in Runs |-> target'[q]]
         /\ lapsed' \subseteq Lapsing /\ left' \in [Runs -> [Operations -> Nat]]
<1>a. PartsAgree(c, r, new)
  BY SavedParts
<1>b. RowIs(r, new, written)
  BY SavedRow
<1>1. Sound /\ UNCHANGED <<lapsed, lease, target, left>> /\ r \in Runs
  BY <1>a DEF Saving, PartsAgree
<1>2. LeaseFits'
  <2>1. LeaseFits /\ lease.fence \in Nat
    BY <1>1 DEF Sound, IInv, LeaseFits, JournalAssumption
  <2>2. ASSUME NEW q \in Runs, NEW f \in Written(q)'
        PROVE  f <= lease.fence /\ (f = lease.fence /\ f # 0 => q = lease.run)
    BY <2>1, <2>2, SavedFences DEF LeaseFits
  <2> QED
    BY <1>1, <2>1, <2>2 DEF LeaseFits
<1>3. TargetFits'
  <2>1. new.fence <= lease.fence
    BY CallFacts DEF Saving, SaveFits, CallAgrees, Snap
  <2>2. ASSUME NEW q \in Runs PROVE row'[q].fence <= lease.fence
    BY <1>1, <1>b, <2>1 DEF RowIs, Sound, IInv, TargetFits
  <2>3. ASSUME NEW q \in Runs, NEW s \in 1 .. StepsOf[q], row'[q].state \notin Undone, row'[q].steps[s] = "succeeded"
        PROVE  target[q][s] # <<>>
    <3>1. CASE q # r
      BY <1>1, <1>b, <2>3, <3>1 DEF RowIs, Sound, IInv, TargetFits, Open
    <3>2. CASE q = r
      <4>1. new.state \notin Undone /\ new.steps[s] = "succeeded"
        BY <1>b, <2>3, <3>2 DEF RowIs
      <4>2. Open(r)
        <5>1. row[r].state \in States /\ new.state \in States
          BY <1>1, RunFacts DEF Saving, SaveFits, SnapFits
        <5> QED
          BY <1>a, <4>1, <5>1, MovesEnd DEF PartsAgree, Open
      <4> QED
        BY <3>2, <4>1, <4>2 DEF Saving, SaveFits
    <3> QED
      BY <3>1, <3>2
  <2> QED
    BY <1>1, <2>2, <2>3 DEF TargetFits, Sound, IInv, Under, Open
<1> QED
  BY <1>1, <1>2, <1>3 DEF Sound, IInv

\* A run that is over keeps its steps when a snapshot of it is stored.
LEMMA SavedSettles ==
  ASSUME NEW c, NEW r, NEW new, NEW written, Saving(c, r, new, written), row[r].state \in Terminal
  PROVE  row'[r].state = row[r].state /\ row'[r].steps = row[r].steps
<1>a. PartsAgree(c, r, new)
  BY SavedParts
<1>b. RowIs(r, new, written)
  BY SavedRow
<1>1. r \in Runs /\ RowFits(r, row[r]) /\ SnapFits(r, new)
  BY <1>a, RunFacts DEF Saving, SaveFits, PartsAgree
<1>2. new.state = row[r].state
  BY <1>1, <1>a, MovesEnd DEF PartsAgree, SnapFits
<1>3. ASSUME NEW s \in 1 .. StepsOf[r] PROVE row[r].steps[s] = new.steps[s]
  <2>1. \/ new.steps[s] = Snap(c).steps[s]
        \/ new.state = "rolled_back" /\ new.steps[s] = "compensated"
    BY <1>2 DEF Saving, SaveFits
  <2>2. CASE new.steps[s] = Snap(c).steps[s]
    BY <1>a, <2>2 DEF PartsAgree
  <2>3. CASE new.state = "rolled_back" /\ new.steps[s] = "compensated"
    <3>1. row[r].steps[s] = "compensated" \/ <<row[r].steps[s], "compensated">> \in StepMoves
      BY <1>a, <2>3 DEF PartsAgree
    <3>2. row[r].steps[s] # "succeeded"
      <4>1. StepsFit(row[r].state, row[r].steps) /\ s \in DOMAIN row[r].steps
        BY <1>1 DEF RowFits, StepMap
      <4> QED
        BY <1>2, <2>3, <4>1 DEF StepsFit
    <3> QED
      BY <2>3, <3>1, <3>2 DEF StepMoves
  <2> QED
    BY <2>1, <2>2, <2>3
<1>4. PICK a, b : a = row[r].steps /\ b = new.steps
  OBVIOUS
<1>5. a \in [1 .. StepsOf[r] -> StepStates] /\ b \in [1 .. StepsOf[r] -> StepStates]
  BY <1>1, <1>4 DEF RowFits, SnapFits, StepMap
<1>6. a = b
  <2>1. \A s \in 1 .. StepsOf[r] : a[s] = b[s]
    BY <1>3, <1>4
  <2>2. a = [s \in 1 .. StepsOf[r] |-> a[s]] /\ b = [s \in 1 .. StepsOf[r] |-> b[s]]
    BY <1>5
  <2> QED
    BY <2>1, <2>2, Zenon
<1> QED
  BY <1>2, <1>4, <1>6, <1>b DEF RowIs

\* Storing a snapshot is orderly: the run it is of was not settled, or stays so, what is
\* written has the fence of the lease, and a call that was overtaken stores nothing.
LEMMA SavedOrder ==
  ASSUME NEW c, NEW r, NEW new, NEW written, Saving(c, r, new, written),
         NEW m, calls' = [calls EXCEPT ![c] = m]
  PROVE  Orderly
<1>a. PartsAgree(c, r, new)
  BY SavedParts
<1>b. RowIs(r, new, written)
  BY SavedRow
<1>1. Sound /\ r \in Runs /\ c \in Calls /\ r = calls[c].run
  BY <1>a DEF Saving, PartsAgree, RunOf
<1>2. SettledRunsStaySettledStep
  <2>1. ASSUME NEW q \in Runs, row[q].state \in Terminal
        PROVE  /\ row'[q].state = row[q].state /\ row'[q].steps = row[q].steps
               /\ row[q].state \in {"succeeded", "blocked"} => Written(q)' = Written(q)
    <3>1. CASE q # r
      BY <1>b, <2>1, <3>1 DEF RowIs, Written
    <3>2. CASE q = r
      <4>1. row'[r].state = row[r].state /\ row'[r].steps = row[r].steps
        BY <2>1, <3>2, SavedSettles
      <4>2. ASSUME row[r].state \in {"succeeded", "blocked"} PROVE Written(r)' = Written(r)
        <5>1. new.state \in {"succeeded", "blocked"}
          BY <1>b, <4>1, <4>2 DEF RowIs
        <5>2. written = <<>> \/ \E x : ReceiptFits(x, new) /\ written = <<x>> /\ x.kind \notin WriteLike
          BY <5>1 DEF Saving, SaveFits, ReceiptFits
        <5>3. 0 \in Written(r)
          <6>1. RowFits(r, row[r])
            BY <1>1, RunFacts
          <6>2. \E i \in 1 .. Len(row[r].receipts) : row[r].receipts[i].fence = 0
            BY <4>2, <6>1 DEF RowFits
          <6> QED
            BY <6>2 DEF Written
        <5>4. CASE written = <<>>
          BY <5>4, SavedFences
        <5>5. CASE \E x : ReceiptFits(x, new) /\ written = <<x>> /\ x.kind \notin WriteLike
          <6>1. \A f \in Written(r)' : f \in Written(r) \/ f = 0
            BY <5>5, SavedFences
          <6>2. Written(r) \subseteq Written(r)'
            BY SavedFences
          <6> QED
            BY <5>3, <6>1, <6>2
        <5> QED
          BY <5>2, <5>4, <5>5
      <4> QED
        BY <3>2, <4>1, <4>2
    <3> QED
      BY <3>1, <3>2
  <2> QED
    BY <2>1 DEF SettledRunsStaySettledStep
<1>3. WritesFollowTheFenceStep
  <2>1. ASSUME NEW p \in Runs, Len(row'[p].receipts) > Len(row[p].receipts), Last(row'[p].receipts).kind \in WriteLike,
               NEW q \in Runs, NEW f \in Written(q)
        PROVE  f <= Last(row'[p].receipts).fence /\ (q # p => f < Last(row'[p].receipts).fence)
    <3>1. Len(row[p].receipts) \in Nat
      BY <1>1, RunFacts
    <3>2. p = r
      BY <1>b, <2>1, <3>1 DEF RowIs
    <3>3. PICK x : /\ ReceiptFits(x, new) /\ Len(row'[r].receipts) = Len(row[r].receipts) + 1
                   /\ row'[r].receipts[Len(row[r].receipts) + 1] = x
                   /\ (x.kind \in WriteLike => Fenced(r, new.fence))
      BY <1>b, <2>1, <3>1, <3>2 DEF RowIs
    <3>4. Last(row'[p].receipts) = x
      BY <3>2, <3>3 DEF Last
    <3>5. x.fence = lease.fence /\ lease.run = r
      BY <2>1, <3>3, <3>4 DEF ReceiptFits, Fenced
    <3>6. f <= lease.fence /\ (f = lease.fence /\ f # 0 => q = lease.run) /\ lease.fence # 0
      BY <1>1, <2>1, <3>5 DEF Sound, IInv, LeaseFits, NoRun, Runs
    <3>7. f \in Nat /\ lease.fence \in Nat
      <4>1. lease.fence \in 0 .. MaxFence /\ MaxFence \in Nat /\ row[q].receipts \in Seq(Receipts)
        BY <1>1, RunFacts
      <4>2. PICK i \in 1 .. Len(row[q].receipts) : f = row[q].receipts[i].fence
        BY <2>1 DEF Written
      <4>3. row[q].receipts[i] \in Receipts
        BY <4>1
      <4> QED
        BY <4>1, <4>2, <4>3 DEF Receipts
    <3> QED
      BY <3>2, <3>4, <3>5, <3>6, <3>7
  <2> QED
    BY <2>1 DEF WritesFollowTheFenceStep
<1>4. OvertakenCallsAreFencedStep
  <2>1. ASSUME NEW d \in Calls, calls[d].claim # 0, calls'[d] # calls[d], NEW f \in Written(RunOf(d))
        PROVE  f <= calls[d].claim
    <3>1. d = c
      BY <1>1, <2>1 DEF Sound, IInv
    <3>2. CallAgrees(calls[c]) /\ Snap(c).seen = Len(row[r].receipts) /\ calls[c].pc # "release"
      BY <1>a, CallFacts DEF Saving, SaveFits, PartsAgree, At
    <3> QED
      BY <1>1, <2>1, <3>1, <3>2 DEF CallAgrees, Snap, RunOf
  <2> QED
    BY <2>1 DEF OvertakenCallsAreFencedStep
<1> QED
  BY <1>2, <1>3, <1>4 DEF Orderly

\* The snapshot a call goes on with once its own is stored.
StoredSnap(r, new, written) ==
  [new EXCEPT !.seen = @ + Len(written), !.fence = IF lease.run = r THEN lease.fence ELSE @]

\* The call with the snapshot that it gets back.
Stored(n, r, new, written) == [n EXCEPT !.snap = StoredSnap(r, new, written)]

\* It is the row, and if the call has a claim, it is that of the lease.
LEMMA SavedSnap ==
  ASSUME NEW c, NEW r, NEW new, NEW written, Saving(c, r, new, written),
         NEW n, NextFits(c, r, new, written, n), NEW h, h = StoredSnap(r, new, written)
  PROVE  /\ SnapFits(r, h) /\ h.state = new.state /\ h.steps = new.steps /\ h.fence <= lease.fence
         /\ h.seen = Len(row'[r].receipts)
         /\ (n.claim # 0 /\ n.pc # "release") => h.fence = n.claim /\ new.fence = n.claim
<1>a. PartsAgree(c, r, new)
  BY SavedParts
<1>b. RowIs(r, new, written)
  BY SavedRow
<1>1. Sound /\ r \in Runs /\ SnapFits(r, new) /\ CallAgrees(calls[c]) /\ new.fence = Snap(c).fence
  BY <1>a, CallFacts DEF Saving, SaveFits, PartsAgree
<1>2. lease.fence \in 0 .. MaxFence /\ MaxFence \in Nat /\ Len(row[r].receipts) \in Nat
  BY <1>1, RunFacts
<1>3. new.seen = Len(row[r].receipts) /\ new.seen \in Nat /\ new.fence \in 0 .. MaxFence
  BY <1>1, <1>a DEF PartsAgree, SnapFits
<1>4. new.seen + Len(written) = Len(row'[r].receipts) /\ Len(row'[r].receipts) \in Nat
  <2>1. CASE written = <<>>
    BY <1>2, <1>3, <1>b, <2>1 DEF RowIs
  <2>2. CASE \E x : written = <<x>> /\ Len(row'[r].receipts) = Len(row[r].receipts) + 1
    BY <1>2, <1>3, <2>2
  <2> QED
    BY <1>b, <2>1, <2>2 DEF RowIs
<1>5. PICK f : f = IF lease.run = r THEN lease.fence ELSE new.fence
  OBVIOUS
<1>6. f \in 0 .. MaxFence /\ f <= lease.fence
  <2>1. new.fence <= lease.fence
    BY <1>1 DEF CallAgrees, Snap
  <2> QED
    BY <1>2, <1>3, <1>5, <2>1
<1>7. h = [new EXCEPT !.seen = new.seen + Len(written), !.fence = f]
  BY <1>5 DEF StoredSnap
<1>8. h = [state |-> new.state, steps |-> new.steps, seen |-> new.seen + Len(written), fence |-> f]
  BY <1>1, <1>7 DEF SnapFits
<1>9. SnapFits(r, h)
  BY <1>1, <1>4, <1>6, <1>8 DEF SnapFits
<1>10. ASSUME n.claim # 0, n.pc # "release" PROVE f = n.claim /\ new.fence = n.claim
  <2>1. new.fence = n.claim
    BY <1>10 DEF NextFits, CallFits
  <2>2. n.claim <= lease.fence
    BY <1>1 DEF NextFits, CallAgrees
  <2>3. lease.run = r => new.fence >= lease.fence
    <3>1. ASSUME lease.run = r PROVE new.fence >= lease.fence
      <4>1. Hydrated(r).fence = lease.fence
        BY <3>1 DEF Hydrated, HydratedFence
      <4>2. lease.fence # 0
        BY <1>1, <3>1 DEF Sound, IInv, LeaseFits, NoRun, Runs
      <4>3. Hydrated(r).fence # 0 /\ new.fence # 0 => new.fence >= Hydrated(r).fence
        BY DEF Saving, Storable
      <4> QED
        BY <1>10, <2>1, <4>1, <4>2, <4>3
    <3> QED
      BY <3>1
  <2> QED
    BY <1>2, <1>3, <1>5, <2>1, <2>2, <2>3
<1> QED
  BY <1>4, <1>6, <1>8, <1>9, <1>10

\* The call fits, with its run as it is now.
LEMMA SavedCall ==
  ASSUME NEW c, NEW r, NEW new, NEW written, Saving(c, r, new, written),
         NEW n, NextFits(c, r, new, written, n), NEW m, m = Stored(n, r, new, written)
  PROVE  CallFits(m) /\ CallAgrees(m)' /\ m.pc = n.pc /\ m.claim = n.claim
<1>a. PartsAgree(c, r, new)
  BY SavedParts
<1>b. RowIs(r, new, written)
  BY SavedRow
<1>1. Sound /\ r \in Runs /\ CallAgrees(calls[c]) /\ calls[c].run = r /\ ~At(c, "release")
  BY <1>a, CallFacts DEF Saving, PartsAgree, RunOf
<1>2. PICK h : h = StoredSnap(r, new, written)
  OBVIOUS
<1>3. /\ SnapFits(r, h) /\ h.state = new.state /\ h.steps = new.steps /\ h.fence <= lease.fence
      /\ h.seen = Len(row'[r].receipts)
      /\ (n.claim # 0 /\ n.pc # "release") => h.fence = n.claim /\ new.fence = n.claim
  BY <1>2, SavedSnap
<1>4. CallFits(n) /\ n.run = r /\ n.claim = calls[c].claim /\ n.snap = new
  BY DEF NextFits
<1>5. /\ m.pc = n.pc /\ m.run = r /\ m.step = n.step /\ m.claim = n.claim /\ m.evidence = n.evidence
      /\ m.snap = h
      /\ m = [pc |-> m.pc, run |-> m.run, step |-> m.step, claim |-> m.claim,
              evidence |-> m.evidence, snap |-> m.snap]
  BY <1>2, <1>4 DEF CallFits, Stored
<1>6. CallFits(m)
  BY <1>3, <1>4, <1>5 DEF CallFits
<1>7. /\ row'[r].state = new.state /\ row'[r].steps = new.steps /\ Len(row'[r].receipts) \in Nat
      /\ lease' = lease /\ target' = target
  BY <1>b DEF RowIs, Saving
<1>8. lease.fence \in Nat /\ StepsOf[r] \in Nat /\ MaxFence \in Nat
  <2>1. lease.fence \in 0 .. MaxFence /\ MaxFence \in Nat /\ StepsOf[r] \in Nat
    BY <1>1, RunFacts
  <2> QED
    BY <2>1
<1>9. /\ Rank[new.state] <= Rank[row'[r].state]
      /\ \A s \in 1 .. StepsOf[r] : StepRank[new.steps[s]] <= StepRank[row'[r].steps[s]]
  <2>1. new.state \in States /\ new.steps \in [1 .. StepsOf[r] -> StepStates]
    BY DEF Saving, SaveFits, SnapFits, StepMap
  <2>2. Rank[new.state] \in Nat
    BY <2>1, MovesGoUp
  <2>3. ASSUME NEW s \in 1 .. StepsOf[r] PROVE StepRank[new.steps[s]] \in Nat
    <3>1. new.steps[s] \in StepStates
      BY <2>1
    <3> QED
      BY <3>1, MovesGoUp
  <2> QED
    BY <1>7, <2>2, <2>3
<1>10. ASSUME m.claim # 0, m.pc # "release", NEW f \in Written(r)'
       PROVE  f <= m.claim
  <2>1. f \in Written(r) \/ f = 0 \/ f = new.fence
    BY <1>10, SavedFences
  <2>2. f \in Written(r) => f <= calls[c].claim
    <3>1. Snap(c).seen = Len(row[r].receipts)
      BY <1>a DEF PartsAgree, Saving, SaveFits
    <3> QED
      BY <1>1, <1>4, <1>5, <1>10, <3>1 DEF CallAgrees, Snap, At
  <2>3. new.fence = m.claim /\ m.claim \in 0 .. MaxFence
    BY <1>3, <1>5, <1>6, <1>10 DEF CallFits
  <2> QED
    BY <1>4, <1>5, <1>8, <2>1, <2>2, <2>3
<1>11. OnwardOf(r, {})
  BY <1>1, SavedOnward DEF Onward
<1>12. m.pc \in Restoring => ~Open(r)'
  BY <1>1, <1>5, <1>11 DEF NextFits, OnwardOf, CallAgrees
<1>13. Open(r)' => \A s \in 1 .. StepsOf[r] : m.snap.steps[s] = "succeeded" => target'[r][s] # <<>>
  <2>1. Open(r)' => Open(r) /\ new.state \notin Undone
    BY <1>7, <1>11 DEF OnwardOf, Open
  <2> QED
    BY <1>3, <1>5, <1>7, <2>1 DEF Saving, SaveFits
<1>14. ASSUME m.pc \in Verifying \cup {"succeed"}, NEW s \in 1 .. StepsOf[r], m.snap.steps[s] = "succeeded",
              ~(m.pc = "verified" /\ s = m.step)
       PROVE  Seen(row'[r].receipts, s)
  <2>1. \/ Seen(row[r].receipts, s)
        \/ \E x : written = <<x>> /\ x.kind = "verify" /\ x.ok /\ x.step = s
    BY <1>3, <1>5, <1>14 DEF NextFits
  <2>2. Len(row[r].receipts) \in Nat
    BY <1>1, RunFacts
  <2>3. CASE Seen(row[r].receipts, s)
    BY <1>b, <2>2, <2>3, SeenStays DEF RowIs
  <2>4. ASSUME NEW x, written = <<x>>, x.kind = "verify", x.ok, x.step = s
        PROVE  Seen(row'[r].receipts, s)
    <3>1. written # <<>> /\ \A w : written = <<w>> => w = x
      BY <2>4
    <3>2. row'[r].receipts[Len(row[r].receipts) + 1] = x /\ Len(row'[r].receipts) = Len(row[r].receipts) + 1
      BY <1>b, <3>1 DEF RowIs
    <3>3. Len(row[r].receipts) + 1 \in 1 .. Len(row'[r].receipts)
      BY <2>2, <3>2
    <3> QED
      BY <2>4, <3>2, <3>3, Zenon DEF Seen
  <2> QED
    BY <2>1, <2>3, <2>4
<1>15. \A s \in Unexecuted(m) : m.claim \notin Under(r, s)'
  <2>1. Unexecuted(m) = Unexecuted(n)
    BY <1>4, <1>5, Zenon DEF Unexecuted
  <2> QED
    BY <1>5, <1>7, <2>1 DEF NextFits, Under
<1>16. m.pc \notin {"verify2", "recover"} /\ m.claim <= lease.fence
  BY <1>1, <1>4, <1>5 DEF NextFits, CallAgrees
<1>17. m.snap.seen <= Len(row'[r].receipts)
  BY <1>3, <1>5, <1>7
<1>18. CallAgrees(m)'
  BY <1>3, <1>5, <1>7, <1>9, <1>10, <1>12, <1>13, <1>14, <1>15, <1>16, <1>17 DEF CallAgrees
<1> QED
  BY <1>5, <1>6, <1>18

\* The fields of a call that goes on.
LEMMA Going ==
  ASSUME NEW m, CallFits(m), NEW p, NEW s, NEW new, NEW n, n = [m EXCEPT !.pc = p, !.step = s, !.snap = new]
  PROVE  /\ n = [pc |-> n.pc, run |-> n.run, step |-> n.step, claim |-> n.claim,
                 evidence |-> n.evidence, snap |-> n.snap]
         /\ n.pc = p /\ n.run = m.run /\ n.step = s /\ n.claim = m.claim /\ n.snap = new
         /\ n.evidence = m.evidence
         /\ \A h : [n EXCEPT !.snap = h] = [m EXCEPT !.pc = p, !.step = s, !.snap = h]
<1>1. PICK a, b, d, e, f, g : m = [pc |-> a, run |-> b, step |-> d, claim |-> e, evidence |-> f, snap |-> g]
  BY DEF CallFits
<1>2. n = [pc |-> p, run |-> b, step |-> s, claim |-> e, evidence |-> f, snap |-> new]
  BY <1>1
<1>3. ASSUME NEW h PROVE [n EXCEPT !.snap = h] = [m EXCEPT !.pc = p, !.step = s, !.snap = h]
  <2>1. PICK x, y : x = [n EXCEPT !.snap = h] /\ y = [m EXCEPT !.pc = p, !.step = s, !.snap = h]
    OBVIOUS
  <2>2. x = [pc |-> p, run |-> b, step |-> s, claim |-> e, evidence |-> f, snap |-> h]
    BY <1>2, <2>1
  <2>3. y = [pc |-> p, run |-> b, step |-> s, claim |-> e, evidence |-> f, snap |-> h]
    BY <1>1, <2>1
  <2> QED
    BY <2>1, <2>2, <2>3
<1> QED
  BY <1>1, <1>2, <1>3

\* A call that stores a snapshot that fits, and goes on where it may.
Gone(c, new, then) == [calls[c] EXCEPT !.pc = then.pc, !.step = then.step, !.snap = new]

\* A save of such a call keeps the invariant, and orderly.
LEMMA StoreKeeps ==
  ASSUME Sound, NEW c \in Calls, ~At(c, "idle"), ~At(c, "release"), NEW r, r = RunOf(c),
         NEW new, NEW written, NEW then, Store(c, new, written, then), Storable(r, new, written),
         SaveFits(c, r, new, written),
         NEW n, n = Gone(c, new, then),
         then.pc = "idle" \/ NextFits(c, r, new, written, n)
  PROVE  IInv' /\ Orderly
<1>1. Saving(c, r, new, written)
  BY DEF Saving, Store
<1>2. PICK h : h = StoredSnap(r, new, written)
  OBVIOUS
<1>3. PICK m : m = IF then.pc = "idle" THEN Idle ELSE [calls[c] EXCEPT !.pc = then.pc, !.step = then.step, !.snap = h]
  OBVIOUS
<1>4. calls' = [calls EXCEPT ![c] = m]
  <2>1. calls' = [calls EXCEPT ![c] =
                    IF then.pc = "idle" THEN Idle
                    ELSE [@ EXCEPT !.pc = then.pc, !.step = then.step, !.snap = h]]
    BY <1>2 DEF Store, StoredSnap
  <2> QED
    BY <1>3, <2>1
<1>5. \/ m = Idle
      \/ /\ NextFits(c, r, new, written, n) /\ CallFits(m) /\ CallAgrees(m)'
         /\ m.pc = n.pc /\ m.claim = n.claim
  <2>1. CASE then.pc = "idle"
    BY <1>3, <2>1
  <2>2. CASE then.pc # "idle"
    <3>1. m = Stored(n, r, new, written)
      <4>1. PICK old : old = calls[c]
        OBVIOUS
      <4>2. CallFits(old)
        BY <4>1, CallFacts
      <4> QED
        BY <1>2, <1>3, <2>2, <4>1, <4>2, Going DEF Stored, Gone
    <3>2. NextFits(c, r, new, written, n)
      BY <2>2
    <3>3. CallFits(m) /\ CallAgrees(m)' /\ m.pc = n.pc /\ m.claim = n.claim
      BY <1>1, <3>1, <3>2, SavedCall
    <3> QED
      BY <3>2, <3>3
  <2> QED
    BY <2>1, <2>2
<1>6. m.pc \in Applying => calls[c].pc \in Applying /\ calls[c].claim = m.claim
  BY <1>5 DEF NextFits, Idle, Applying, Executing, Executed
<1>7. m.pc \in Applying => \A d \in Calls \ {c} : calls[d].pc \in Applying => calls[d].claim # m.claim
  BY <1>6 DEF Sound, IInv, ClaimsDiffer
<1>8. row' = [q \in Runs |-> row'[q]] /\ \A q \in Runs : RowFits(q, row[q])'
  BY <1>1, SavedRow, SavedRowFits DEF RowIs
<1>9. /\ LeaseFits' /\ TargetFits' /\ target' = [q \in Runs |-> target'[q]]
      /\ lapsed' \subseteq Lapsing /\ left' \in [Runs -> [Operations -> Nat]]
  BY <1>1, SavedLease
<1>10. Onward({})
  BY <1>1, SavedOnward
<1>11. m = Idle \/ (CallFits(m) /\ CallAgrees(m)')
  BY <1>5
<1>12. IInv'
  BY <1>4, <1>7, <1>8, <1>9, <1>10, <1>11, StepKeeps
<1> QED
  BY <1>1, <1>4, <1>12, SavedOrder

\* Or ends, because its snapshot cannot be stored.
LEMMA SaveKeeps ==
  ASSUME Sound, NEW c \in Calls, ~At(c, "idle"), ~At(c, "release"), NEW r, r = RunOf(c),
         NEW new, NEW written, NEW then, Save(c, new, written, then), SaveFits(c, r, new, written),
         NEW n, n = Gone(c, new, then),
         then.pc = "idle" \/ NextFits(c, r, new, written, n)
  PROVE  IInv' /\ Orderly
BY StoreKeeps, EndKeeps DEF Save

\* The call as it goes on.
LEMMA GoneIs ==
  ASSUME Sound, NEW c \in Calls, ~At(c, "idle"), NEW new, NEW then, NEW n, n = Gone(c, new, then)
  PROVE  /\ n = [pc |-> n.pc, run |-> n.run, step |-> n.step, claim |-> n.claim,
                 evidence |-> n.evidence, snap |-> n.snap]
         /\ n.pc = then.pc /\ n.run = RunOf(c) /\ n.step = then.step /\ n.claim = calls[c].claim
         /\ n.snap = new /\ n.evidence = calls[c].evidence
<1>1. PICK m : m = calls[c]
  OBVIOUS
<1>2. PICK a, b, d, e, f, g : m = [pc |-> a, run |-> b, step |-> d, claim |-> e, evidence |-> f, snap |-> g]
  <2>1. CallFits(m)
    BY <1>1, CallFacts
  <2> QED
    BY <2>1 DEF CallFits
<1>3. n = [m EXCEPT !.pc = then.pc, !.step = then.step, !.snap = new]
  BY <1>1 DEF Gone
<1>4. n = [pc |-> then.pc, run |-> b, step |-> then.step, claim |-> e, evidence |-> f, snap |-> new]
  BY <1>2, <1>3
<1> QED
  BY <1>1, <1>2, <1>4 DEF RunOf

\* A snapshot in its next state.
LEMMA InStateIs ==
  ASSUME Sound, NEW c \in Calls, ~At(c, "idle"), NEW r, r = RunOf(c), NEW state \in States,
         StepsFit(state, Snap(c).steps), NEW new, new = InState(c, state)
  PROVE  /\ SnapFits(r, new) /\ new.state = state /\ new.steps = Snap(c).steps
         /\ new.seen = Snap(c).seen /\ new.fence = Snap(c).fence
<1>1. PICK a, b, d, e : Snap(c) = [state |-> a, steps |-> b, seen |-> d, fence |-> e]
  BY CallFacts DEF SnapFits
<1>2. new = [state |-> state, steps |-> b, seen |-> d, fence |-> e]
  BY <1>1 DEF InState
<1>3. SnapFits(r, Snap(c))
  BY CallFacts
<1> QED
  BY <1>1, <1>2, <1>3 DEF SnapFits

\* A snapshot with its step in the next state.
LEMMA InStepIs ==
  ASSUME Sound, NEW c \in Calls, ~At(c, "idle"), NEW r, r = RunOf(c), NEW state \in StepStates,
         NEW s, s = StepOf(c), s \in 1 .. StepsOf[r], state # "compensated", Snap(c).state # "succeeded",
         state = "succeeded" => Snap(c).state = "verifying",
         NEW new, new = InStep(c, state)
  PROVE  /\ SnapFits(r, new) /\ new.state = Snap(c).state
         /\ new.seen = Snap(c).seen /\ new.fence = Snap(c).fence
         /\ new.steps[s] = state /\ \A q \in 1 .. StepsOf[r] : q # s => new.steps[q] = Snap(c).steps[q]
<1>1. PICK a, b, d, e : Snap(c) = [state |-> a, steps |-> b, seen |-> d, fence |-> e]
  BY CallFacts DEF SnapFits
<1>2. PICK b2 : b2 = [b EXCEPT ![s] = state]
  OBVIOUS
<1>3. new = [state |-> a, steps |-> b2, seen |-> d, fence |-> e]
  BY <1>1, <1>2 DEF InStep
<1>4. SnapFits(r, Snap(c)) /\ b \in [1 .. StepsOf[r] -> StepStates]
  BY <1>1, CallFacts DEF SnapFits, StepMap
<1>5. /\ b2 \in [1 .. StepsOf[r] -> StepStates] /\ b2[s] = state
      /\ \A q \in 1 .. StepsOf[r] : q # s => b2[q] = b[q]
  BY <1>2, <1>4
<1>6. StepsFit(a, b2)
  <2>1. StepsFit(a, b) /\ DOMAIN b = 1 .. StepsOf[r] /\ DOMAIN b2 = 1 .. StepsOf[r]
    BY <1>1, <1>4, <1>5 DEF SnapFits
  <2>2. a # "succeeded" /\ (state = "succeeded" => a = "verifying")
    BY <1>1
  <2>3. ASSUME NEW q \in 1 .. StepsOf[r]
        PROVE  /\ b2[q] = "compensated" => a \in Undone
               /\ b2[q] = "succeeded" => a \in (Undone \ {"rolled_back"}) \cup {"verifying", "succeeded"}
    <3>1. CASE q = s
      BY <1>5, <2>2, <3>1
    <3>2. CASE q # s
      BY <1>5, <2>1, <3>2 DEF StepsFit
    <3> QED
      BY <3>1, <3>2
  <2> QED
    BY <2>1, <2>2, <2>3 DEF StepsFit
<1> QED
  BY <1>1, <1>3, <1>4, <1>5, <1>6 DEF SnapFits, StepMap

\* The steps of a run that is not rolled back do not keep it from being undone.
LEMMA UndoneFits ==
  ASSUME NEW a \in States, NEW steps, StepsFit(a, steps), NEW b \in Undone \ {"rolled_back"}
  PROVE  StepsFit(b, steps)
BY DEF StepsFit, Undone

\* A receipt of the call.
LEMMA ReceiptIs ==
  ASSUME Sound, NEW c \in Calls, ~At(c, "idle"), NEW kind \in WriteLike \cup {"approval", "run"}, NEW ok \in BOOLEAN,
         NEW step \in Nat, NEW fence, NEW new, new.fence = Snap(c).fence,
         IF kind \in WriteLike THEN fence = Snap(c).fence /\ new.state \notin {"succeeded", "blocked"} ELSE fence = 0,
         NEW x, x = Receipt(kind, ok, step, fence)
  PROVE  ReceiptFits(x, new) /\ x.kind = kind /\ x.ok = ok /\ x.step = step /\ x.fence = fence
<1>1. fence \in 0 .. MaxFence
  <2>1. Snap(c).fence \in 0 .. MaxFence /\ MaxFence \in Nat
    BY CallFacts DEF Sound, JournalAssumption
  <2> QED
    BY <2>1
<1>2. x = [kind |-> kind, ok |-> ok, step |-> step, fence |-> fence, condition |-> "none"]
  BY DEF Receipt
<1>3. x \in Receipts
  BY <1>1, <1>2 DEF Receipts
<1> QED
  BY <1>2, <1>3 DEF ReceiptFits

\* A receipt of a decision, and one of a write.
LEMMA DecisionIs ==
  ASSUME Sound, NEW c \in Calls, ~At(c, "idle"), NEW kind \in {"approval", "run"}, NEW ok \in BOOLEAN,
         NEW new, new.fence = Snap(c).fence, NEW x, x = Receipt(kind, ok, 0, 0)
  PROVE  ReceiptFits(x, new) /\ x.kind = kind /\ x.ok = ok /\ x.fence = 0
<1>1. kind \in WriteLike \cup {"approval", "run"} /\ kind \notin WriteLike
  BY DEF WriteLike
<1> QED
  BY <1>1, ReceiptIs

\* A receipt of evidence fits a snapshot that is not over.
LEMMA EvidenceIs ==
  ASSUME Sound, NEW c \in Calls, ~At(c, "idle"), NEW kind \in {"apply", "verify", "rollback"}, NEW ok \in BOOLEAN,
         NEW step \in Nat, NEW new, new.fence = Snap(c).fence, new.state \notin {"succeeded", "blocked"},
         NEW x, x = Receipt(kind, ok, step, Snap(c).fence)
  PROVE  ReceiptFits(x, new) /\ x.kind = kind /\ x.ok = ok /\ x.step = step
<1>1. kind \in WriteLike \cup {"approval", "run"} /\ kind \in WriteLike
  BY DEF WriteLike
<1> QED
  BY <1>1, ReceiptIs

\* A snapshot that differs in its state at most may be stored, if it does not approve the
\* run or let it succeed.
LEMMA StateSaves ==
  ASSUME Sound, NEW c \in Calls, ~At(c, "idle"), NEW r, r = RunOf(c),
         NEW new, SnapFits(r, new), new.seen = Snap(c).seen, new.fence = Snap(c).fence,
         new.steps = Snap(c).steps, new.state = Snap(c).state \/ new.state \notin {"approved", "succeeded"},
         NEW written, written = <<>> \/ \E x : ReceiptFits(x, new) /\ written = <<x>>
  PROVE  SaveFits(c, r, new, written)
<1>1. Open(r) => \A s \in 1 .. StepsOf[r] : new.steps[s] = "succeeded" => target[r][s] # <<>>
  BY CallFacts DEF CallAgrees, Snap, RunOf
<1> QED
  BY <1>1 DEF SaveFits

\* A call that is not at work on the steps of a plan may go on anywhere else.
LEMMA NextIsPlain ==
  ASSUME Sound, NEW c \in Calls, ~At(c, "idle"), NEW r, r = RunOf(c),
         NEW new, NEW written, NEW then, NEW n, n = Gone(c, new, then), CallFits(n),
         then.pc \notin Applying \cup Verifying \cup {"succeed", "recover"},
         then.pc \in Restoring => calls[c].pc \in Restoring
  PROVE  NextFits(c, r, new, written, n)
<1>1. n.pc = then.pc /\ n.run = r /\ n.claim = calls[c].claim /\ n.snap = new
  BY GoneIs
<1>2. Unexecuted(n) = {}
  BY <1>1 DEF Unexecuted, Applying, Executing, Executed
<1>3. n.pc # "verify2"
  BY <1>1 DEF Verifying
<1> QED
  BY <1>1, <1>2, <1>3 DEF NextFits

\* Where a call goes on to with its run not at work, or ends.
Plain == {"accept", "undo", "release", "beforeRollback", "rolling", "failed", "finalize", "blocking",
          "unverified", "mismatched", "unrestorable", "compensated", "verifying"}

\* What such a point needs.
PlainNeeds(c, new, then) ==
  /\ then.pc \in Plain /\ then.step \in {StepOf(c), 0}
  /\ then.pc = "verifying" => new.state = "applying"
  /\ then.pc = "accept" => new.state = "awaiting_approval"
  /\ then.pc \in {"undo", "mismatched", "unverified"} => new.state = "verifying"
  /\ then.pc \in {"mismatched", "unverified"} => then.step \in 1 .. StepsOf[RunOf(c)]
  /\ then.pc = "failed" => new.state = "rollback_failed"
  /\ then.pc = "compensated" => new.state = "rolled_back"
  /\ then.pc \in {"beforeRollback", "rolling"} => calls[c].pc \in Restoring

\* A call at a plain point fits whatever it stored.
LEMMA PlainFits ==
  ASSUME Sound, NEW c \in Calls, ~At(c, "idle"), ~At(c, "release"), NEW r, r = RunOf(c),
         NEW new, SnapFits(r, new), new.fence = Snap(c).fence,
         NEW written, NEW then, PlainNeeds(c, new, then), NEW n, n = Gone(c, new, then)
  PROVE  NextFits(c, r, new, written, n)
<1>1. /\ n = [pc |-> n.pc, run |-> n.run, step |-> n.step, claim |-> n.claim,
              evidence |-> n.evidence, snap |-> n.snap]
      /\ n.pc = then.pc /\ n.run = r /\ n.step = then.step /\ n.claim = calls[c].claim /\ n.snap = new
  BY GoneIs
<1>2. /\ CallFits(calls[c]) /\ r \in Runs /\ StepOf(c) \in Nat /\ calls[c].claim \in 0 .. MaxFence
      /\ then.pc \in Plain
  BY CallFacts DEF PlainNeeds
<1>3. then.pc \notin Applying \cup Verifying \cup {"succeed", "recover", "await", "claim", "evidence"}
  BY <1>2 DEF Plain, Applying, Executing, Executed, Verifying
<1>4. calls[c].claim # 0 => new.fence = calls[c].claim
  BY <1>2 DEF CallFits, Snap, At
<1>5. CallFits(n)
  <2>1. n.pc \in Points
    BY <1>1, <1>2 DEF Plain, Points, Mismatching, Restoring
  <2>2. n.pc \notin Executing \cup Executed
    BY <1>1, <1>3 DEF Applying
  <2>3. n.pc # "verified"
    BY <1>1, <1>3 DEF Verifying
  <2>4. n.pc \notin {"enter", "prepare", "begin"}
    BY <1>1, <1>3 DEF Applying
  <2>5. n.pc \in Mismatching => /\ n.pc \in {"mismatched", "unverified"}
    BY <1>1, <1>2 DEF Plain, Mismatching
  <2>6. n.step \in Nat
    BY <1>1, <1>2 DEF PlainNeeds
  <2> QED
    BY <1>1, <1>2, <1>3, <1>4, <2>1, <2>2, <2>3, <2>4, <2>5, <2>6 DEF CallFits, PlainNeeds
<1>6. then.pc \in Restoring => calls[c].pc \in Restoring
  BY <1>2 DEF PlainNeeds, Plain, Restoring
<1> QED
  BY <1>3, <1>5, <1>6, NextIsPlain

\* A snapshot stored with its steps as they are.
LEMMA PlainSaveKeeps ==
  ASSUME Sound, NEW c \in Calls, ~At(c, "idle"), ~At(c, "release"), NEW r, r = RunOf(c),
         NEW new, SnapFits(r, new), new.seen = Snap(c).seen, new.fence = Snap(c).fence,
         new.steps = Snap(c).steps, new.state = Snap(c).state \/ new.state \notin {"approved", "succeeded"},
         NEW written, written = <<>> \/ \E x : ReceiptFits(x, new) /\ written = <<x>>,
         NEW then, then.pc = "idle" \/ PlainNeeds(c, new, then), Save(c, new, written, then)
  PROVE  IInv' /\ Orderly
<1>1. SaveFits(c, r, new, written)
  BY StateSaves
<1>2. then.pc = "idle" \/ NextFits(c, r, new, written, Gone(c, new, then))
  BY PlainFits
<1> QED
  BY <1>1, <1>2, SaveKeeps

\* A state stored alone.
LEMMA StateSaveKeeps ==
  ASSUME Sound, NEW c \in Calls, ~At(c, "idle"), NEW p, NEW state \in States, NEW q,
         Journal(c, p, InState(c, state), q), p # "release",
         StepsFit(state, Snap(c).steps), state \notin {"approved", "succeeded"},
         \A new, then : (new.state = state /\ then = To(c, q)) => PlainNeeds(c, new, then)
  PROVE  IInv' /\ Orderly
<1>1. PICK new, then : new = InState(c, state) /\ then = To(c, q)
  OBVIOUS
<1>2. Save(c, new, <<>>, then) /\ ~At(c, "release")
  BY <1>1 DEF Journal, At
<1>3. /\ SnapFits(RunOf(c), new) /\ new.state = state /\ new.steps = Snap(c).steps
      /\ new.seen = Snap(c).seen /\ new.fence = Snap(c).fence
  BY <1>1, InStateIs
<1> QED
  BY <1>1, <1>2, <1>3, PlainSaveKeeps

\* What a call knows at its points.
LEMMA PointFacts ==
  ASSUME Sound, NEW c \in Calls, ~At(c, "idle")
  PROVE  /\ StepsFit(Snap(c).state, Snap(c).steps)
         /\ \A state \in Undone \ {"rolled_back"} : StepsFit(state, Snap(c).steps)
         /\ At(c, "await") => Snap(c).state = "drafted"
         /\ At(c, "accept") => Snap(c).state = "awaiting_approval"
         /\ At(c, "failed") => Snap(c).state = "rollback_failed"
         /\ At(c, "compensated") => Snap(c).state = "rolled_back"
         /\ calls[c].pc \in {"verified", "unverify", "mismatched", "unverified", "undo"} => Snap(c).state = "verifying"
         /\ calls[c].pc \in {"verified", "unverify", "mismatched", "unverified"} => StepOf(c) \in 1 .. StepsOf[RunOf(c)]
<1>1. CallFits(calls[c]) /\ StepsFit(Snap(c).state, Snap(c).steps) /\ Snap(c).state \in States
  BY CallFacts DEF SnapFits
<1>2. \A state \in Undone \ {"rolled_back"} : StepsFit(state, Snap(c).steps)
  BY <1>1, UndoneFits
<1> QED
  BY <1>1, <1>2 DEF CallFits, Snap, At, StepOf, RunOf, Verifying, Mismatching

\* approve.
LEMMA ApprovalKeeps ==
  ASSUME Sound, NEW c \in Calls, Approval(c)
  PROVE  IInv' /\ Orderly
<1>1. CASE AwaitApproval(c)
  <2>1. At(c, "await") /\ ~At(c, "idle")
    BY <1>1 DEF AwaitApproval, Journal, At
  <2>2. StepsFit("awaiting_approval", Snap(c).steps) /\ "awaiting_approval" \in States
    BY <2>1, PointFacts DEF StepsFit, Undone, States
  <2>3. \A new, then : (new.state = "awaiting_approval" /\ then = To(c, "accept")) => PlainNeeds(c, new, then)
    BY DEF PlainNeeds, To, Plain
  <2> QED
    BY <1>1, <2>1, <2>2, <2>3, StateSaveKeeps DEF AwaitApproval
<1>2. CASE Accept(c)
  <2>1. At(c, "accept") /\ ~At(c, "idle") /\ ~At(c, "release")
    BY <1>2 DEF Accept, At
  <2>2. PICK r, new, x, then : r = RunOf(c) /\ new = InState(c, "approved") /\ x = Receipt("approval", TRUE, 0, 0) /\ then = To(c, "idle")
    OBVIOUS
  <2>3. StepsFit("approved", Snap(c).steps) /\ "approved" \in States
    BY <2>1, PointFacts DEF StepsFit, Undone, States, Ready
  <2>4. /\ SnapFits(r, new) /\ new.state = "approved" /\ new.steps = Snap(c).steps
        /\ new.seen = Snap(c).seen /\ new.fence = Snap(c).fence
    BY <2>1, <2>2, <2>3, InStateIs
  <2>5. ReceiptFits(x, new) /\ x.fence = 0
    BY <2>1, <2>2, <2>4, DecisionIs
  <2>6. Open(r) => \A s \in 1 .. StepsOf[r] : new.steps[s] = "succeeded" => target[r][s] # <<>>
    BY <2>1, <2>2, <2>4, CallFacts DEF CallAgrees, Snap, RunOf
  <2>7. SaveFits(c, r, new, <<x>>)
    BY <2>4, <2>5, <2>6 DEF SaveFits
  <2>8. Save(c, new, <<x>>, then) /\ then.pc = "idle"
    BY <1>2, <2>2 DEF Accept, To
  <2> QED
    BY <2>1, <2>2, <2>7, <2>8, SaveKeeps
<1> QED
  BY <1>1, <1>2 DEF Approval

\* Evidence of a write is stored, or the call gives up.
LEMMA SaveLeasedKeeps ==
  ASSUME Sound, NEW c \in Calls, ~At(c, "idle"), ~At(c, "release"), NEW x, NEW then,
         SaveLeased(c, x, then), Save(c, Snap(c), <<x>>, then) => (IInv' /\ Orderly)
  PROVE  IInv' /\ Orderly
<1>1. Save(c, Snap(c), <<x>>, then) \/ End(c) \/ Go(c, "block")
  BY DEF SaveLeased
<1>2. Go(c, "block") => (IInv' /\ Orderly)
  BY GoKeeps
<1> QED
  BY <1>1, <1>2, EndKeeps

\* A receipt of a write stored with the snapshot as it is.
LEMMA EvidenceSaveKeeps ==
  ASSUME Sound, NEW c \in Calls, ~At(c, "idle"), ~At(c, "release"), Snap(c).state \notin {"succeeded", "blocked"},
         NEW kind \in {"verify", "rollback"}, NEW ok \in BOOLEAN, NEW step \in Nat,
         NEW x, x = Receipt(kind, ok, step, Snap(c).fence), NEW then, PlainNeeds(c, Snap(c), then),
         Save(c, Snap(c), <<x>>, then)
  PROVE  IInv' /\ Orderly
<1>1. SnapFits(RunOf(c), Snap(c)) /\ ReceiptFits(x, Snap(c))
  BY CallFacts, EvidenceIs
<1> QED
  BY <1>1, PlainSaveKeeps

\* What only writes the journal keeps the invariant: the receipt of a failed verification,
LEMMA UnverifiedReceiptKeeps ==
  ASSUME Sound, NEW c \in Calls, UnverifiedReceipt(c)
  PROVE  IInv' /\ Orderly
<1>1. At(c, "unverified") /\ ~At(c, "idle") /\ ~At(c, "release")
  BY DEF UnverifiedReceipt, At
<1>2. PICK x, then : x = Receipt("verify", FALSE, StepOf(c), Snap(c).fence) /\ then = To(c, "undo")
  OBVIOUS
<1>3. Snap(c).state = "verifying" /\ StepOf(c) \in Nat
  BY <1>1, PointFacts, CallFacts DEF At
<1>4. PlainNeeds(c, Snap(c), then)
  BY <1>2, <1>3 DEF PlainNeeds, To, Plain
<1>5. Save(c, Snap(c), <<x>>, then) => (IInv' /\ Orderly)
  BY <1>1, <1>2, <1>3, <1>4, EvidenceSaveKeeps
<1> QED
  BY <1>1, <1>2, <1>5, SaveLeasedKeeps DEF UnverifiedReceipt

\* the state that asks for a rollback,
LEMMA RequireRollbackKeeps ==
  ASSUME Sound, NEW c \in Calls, RequireRollback(c)
  PROVE  IInv' /\ Orderly
<1>1. At(c, "undo") /\ ~At(c, "idle")
  BY DEF RequireRollback, Journal, At
<1>2. StepsFit("rollback_required", Snap(c).steps) /\ "rollback_required" \in States
  BY <1>1, PointFacts DEF Undone, States
<1>3. \A new, then : (new.state = "rollback_required" /\ then = To(c, "release")) => PlainNeeds(c, new, then)
  BY DEF PlainNeeds, To, Plain
<1> QED
  BY <1>1, <1>2, <1>3, StateSaveKeeps DEF RequireRollback

\* the lease that a rollback takes over,
LEMMA AdoptLeaseKeeps ==
  ASSUME Sound, NEW c \in Calls, AdoptLease(c)
  PROVE  IInv' /\ Orderly
<1>1. At(c, "adopt") /\ ~At(c, "idle") /\ ~At(c, "release")
  BY DEF AdoptLease, Journal, At
<1>2. PICK then : then = To(c, "beforeRollback")
  OBVIOUS
<1>3. PlainNeeds(c, Snap(c), then)
  BY <1>1, <1>2 DEF PlainNeeds, To, Plain, At, Restoring
<1>4. Save(c, Snap(c), <<>>, then)
  BY <1>2 DEF AdoptLease, Journal
<1> QED
  BY <1>1, <1>3, <1>4, CallFacts, PlainSaveKeeps

\* the state of a rollback,
LEMMA RollKeeps ==
  ASSUME Sound, NEW c \in Calls, Roll(c)
  PROVE  IInv' /\ Orderly
<1>1. At(c, "roll") /\ ~At(c, "idle")
  BY DEF Roll, Journal, At
<1>2. StepsFit("rolling_back", Snap(c).steps) /\ "rolling_back" \in States
  BY <1>1, PointFacts DEF Undone, States
<1>3. \A new, then : (new.state = "rolling_back" /\ then = To(c, "rolling")) => PlainNeeds(c, new, then)
  BY <1>1 DEF PlainNeeds, To, Plain, At, Restoring
<1> QED
  BY <1>1, <1>2, <1>3, StateSaveKeeps DEF Roll

\* its failure,
LEMMA RollbackFailedKeeps ==
  ASSUME Sound, NEW c \in Calls, RollbackFailed(c)
  PROVE  IInv' /\ Orderly
<1>1. At(c, "unrestorable") /\ ~At(c, "idle")
  BY DEF RollbackFailed, Journal, At
<1>2. StepsFit("rollback_failed", Snap(c).steps) /\ "rollback_failed" \in States
  BY <1>1, PointFacts DEF Undone, States, Terminal
<1>3. \A new, then : (new.state = "rollback_failed" /\ then = To(c, "failed")) => PlainNeeds(c, new, then)
  BY DEF PlainNeeds, To, Plain
<1> QED
  BY <1>1, <1>2, <1>3, StateSaveKeeps DEF RollbackFailed

\* the receipt of its failure,
LEMMA RollbackFailedReceiptKeeps ==
  ASSUME Sound, NEW c \in Calls, RollbackFailedReceipt(c)
  PROVE  IInv' /\ Orderly
<1>1. At(c, "failed") /\ ~At(c, "idle") /\ ~At(c, "release")
  BY DEF RollbackFailedReceipt, At
<1>2. PICK x, then : x = Receipt("rollback", FALSE, 0, Snap(c).fence) /\ then = To(c, "release")
  OBVIOUS
<1>3. Snap(c).state = "rollback_failed"
  BY <1>1, PointFacts
<1>4. PlainNeeds(c, Snap(c), then)
  BY <1>2 DEF PlainNeeds, To, Plain
<1>5. Save(c, Snap(c), <<x>>, then)
  BY <1>2 DEF RollbackFailedReceipt
<1> QED
  BY <1>1, <1>2, <1>3, <1>4, <1>5, EvidenceSaveKeeps

\* the receipt of its success,
LEMMA RollbackReceiptKeeps ==
  ASSUME Sound, NEW c \in Calls, RollbackReceipt(c)
  PROVE  IInv' /\ Orderly
<1>1. At(c, "compensated") /\ ~At(c, "idle") /\ ~At(c, "release")
  BY DEF RollbackReceipt, At
<1>2. PICK x, then : x = Receipt("rollback", TRUE, 0, Snap(c).fence) /\ then = To(c, "finalize")
  OBVIOUS
<1>3. Snap(c).state = "rolled_back"
  BY <1>1, PointFacts
<1>4. PlainNeeds(c, Snap(c), then)
  BY <1>2 DEF PlainNeeds, To, Plain
<1>5. Save(c, Snap(c), <<x>>, then) => (IInv' /\ Orderly)
  BY <1>1, <1>2, <1>3, <1>4, EvidenceSaveKeeps
<1> QED
  BY <1>1, <1>2, <1>5, SaveLeasedKeeps DEF RollbackReceipt

\* the save on the way out of a failure,
LEMMA FailRunKeeps ==
  ASSUME Sound, NEW c \in Calls, FailRun(c)
  PROVE  IInv' /\ Orderly
<1>1. calls[c].pc \in {"block", "thrown", "unverify", "unrestored"} /\ ~At(c, "idle") /\ ~At(c, "release")
  BY DEF FailRun, Failing, At
<1>2. PICK then : then = To(c, Failing[calls[c].pc])
  OBVIOUS
<1>3. then.pc = "idle" \/ PlainNeeds(c, Snap(c), then)
  BY <1>1, <1>2, PointFacts DEF PlainNeeds, To, Plain, Failing
<1>4. Save(c, Snap(c), <<>>, then)
  BY <1>2 DEF FailRun
<1> QED
  BY <1>1, <1>3, <1>4, CallFacts, PlainSaveKeeps

\* the state of a blocked run,
LEMMA BlockKeeps ==
  ASSUME Sound, NEW c \in Calls, Block(c)
  PROVE  IInv' /\ Orderly
<1>1. At(c, "blocking") /\ ~At(c, "idle") /\ ~At(c, "release")
  BY DEF Block, At
<1>2. PICK new, x, then : new = InState(c, "blocked") /\ x = Receipt("run", FALSE, 0, 0) /\ then = To(c, "release")
  OBVIOUS
<1>3. StepsFit("blocked", Snap(c).steps) /\ "blocked" \in States
  BY <1>1, PointFacts DEF Undone, States, Terminal
<1>4. /\ SnapFits(RunOf(c), new) /\ new.state = "blocked" /\ new.steps = Snap(c).steps
      /\ new.seen = Snap(c).seen /\ new.fence = Snap(c).fence
  BY <1>1, <1>2, <1>3, InStateIs
<1>5. ReceiptFits(x, new)
  BY <1>1, <1>2, <1>4, DecisionIs
<1>6. PlainNeeds(c, new, then)
  BY <1>2 DEF PlainNeeds, To, Plain
<1>7. Save(c, new, <<x>>, then)
  BY <1>2 DEF Block
<1> QED
  BY <1>1, <1>4, <1>5, <1>6, <1>7, PlainSaveKeeps

\* and the terminal receipt, which a second finalization does not write again.
LEMMA FinalizeKeeps ==
  ASSUME Sound, NEW c \in Calls, Finalize(c)
  PROVE  IInv' /\ Orderly
<1>1. At(c, "finalize") /\ ~At(c, "idle") /\ ~At(c, "release")
  BY DEF Finalize, At
<1>2. PICK r, x, then : r = RunOf(c) /\ x = TerminalReceipt(Snap(c).state, Snap(c).fence) /\ then = To(c, "release")
  OBVIOUS
<1>3. \/ Storable(r, Snap(c), <<x>>) /\ Store(c, Snap(c), <<x>>, then)
      \/ /\ \E h : /\ h = Hydrated(r) \/ h = Snap(c)
                   /\ calls' = [calls EXCEPT ![c].pc = "release", ![c].snap = h]
         /\ UNCHANGED <<row, lapsed, lease, target, left>>
  BY <1>2 DEF Finalize, Snap
<1>4. CASE Storable(r, Snap(c), <<x>>) /\ Store(c, Snap(c), <<x>>, then)
  <2>1. Save(c, Snap(c), <<x>>, then)
    BY <1>2, <1>4 DEF Save
  <2>2. ReceiptFits(x, Snap(c))
    <3>1. \E ok \in BOOLEAN :
            IF Snap(c).state \in {"succeeded", "blocked"} THEN x = Receipt("run", ok, 0, 0)
            ELSE x = Receipt("rollback", ok, 0, Snap(c).fence)
      <4>1. (Snap(c).state \in {"succeeded", "rolled_back"}) \in BOOLEAN
        OBVIOUS
      <4>2. IF Snap(c).state \in {"succeeded", "blocked"}
            THEN x = Receipt("run", Snap(c).state \in {"succeeded", "rolled_back"}, 0, 0)
            ELSE x = Receipt("rollback", Snap(c).state \in {"succeeded", "rolled_back"}, 0, Snap(c).fence)
        BY <1>2 DEF TerminalReceipt
      <4> QED
        BY <4>1, <4>2, Zenon
    <3>2. PICK ok \in BOOLEAN :
            IF Snap(c).state \in {"succeeded", "blocked"} THEN x = Receipt("run", ok, 0, 0)
            ELSE x = Receipt("rollback", ok, 0, Snap(c).fence)
      BY <3>1
    <3>3. CASE Snap(c).state \in {"succeeded", "blocked"}
      BY <1>1, <3>2, <3>3, DecisionIs
    <3>4. CASE Snap(c).state \notin {"succeeded", "blocked"}
      BY <1>1, <3>2, <3>4, EvidenceIs
    <3> QED
      BY <3>3, <3>4
  <2>3. PlainNeeds(c, Snap(c), then)
    BY <1>2 DEF PlainNeeds, To, Plain
  <2> QED
    BY <1>1, <1>2, <2>1, <2>2, <2>3, CallFacts, PlainSaveKeeps
<1>5. ASSUME NEW h, h = Hydrated(r) \/ h = Snap(c), calls' = [calls EXCEPT ![c].pc = "release", ![c].snap = h],
             UNCHANGED <<row, lapsed, lease, target, left>>
      PROVE  IInv' /\ Orderly
  BY <1>1, <1>2, <1>5, FinalizedKeeps
<1> QED
  BY <1>3, <1>4, <1>5

---------------------------------------------------------------------------
(* Calls at work on the steps of a plan.                                   *)

\* What a call at work knows.
LEMMA WorkFacts ==
  ASSUME Sound, NEW c \in Calls, ~At(c, "idle")
  PROVE  /\ calls[c].pc \in {"enter", "prepare"} => Snap(c).state = "revalidating"
         /\ At(c, "begin") => Snap(c).state = "preparing"
         /\ calls[c].pc \in Executing \cup Executed \cup {"verifying"} => Snap(c).state = "applying"
         /\ calls[c].pc \in Verifying \cup Mismatching \cup {"succeed", "undo"} => Snap(c).state = "verifying"
         /\ calls[c].pc \in Executing \cup Executed \cup Verifying \cup Mismatching =>
              StepOf(c) \in 1 .. StepsOf[RunOf(c)]
         /\ calls[c].pc \in Verifying => \A s \in 1 .. StepOf(c) - 1 : Snap(c).steps[s] = "succeeded"
         /\ At(c, "verified") => Snap(c).steps[StepOf(c)] = "succeeded"
         /\ At(c, "succeed") => \A s \in 1 .. StepsOf[RunOf(c)] : Snap(c).steps[s] = "succeeded"
         /\ calls[c].pc \in Applying => calls[c].claim # 0
         /\ (calls[c].claim # 0 /\ ~At(c, "release")) => Snap(c).fence = calls[c].claim
         /\ \A s \in Unexecuted(calls[c]) : calls[c].claim \notin Under(RunOf(c), s)
         /\ StepsOf[RunOf(c)] \in Nat /\ StepsFit(Snap(c).state, Snap(c).steps)
<1>1. CallFits(calls[c]) /\ CallAgrees(calls[c]) /\ RunOf(c) \in Runs /\ SnapFits(RunOf(c), Snap(c))
  BY CallFacts
<1>2. StepsOf[RunOf(c)] \in Nat
  BY <1>1, RunFacts
<1>3. \A s \in Unexecuted(calls[c]) : calls[c].claim \notin Under(RunOf(c), s)
  BY <1>1 DEF CallAgrees, RunOf
<1> QED
  BY <1>1, <1>2, <1>3 DEF CallFits, SnapFits, Snap, At, StepOf, RunOf

\* A call that executes goes on with steps it has not executed.
LEMMA WorkFits ==
  ASSUME Sound, NEW c \in Calls, calls[c].pc \in Applying, NEW r, r = RunOf(c),
         NEW new, SnapFits(r, new), new.fence = Snap(c).fence, NEW written,
         NEW then, NEW n, n = Gone(c, new, then),
         \/ then.pc \in {"prepare", "begin"} /\ calls[c].pc \in {"enter", "prepare"} /\ then.step = StepOf(c)
         \/ then.pc \in Executing \cup Executed /\ then.step \in 1 .. StepsOf[r],
         then.pc = "prepare" => new.state = "revalidating", then.pc = "begin" => new.state = "preparing",
         then.pc \in Executing \cup Executed => new.state = "applying",
         Unexecuted(n) \subseteq Unexecuted(calls[c])
  PROVE  NextFits(c, r, new, written, n)
<1>1. ~At(c, "idle") /\ ~At(c, "release")
  BY DEF At, Applying, Executing, Executed
<1>2. /\ n = [pc |-> n.pc, run |-> n.run, step |-> n.step, claim |-> n.claim,
              evidence |-> n.evidence, snap |-> n.snap]
      /\ n.pc = then.pc /\ n.run = r /\ n.step = then.step /\ n.claim = calls[c].claim /\ n.snap = new
  BY <1>1, GoneIs
<1>3. /\ r \in Runs /\ StepOf(c) \in Nat /\ calls[c].claim \in 0 .. MaxFence /\ StepsOf[r] \in Nat
      /\ calls[c].claim # 0 /\ new.fence = calls[c].claim
  BY <1>1, CallFacts, WorkFacts
<1>4. then.step \in Nat /\ then.pc \in Applying
  BY <1>3 DEF Applying
<1>5. then.pc \notin Verifying \cup Mismatching \cup Restoring \cup {"succeed", "recover", "await", "accept", "claim",
        "evidence", "verifying", "undo", "compensated", "failed", "verify2", "verified"}
  BY <1>4 DEF Applying, Executing, Executed, Verifying, Mismatching, Restoring
<1>6. CallFits(n)
  <2>1. n.pc \in Points
    BY <1>2, <1>4 DEF Points
  <2>2. n.pc \in {"enter", "prepare"} => n.snap.state = "revalidating"
    BY <1>2 DEF Executing, Executed
  <2>3. n.pc \in Executing \cup Executed => n.step \in 1 .. StepsOf[n.run] /\ n.snap.state = "applying"
    BY <1>2 DEF Executing, Executed
  <2> QED
    BY <1>2, <1>3, <1>4, <1>5, <2>1, <2>2, <2>3 DEF CallFits
<1>7. \A s \in Unexecuted(n) : n.claim \notin Under(r, s)
  BY <1>1, <1>2, WorkFacts
<1> QED
  BY <1>2, <1>4, <1>5, <1>6, <1>7 DEF NextFits

\* A call that verifies goes on when the steps before are seen.
LEMMA VerifyFits ==
  ASSUME Sound, NEW c \in Calls, ~At(c, "idle"), ~At(c, "release"), NEW r, r = RunOf(c),
         NEW new, SnapFits(r, new), new.fence = Snap(c).fence, new.state = "verifying", NEW written,
         NEW then, NEW n, n = Gone(c, new, then),
         \/ /\ then.pc \in {"beforeVerify", "verified"} /\ then.step \in 1 .. StepsOf[r]
            /\ \A s \in 1 .. then.step - 1 : new.steps[s] = "succeeded"
         \/ then.pc = "succeed" /\ then.step \in Nat /\ \A s \in 1 .. StepsOf[r] : new.steps[s] = "succeeded",
         then.pc = "verified" => new.steps[then.step] = "succeeded",
         \A s \in 1 .. StepsOf[r] : new.steps[s] = "succeeded" =>
           \/ Seen(row[r].receipts, s) \/ (then.pc = "verified" /\ s = then.step)
           \/ \E x : written = <<x>> /\ x.kind = "verify" /\ x.ok /\ x.step = s
  PROVE  NextFits(c, r, new, written, n)
<1>1. /\ n = [pc |-> n.pc, run |-> n.run, step |-> n.step, claim |-> n.claim,
              evidence |-> n.evidence, snap |-> n.snap]
      /\ n.pc = then.pc /\ n.run = r /\ n.step = then.step /\ n.claim = calls[c].claim /\ n.snap = new
  BY GoneIs
<1>2. /\ r \in Runs /\ calls[c].claim \in 0 .. MaxFence /\ StepsOf[r] \in Nat
      /\ calls[c].claim # 0 => new.fence = calls[c].claim
  BY CallFacts, WorkFacts
<1>3. then.step \in Nat /\ then.pc \in {"beforeVerify", "verified", "succeed"}
  BY <1>2
<1>4. then.pc \notin Applying \cup Mismatching \cup Restoring \cup {"recover", "await", "accept", "claim",
        "evidence", "verifying", "undo", "compensated", "failed", "verify2"}
  BY <1>3 DEF Applying, Executing, Executed, Mismatching, Restoring
<1>5. CallFits(n)
  <2>1. n.pc \in Points
    BY <1>1, <1>3 DEF Points, Verifying
  <2>2. n.pc \in Verifying => n.pc \in {"beforeVerify", "verified"}
    BY <1>1, <1>3 DEF Verifying
  <2>3. n.pc \notin Executing \cup Executed \cup {"enter", "prepare", "begin"}
    BY <1>1, <1>4 DEF Applying
  <2> QED
    BY <1>1, <1>2, <1>3, <1>4, <2>1, <2>2, <2>3 DEF CallFits
<1>6. Unexecuted(n) = {}
  BY <1>1, <1>4 DEF Unexecuted, Applying
<1> QED
  BY <1>1, <1>4, <1>5, <1>6 DEF NextFits

\* A snapshot with a step that was worked on may be stored.
LEMMA StepSaves ==
  ASSUME Sound, NEW c \in Calls, ~At(c, "idle"), NEW r, r = RunOf(c), NEW state \in StepStates,
         NEW s, s = StepOf(c), s \in 1 .. StepsOf[r], state # "compensated",
         Snap(c).state \in {"applying", "verifying"},
         state = "succeeded" => Snap(c).state = "verifying" /\ (Open(r) => target[r][s] # <<>>),
         NEW new, new = InStep(c, state)
  PROVE  /\ SaveFits(c, r, new, <<>>)
         /\ SnapFits(r, new) /\ new.state = Snap(c).state /\ new.fence = Snap(c).fence
         /\ new.steps[s] = state /\ \A q \in 1 .. StepsOf[r] : q # s => new.steps[q] = Snap(c).steps[q]
<1>1. /\ SnapFits(r, new) /\ new.state = Snap(c).state
      /\ new.seen = Snap(c).seen /\ new.fence = Snap(c).fence
      /\ new.steps[s] = state /\ \A q \in 1 .. StepsOf[r] : q # s => new.steps[q] = Snap(c).steps[q]
  BY InStepIs
<1>2. ASSUME Open(r), NEW q \in 1 .. StepsOf[r], new.steps[q] = "succeeded" PROVE target[r][q] # <<>>
  <2>1. CASE q = s
    BY <1>1, <1>2, <2>1
  <2>2. CASE q # s
    BY <1>1, <1>2, <2>2, CallFacts DEF CallAgrees, Snap, RunOf
  <2> QED
    BY <2>1, <2>2
<1>3. new.state \notin Terminal \cup {"approved", "succeeded"}
  BY <1>1 DEF Terminal
<1> QED
  BY <1>1, <1>2, <1>3 DEF SaveFits

\* The steps not executed yet, at each point.
LEMMA UnexecutedIs ==
  ASSUME NEW m
  PROVE  /\ m.pc \in {"enter", "prepare", "begin"} => Unexecuted(m) = 1 .. StepsOf[m.run]
         /\ m.pc \in Executing => Unexecuted(m) = m.step .. StepsOf[m.run]
         /\ m.pc \in Executed => Unexecuted(m) = m.step + 1 .. StepsOf[m.run]
         /\ m.pc \notin Applying => Unexecuted(m) = {}
BY DEF Unexecuted, Applying, Executing, Executed

\* States in which no step is done.
LEMMA NothingDone ==
  ASSUME NEW a \in States \ (Undone \cup {"verifying", "succeeded"}), NEW n \in Nat,
         NEW steps \in [1 .. n -> StepStates], StepsFit(a, steps)
  PROVE  /\ \A s \in 1 .. n : steps[s] \notin {"succeeded", "compensated"}
         /\ \A b \in States \ {"succeeded"} : StepsFit(b, steps)
BY DEF StepsFit

\* The points of work, apart from each other.
LEMMA PointsApart ==
  /\ Executing \cup Executed \subseteq Applying
  /\ \A p \in Applying \cup Verifying \cup Mismatching : p \notin {"idle", "release"}
  /\ {"beforeStep", "prepareStep", "fence", "execute"} = Executing /\ {"start", "applied"} = Executed
  /\ {"prepare", "begin", "enter"} \subseteq Applying /\ Executing \cap Executed = {}
  /\ {"prepare", "begin", "enter", "verifying"} \cap (Executing \cup Executed) = {}
BY DEF Applying, Executing, Executed, Verifying, Mismatching

\* The run is prepared under its claim.
LEMMA PrepareKeeps ==
  ASSUME Sound, NEW c \in Calls, Prepare(c)
  PROVE  IInv' /\ Orderly
<1>1. calls[c].pc = "prepare" /\ ~At(c, "idle") /\ ~At(c, "release") /\ calls[c].pc \in Applying
  BY PointsApart DEF Prepare, Journal, At
<1>2. PICK r, new, then, n : r = RunOf(c) /\ new = InState(c, "preparing") /\ then = To(c, "begin") /\ n = Gone(c, new, then)
  OBVIOUS
<1>3. StepsFit("preparing", Snap(c).steps) /\ "preparing" \in States
  <2>1. Snap(c).state = "revalidating" /\ StepsFit(Snap(c).state, Snap(c).steps)
    BY <1>1, WorkFacts
  <2> QED
    BY <2>1 DEF StepsFit, Undone, States, Interrupted
<1>4. /\ SnapFits(r, new) /\ new.state = "preparing" /\ new.steps = Snap(c).steps
      /\ new.seen = Snap(c).seen /\ new.fence = Snap(c).fence
  BY <1>1, <1>2, <1>3, InStateIs
<1>5. SaveFits(c, r, new, <<>>)
  BY <1>1, <1>2, <1>4, StateSaves
<1>6. then.pc = "begin" /\ then.step = StepOf(c)
  BY <1>2 DEF To
<1>7. Unexecuted(n) \subseteq Unexecuted(calls[c])
  BY <1>1, <1>2, <1>6, GoneIs, UnexecutedIs DEF RunOf
<1>8. NextFits(c, r, new, <<>>, n)
  BY <1>1, <1>2, <1>4, <1>6, <1>7, WorkFits, PointsApart
<1>9. Save(c, new, <<>>, then)
  BY <1>2 DEF Prepare, Journal
<1> QED
  BY <1>1, <1>2, <1>5, <1>8, <1>9, SaveKeeps

\* It goes to its first step that is not done.
LEMMA BeginStepsKeeps ==
  ASSUME Sound, NEW c \in Calls, BeginSteps(c)
  PROVE  IInv' /\ Orderly
<1>1. calls[c].pc = "begin" /\ At(c, "begin") /\ ~At(c, "idle") /\ ~At(c, "release") /\ calls[c].pc \in Applying
  BY PointsApart DEF BeginSteps, At
<1>2. PICK r, new, then, n : /\ r = RunOf(c) /\ new = InState(c, "applying")
                             /\ then = Each(Snap(c).steps, 1, "beforeStep", "verifying") /\ n = Gone(c, new, then)
  OBVIOUS
<1>3. StepsFit("applying", Snap(c).steps) /\ "applying" \in States
  <2>1. Snap(c).state = "preparing" /\ StepsFit(Snap(c).state, Snap(c).steps)
    BY <1>1, WorkFacts
  <2> QED
    BY <2>1 DEF StepsFit, Undone, States, Interrupted
<1>4. /\ SnapFits(r, new) /\ new.state = "applying" /\ new.steps = Snap(c).steps
      /\ new.seen = Snap(c).seen /\ new.fence = Snap(c).fence
  BY <1>1, <1>2, <1>3, InStateIs
<1>5. SaveFits(c, r, new, <<>>)
  BY <1>1, <1>2, <1>4, StateSaves
<1>6. StepsOf[r] \in Nat /\ Snap(c).steps \in [1 .. StepsOf[r] -> StepStates] /\ r = calls[c].run
  BY <1>1, <1>2, WorkFacts, CallFacts DEF RunOf
<1>7. \/ then.pc = "verifying" /\ then.step = 0
      \/ then.pc = "beforeStep" /\ then.step \in 1 .. StepsOf[r]
  <2>1. PICK one \in Nat : one = 1
    OBVIOUS
  <2>2. then = Each(Snap(c).steps, one, "beforeStep", "verifying")
    BY <1>2, <2>1
  <2>3. \/ /\ then.pc = "verifying" /\ then.step = 0
           /\ \A q \in one .. StepsOf[r] : Snap(c).steps[q] \in Done
        \/ /\ then.pc = "beforeStep" /\ then.step \in one .. StepsOf[r]
           /\ \A q \in one .. then.step - 1 : Snap(c).steps[q] \in Done
           /\ Snap(c).steps[then.step] \notin Done
    BY <1>6, <2>2, EachIsNext
  <2> QED
    BY <2>1, <2>3
<1>8. NextFits(c, r, new, <<>>, n)
  <2>1. CASE then.pc = "verifying" /\ then.step = 0
    <3>1. PlainNeeds(c, new, then)
      BY <1>4, <2>1 DEF PlainNeeds, Plain
    <3> QED
      BY <1>1, <1>2, <1>4, <3>1, PlainFits
  <2>2. CASE then.pc = "beforeStep" /\ then.step \in 1 .. StepsOf[r]
    <3>1. n.pc = "beforeStep" /\ n.run = r /\ n.step = then.step
      BY <1>1, <1>2, <2>2, GoneIs
    <3>2. Unexecuted(n) = then.step .. StepsOf[r] /\ Unexecuted(calls[c]) = 1 .. StepsOf[r]
      BY <1>1, <1>6, <3>1, UnexecutedIs, PointsApart
    <3>3. Unexecuted(n) \subseteq Unexecuted(calls[c])
      BY <1>6, <2>2, <3>2
    <3>4. then.pc \in Executing
      BY <2>2, PointsApart
    <3> QED
      BY <1>1, <1>2, <1>4, <2>2, <3>3, <3>4, WorkFits
  <2> QED
    BY <1>7, <2>1, <2>2
<1>9. Save(c, new, <<>>, then)
  BY <1>2 DEF BeginSteps
<1> QED
  BY <1>1, <1>2, <1>5, <1>8, <1>9, SaveKeeps

\* The step is journalled as prepared before anything is executed,
LEMMA PrepareStepKeeps ==
  ASSUME Sound, NEW c \in Calls, PrepareStep(c)
  PROVE  IInv' /\ Orderly
<1>1. calls[c].pc = "prepareStep" /\ ~At(c, "idle") /\ ~At(c, "release") /\ calls[c].pc \in Executing
  BY PointsApart DEF PrepareStep, Journal, At
<1>2. PICK r, s, new, then, n : /\ r = RunOf(c) /\ s = StepOf(c) /\ new = InStep(c, "prepared")
                                /\ then = To(c, "fence") /\ n = Gone(c, new, then)
  OBVIOUS
<1>3. s \in 1 .. StepsOf[r] /\ Snap(c).state = "applying" /\ "prepared" \in StepStates
  BY <1>1, <1>2, WorkFacts DEF StepStates
<1>4. SaveFits(c, r, new, <<>>) /\ SnapFits(r, new) /\ new.state = "applying" /\ new.fence = Snap(c).fence
  BY <1>1, <1>2, <1>3, StepSaves
<1>5. then.pc = "fence" /\ then.step = s
  BY <1>2 DEF To
<1>6. Unexecuted(n) = Unexecuted(calls[c])
  <2>1. n.pc = "fence" /\ n.run = r /\ n.step = s
    BY <1>1, <1>2, <1>5, GoneIs
  <2> QED
    BY <1>1, <1>2, <2>1, UnexecutedIs, PointsApart DEF RunOf, StepOf
<1>7. NextFits(c, r, new, <<>>, n)
  <2>1. then.pc \in Executing /\ calls[c].pc \in Applying /\ then.pc \notin {"prepare", "begin"}
    BY <1>1, <1>5, PointsApart
  <2> QED
    BY <1>1, <1>2, <1>3, <1>4, <1>5, <1>6, <2>1, WorkFits
<1>8. Save(c, new, <<>>, then)
  BY <1>2 DEF PrepareStep, Journal
<1> QED
  BY <1>1, <1>2, <1>4, <1>7, <1>8, SaveKeeps

\* as started after the executor had it,
LEMMA StartStepKeeps ==
  ASSUME Sound, NEW c \in Calls, StartStep(c)
  PROVE  IInv' /\ Orderly
<1>1. calls[c].pc = "start" /\ ~At(c, "idle") /\ ~At(c, "release") /\ calls[c].pc \in Executed
  BY PointsApart DEF StartStep, Journal, At
<1>2. PICK r, s, new, then, n : /\ r = RunOf(c) /\ s = StepOf(c) /\ new = InStep(c, "started")
                                /\ then = To(c, "applied") /\ n = Gone(c, new, then)
  OBVIOUS
<1>3. s \in 1 .. StepsOf[r] /\ Snap(c).state = "applying" /\ "started" \in StepStates
  BY <1>1, <1>2, WorkFacts DEF StepStates
<1>4. SaveFits(c, r, new, <<>>) /\ SnapFits(r, new) /\ new.state = "applying" /\ new.fence = Snap(c).fence
  BY <1>1, <1>2, <1>3, StepSaves
<1>5. then.pc = "applied" /\ then.step = s
  BY <1>2 DEF To
<1>6. Unexecuted(n) = Unexecuted(calls[c])
  <2>1. n.pc = "applied" /\ n.run = r /\ n.step = s
    BY <1>1, <1>2, <1>5, GoneIs
  <2> QED
    BY <1>1, <1>2, <2>1, UnexecutedIs, PointsApart DEF RunOf, StepOf
<1>7. NextFits(c, r, new, <<>>, n)
  <2>1. then.pc \in Executed /\ calls[c].pc \in Applying /\ then.pc \notin {"prepare", "begin"}
    BY <1>1, <1>5, PointsApart
  <2> QED
    BY <1>1, <1>2, <1>3, <1>4, <1>5, <1>6, <2>1, WorkFits
<1>8. Save(c, new, <<>>, then)
  BY <1>2 DEF StartStep, Journal
<1> QED
  BY <1>1, <1>2, <1>4, <1>7, <1>8, SaveKeeps

\* and with the receipt of the executor, under the fence of the claim.
LEMMA ApplyReceiptKeeps ==
  ASSUME Sound, NEW c \in Calls, ApplyReceipt(c)
  PROVE  IInv' /\ Orderly
<1>1. calls[c].pc = "applied" /\ ~At(c, "idle") /\ ~At(c, "release") /\ calls[c].pc \in Executed
  BY PointsApart DEF ApplyReceipt, At
<1>2. PICK r, s, new : r = RunOf(c) /\ s = StepOf(c) /\ new = Snap(c)
  OBVIOUS
<1>3. s \in 1 .. StepsOf[r] /\ new.state = "applying" /\ StepsOf[r] \in Nat
  BY <1>1, <1>2, WorkFacts
<1>4. SnapFits(r, new) /\ new.steps \in [1 .. StepsOf[r] -> StepStates] /\ s \in Nat /\ r = calls[c].run
  BY <1>1, <1>2, <1>3, CallFacts DEF RunOf
<1>k. PICK k \in Nat : k = s + 1
  BY <1>4
<1>x. PICK x : x = Receipt("apply", TRUE, s, Snap(c).fence)
  OBVIOUS
<1>t. PICK then : then = Each(new.steps, k, "beforeStep", "verifying")
  OBVIOUS
<1>n. PICK n : n = Gone(c, new, then)
  OBVIOUS
<1>5. ReceiptFits(x, new)
  <2>1. PICK kind \in {"apply", "verify", "rollback"}, ok \in BOOLEAN : x = Receipt(kind, ok, s, Snap(c).fence)
    BY <1>x
  <2>2. ~At(c, "idle") /\ s \in Nat /\ new.fence = Snap(c).fence /\ new.state \notin {"succeeded", "blocked"}
    BY <1>1, <1>2, <1>3, <1>4
  <2> QED
    BY <2>1, <2>2, EvidenceIs
<1>6. SaveFits(c, r, new, <<x>>)
  BY <1>1, <1>2, <1>4, <1>5, StateSaves
<1>7. \/ then.pc = "verifying" /\ then.step = 0
      \/ then.pc = "beforeStep" /\ then.step \in k .. StepsOf[r]
  <2>1. PICK m, steps : m \in Nat /\ m = StepsOf[r] /\ steps = new.steps /\ steps \in [1 .. m -> StepStates]
    BY <1>3, <1>4
  <2>2. then = Each(steps, k, "beforeStep", "verifying")
    BY <1>t, <2>1
  <2>3. \/ /\ then.pc = "verifying" /\ then.step = 0
           /\ \A q \in k .. m : steps[q] \in Done
        \/ /\ then.pc = "beforeStep" /\ then.step \in k .. m
           /\ \A q \in k .. then.step - 1 : steps[q] \in Done
           /\ steps[then.step] \notin Done
    BY <2>1, <2>2, EachIsNext
  <2> QED
    BY <2>1, <2>3
<1>8. NextFits(c, r, new, <<x>>, n)
  <2>1. CASE then.pc = "verifying" /\ then.step = 0
    <3>1. PlainNeeds(c, new, then)
      BY <1>3, <2>1 DEF PlainNeeds, Plain
    <3> QED
      BY <1>1, <1>2, <1>4, <1>n, <3>1, PlainFits
  <2>2. CASE then.pc = "beforeStep" /\ then.step \in k .. StepsOf[r]
    <3>1. n.pc = "beforeStep" /\ n.run = r /\ n.step = then.step
      BY <1>1, <1>2, <1>n, <2>2, GoneIs
    <3>2. Unexecuted(n) = then.step .. StepsOf[r] /\ Unexecuted(calls[c]) = k .. StepsOf[r]
      BY <1>1, <1>2, <1>4, <1>k, <3>1, UnexecutedIs, PointsApart DEF StepOf
    <3>3. Unexecuted(n) \subseteq Unexecuted(calls[c]) /\ then.step \in 1 .. StepsOf[r]
      BY <1>k, <1>3, <1>4, <2>2, <3>2
    <3>4. then.pc \in Executing /\ calls[c].pc \in Applying /\ then.pc \notin {"prepare", "begin"}
      BY <1>1, <2>2, PointsApart
    <3> QED
      BY <1>2, <1>3, <1>4, <1>n, <3>3, <3>4, WorkFits
  <2> QED
    BY <1>7, <2>1, <2>2
<1>9. Save(c, Snap(c), <<x>>, then) => (IInv' /\ Orderly)
  BY <1>1, <1>2, <1>n, <1>6, <1>8, SaveKeeps
<1>10. SaveLeased(c, x, then)
  BY <1>2, <1>k, <1>x, <1>t DEF ApplyReceipt
<1> QED
  BY <1>1, <1>9, <1>10, SaveLeasedKeeps

\* The run is verified from its first step on.
LEMMA BeginVerifyKeeps ==
  ASSUME Sound, NEW c \in Calls, BeginVerify(c)
  PROVE  IInv' /\ Orderly
<1>1. calls[c].pc = "verifying" /\ ~At(c, "idle") /\ ~At(c, "release")
  BY DEF BeginVerify, At
<1>2. PICK one \in Nat : one = 1
  OBVIOUS
<1>3. PICK r, new, then, n : /\ r = RunOf(c) /\ new = InState(c, "verifying")
                             /\ then = Each(Snap(c).steps, one, "beforeVerify", "succeed") /\ n = Gone(c, new, then)
  OBVIOUS
<1>4. StepsOf[r] \in Nat /\ Snap(c).steps \in [1 .. StepsOf[r] -> StepStates]
  BY <1>1, <1>3, WorkFacts, CallFacts
<1>5. /\ StepsFit("verifying", Snap(c).steps) /\ "verifying" \in States
      /\ \A s \in 1 .. StepsOf[r] : Snap(c).steps[s] \notin Done
  <2>1. Snap(c).state = "applying" /\ StepsFit(Snap(c).state, Snap(c).steps)
    BY <1>1, WorkFacts
  <2>2. "applying" \in States \ (Undone \cup {"verifying", "succeeded"}) /\ "verifying" \in States \ {"succeeded"}
    BY DEF States, Interrupted, Undone
  <2> QED
    BY <1>4, <2>1, <2>2, NothingDone DEF Done
<1>6. /\ SnapFits(r, new) /\ new.state = "verifying" /\ new.steps = Snap(c).steps
      /\ new.seen = Snap(c).seen /\ new.fence = Snap(c).fence
  BY <1>1, <1>3, <1>5, InStateIs
<1>7. SaveFits(c, r, new, <<>>)
  BY <1>1, <1>3, <1>6, StateSaves
<1>8. \/ /\ then.pc = "succeed" /\ then.step = 0
         /\ \A s \in 1 .. StepsOf[r] : Snap(c).steps[s] \in Done
      \/ /\ then.pc = "beforeVerify" /\ then.step \in 1 .. StepsOf[r]
         /\ \A s \in 1 .. then.step - 1 : Snap(c).steps[s] \in Done
  BY <1>2, <1>3, <1>4, EachIsNext
<1>9. NextFits(c, r, new, <<>>, n)
  <2>1. \A s \in 1 .. StepsOf[r] : new.steps[s] # "succeeded"
    BY <1>5, <1>6 DEF Done
  <2>2. then.pc = "succeed" => then.step \in Nat /\ \A s \in 1 .. StepsOf[r] : new.steps[s] = "succeeded"
    BY <1>5, <1>8
  <2>3. then.pc = "beforeVerify" => then.step \in 1 .. StepsOf[r] /\ \A s \in 1 .. then.step - 1 : new.steps[s] = "succeeded"
    <3>1. ASSUME then.pc = "beforeVerify", NEW s \in 1 .. then.step - 1 PROVE FALSE
      <4>1. then.step \in 1 .. StepsOf[r] /\ Snap(c).steps[s] \in Done
        BY <1>8, <3>1
      <4>2. s \in 1 .. StepsOf[r]
        BY <1>4, <4>1
      <4> QED
        BY <1>5, <4>1, <4>2
    <3> QED
      BY <1>8, <3>1
  <2>4. then.pc \in {"succeed", "beforeVerify"}
    BY <1>8
  <2> QED
    BY <1>1, <1>3, <1>6, <2>1, <2>2, <2>3, <2>4, VerifyFits
<1>10. Save(c, new, <<>>, then)
  BY <1>2, <1>3 DEF BeginVerify
<1> QED
  BY <1>1, <1>3, <1>7, <1>9, <1>10, SaveKeeps

\* A step succeeds after it was read back,
LEMMA VerifiedStepKeeps ==
  ASSUME Sound, NEW c \in Calls, VerifiedStep(c)
  PROVE  IInv' /\ Orderly
<1>1. calls[c].pc = "verify2" /\ ~At(c, "idle") /\ ~At(c, "release") /\ calls[c].pc \in Verifying
  BY DEF VerifiedStep, Journal, At, Verifying
<1>2. PICK r, s, new, then, n : /\ r = RunOf(c) /\ s = StepOf(c) /\ new = InStep(c, "succeeded")
                                /\ then = To(c, "verified") /\ n = Gone(c, new, then)
  OBVIOUS
<1>3. /\ s \in 1 .. StepsOf[r] /\ Snap(c).state = "verifying" /\ "succeeded" \in StepStates
      /\ StepsOf[r] \in Nat /\ \A q \in 1 .. s - 1 : Snap(c).steps[q] = "succeeded"
  BY <1>1, <1>2, WorkFacts DEF StepStates
<1>4. /\ Open(r) => target[r][s] # <<>>
      /\ \A q \in 1 .. StepsOf[r] : Snap(c).steps[q] = "succeeded" => Seen(row[r].receipts, q)
  <2>1. CallAgrees(calls[c])
    BY <1>1, CallFacts
  <2> QED
    BY <1>1, <1>2, <2>1 DEF CallAgrees, RunOf, StepOf, Snap
<1>5. /\ SaveFits(c, r, new, <<>>) /\ SnapFits(r, new) /\ new.state = "verifying" /\ new.fence = Snap(c).fence
      /\ new.steps[s] = "succeeded" /\ \A q \in 1 .. StepsOf[r] : q # s => new.steps[q] = Snap(c).steps[q]
  BY <1>1, <1>2, <1>3, <1>4, StepSaves
<1>6. then.pc = "verified" /\ then.step = s
  BY <1>2 DEF To
<1>7. \A q \in 1 .. s - 1 : new.steps[q] = "succeeded"
  BY <1>3, <1>5
<1>8. NextFits(c, r, new, <<>>, n)
  BY <1>1, <1>2, <1>3, <1>4, <1>5, <1>6, <1>7, VerifyFits
<1>9. Save(c, new, <<>>, then)
  BY <1>2 DEF VerifiedStep, Journal
<1> QED
  BY <1>1, <1>2, <1>5, <1>8, <1>9, SaveKeeps

\* and its receipt says so.
LEMMA VerifyReceiptKeeps ==
  ASSUME Sound, NEW c \in Calls, VerifyReceipt(c)
  PROVE  IInv' /\ Orderly
<1>1. calls[c].pc = "verified" /\ At(c, "verified") /\ ~At(c, "idle") /\ ~At(c, "release") /\ calls[c].pc \in Verifying
  BY DEF VerifyReceipt, At, Verifying
<1>2. PICK r, s, new : r = RunOf(c) /\ s = StepOf(c) /\ new = Snap(c)
  OBVIOUS
<1>3. /\ s \in 1 .. StepsOf[r] /\ new.state = "verifying" /\ StepsOf[r] \in Nat
      /\ \A q \in 1 .. s - 1 : new.steps[q] = "succeeded"
      /\ new.steps[s] = "succeeded" /\ StepsFit(new.state, new.steps)
  BY <1>1, <1>2, WorkFacts
<1>4. SnapFits(r, new) /\ new.steps \in [1 .. StepsOf[r] -> StepStates] /\ s \in Nat /\ r = calls[c].run
  BY <1>1, <1>2, <1>3, CallFacts DEF RunOf
<1>5. \A q \in 1 .. s : new.steps[q] = "succeeded"
  BY <1>3, <1>4
<1>k. PICK k \in Nat : k = s + 1
  BY <1>4
<1>x. PICK x : x = Receipt("verify", TRUE, s, Snap(c).fence)
  OBVIOUS
<1>t. PICK then : then = Each(new.steps, k, "beforeVerify", "succeed")
  OBVIOUS
<1>n. PICK n : n = Gone(c, new, then)
  OBVIOUS
<1>6. ReceiptFits(x, new) /\ x.kind = "verify" /\ x.ok /\ x.step = s
  <2>1. PICK kind \in {"apply", "verify", "rollback"}, ok \in BOOLEAN : x = Receipt(kind, ok, s, Snap(c).fence)
    BY <1>x
  <2>2. ~At(c, "idle") /\ s \in Nat /\ new.fence = Snap(c).fence /\ new.state \notin {"succeeded", "blocked"}
    BY <1>1, <1>2, <1>3, <1>4
  <2>3. ReceiptFits(x, new)
    BY <2>1, <2>2, EvidenceIs
  <2>4. x.kind = "verify" /\ x.ok /\ x.step = s
    BY <1>x DEF Receipt
  <2> QED
    BY <2>3, <2>4
<1>w. PICK w : w = <<x>>
  OBVIOUS
<1>7. SaveFits(c, r, new, <<x>>)
  BY <1>1, <1>2, <1>4, <1>6, StateSaves
<1>8. \/ /\ then.pc = "succeed" /\ then.step = 0
         /\ \A q \in k .. StepsOf[r] : new.steps[q] \in Done
      \/ /\ then.pc = "beforeVerify" /\ then.step \in k .. StepsOf[r]
         /\ \A q \in k .. then.step - 1 : new.steps[q] \in Done
  BY <1>3, <1>4, <1>t, EachIsNext
<1>9. \A q \in 1 .. StepsOf[r] : new.steps[q] \in Done => new.steps[q] = "succeeded"
  BY <1>3, <1>4 DEF Done, StepsFit, Undone
<1>10. \A q \in 1 .. StepsOf[r] : new.steps[q] = "succeeded" =>
         Seen(row[r].receipts, q) \/ q = s
  BY <1>1, <1>2, CallFacts DEF CallAgrees, Snap, RunOf, StepOf
<1>11. then.pc = "succeed" => then.step \in Nat /\ \A q \in 1 .. StepsOf[r] : new.steps[q] = "succeeded"
  <2>1. ASSUME then.pc = "succeed", NEW q \in 1 .. StepsOf[r] PROVE new.steps[q] = "succeeded"
    <3>1. q \in 1 .. s \/ q \in k .. StepsOf[r]
      BY <1>3, <1>4, <1>k
    <3> QED
      BY <1>5, <1>8, <1>9, <2>1, <3>1
  <2> QED
    BY <1>8, <2>1
<1>12. then.pc = "beforeVerify" => then.step \in 1 .. StepsOf[r] /\ \A q \in 1 .. then.step - 1 : new.steps[q] = "succeeded"
  <2>1. ASSUME then.pc = "beforeVerify" PROVE then.step \in k .. StepsOf[r] /\ then.step \in 1 .. StepsOf[r]
    BY <1>3, <1>4, <1>k, <1>8, <2>1
  <2>2. ASSUME then.pc = "beforeVerify", NEW q \in 1 .. then.step - 1 PROVE new.steps[q] = "succeeded"
    <3>1. q \in 1 .. StepsOf[r] /\ (q \in 1 .. s \/ q \in k .. then.step - 1)
      BY <1>3, <1>4, <1>k, <2>1, <2>2
    <3> QED
      BY <1>5, <1>8, <1>9, <2>2, <3>1
  <2> QED
    BY <2>1, <2>2
<1>13. then.pc \in {"beforeVerify", "succeed"}
  BY <1>8
<1>14. \A q \in 1 .. StepsOf[r] : new.steps[q] = "succeeded" =>
         \/ Seen(row[r].receipts, q)
         \/ \E y : w = <<y>> /\ y.kind = "verify" /\ y.ok /\ y.step = q
  BY <1>6, <1>w, <1>10
<1>15. NextFits(c, r, new, w, n)
  <2>1. new.fence = Snap(c).fence
    BY <1>2
  <2>2. \/ /\ then.pc \in {"beforeVerify", "verified"} /\ then.step \in 1 .. StepsOf[r]
           /\ \A q \in 1 .. then.step - 1 : new.steps[q] = "succeeded"
        \/ then.pc = "succeed" /\ then.step \in Nat /\ \A q \in 1 .. StepsOf[r] : new.steps[q] = "succeeded"
    BY <1>11, <1>12, <1>13
  <2>3. then.pc # "verified" /\ (then.pc = "verified" => new.steps[then.step] = "succeeded")
    BY <1>13
  <2>4. \A q \in 1 .. StepsOf[r] : new.steps[q] = "succeeded" =>
          \/ Seen(row[r].receipts, q) \/ (then.pc = "verified" /\ q = then.step)
          \/ \E y : w = <<y>> /\ y.kind = "verify" /\ y.ok /\ y.step = q
    BY <1>14
  <2>5. r = RunOf(c)
    BY <1>2
  <2>6. new.state = "verifying" /\ SnapFits(r, new)
    BY <1>3, <1>4
  <2> HIDE DEF NextFits, Seen
  <2> QED
    BY <1>1, <1>n, <2>1, <2>2, <2>3, <2>4, <2>5, <2>6, VerifyFits
<1>16. Save(c, Snap(c), <<x>>, then) => (IInv' /\ Orderly)
  BY <1>1, <1>2, <1>n, <1>w, <1>7, <1>15, SaveKeeps
<1>17. SaveLeased(c, x, then)
  BY <1>2, <1>k, <1>x, <1>t DEF VerifyReceipt
<1> QED
  BY <1>1, <1>16, <1>17, SaveLeasedKeeps

\* The run succeeds when every step has.
LEMMA SucceedKeeps ==
  ASSUME Sound, NEW c \in Calls, Succeed(c)
  PROVE  IInv' /\ Orderly
<1>1. calls[c].pc = "succeed" /\ At(c, "succeed") /\ ~At(c, "idle") /\ ~At(c, "release")
  BY DEF Succeed, Journal, At
<1>2. PICK r, new, then : r = RunOf(c) /\ new = InState(c, "succeeded") /\ then = To(c, "finalize")
  OBVIOUS
<1>3. /\ \A s \in 1 .. StepsOf[r] : Snap(c).steps[s] = "succeeded"
      /\ Snap(c).steps \in [1 .. StepsOf[r] -> StepStates] /\ CallAgrees(calls[c])
  BY <1>1, <1>2, WorkFacts, CallFacts
<1>4. StepsFit("succeeded", Snap(c).steps) /\ "succeeded" \in States
  BY <1>3 DEF StepsFit, States, Terminal
<1>5. /\ SnapFits(r, new) /\ new.state = "succeeded" /\ new.steps = Snap(c).steps
      /\ new.seen = Snap(c).seen /\ new.fence = Snap(c).fence
  BY <1>1, <1>2, <1>4, InStateIs
<1>6. /\ \A s \in 1 .. StepsOf[r] : Seen(row[r].receipts, s)
      /\ Open(r) => \A s \in 1 .. StepsOf[r] : target[r][s] # <<>>
  BY <1>1, <1>2, <1>3 DEF CallAgrees, Snap, RunOf
<1>7. SaveFits(c, r, new, <<>>)
  BY <1>5, <1>6 DEF SaveFits
<1>8. PlainNeeds(c, new, then)
  BY <1>2 DEF PlainNeeds, To, Plain
<1>9. NextFits(c, r, new, <<>>, Gone(c, new, then))
  BY <1>1, <1>2, <1>5, <1>8, PlainFits
<1>10. Save(c, new, <<>>, then)
  BY <1>2 DEF Succeed, Journal
<1> QED
  BY <1>1, <1>2, <1>7, <1>9, <1>10, SaveKeeps

\* A step that is not read back has failed its verification.
LEMMA UnverifiedStepKeeps ==
  ASSUME Sound, NEW c \in Calls, UnverifiedStep(c)
  PROVE  IInv' /\ Orderly
<1>1. calls[c].pc = "mismatched" /\ ~At(c, "idle") /\ ~At(c, "release") /\ calls[c].pc \in Mismatching
  BY DEF UnverifiedStep, Journal, At, Mismatching
<1>2. PICK r, s, new, then : /\ r = RunOf(c) /\ s = StepOf(c) /\ new = InStep(c, "verify_failed")
                             /\ then = To(c, "unverified")
  OBVIOUS
<1>3. s \in 1 .. StepsOf[r] /\ Snap(c).state = "verifying" /\ "verify_failed" \in StepStates
  BY <1>1, <1>2, WorkFacts DEF StepStates
<1>4. SaveFits(c, r, new, <<>>) /\ SnapFits(r, new) /\ new.state = "verifying" /\ new.fence = Snap(c).fence
  BY <1>1, <1>2, <1>3, StepSaves
<1>5. PlainNeeds(c, new, then)
  BY <1>2, <1>3, <1>4 DEF PlainNeeds, To, Plain
<1>6. NextFits(c, r, new, <<>>, Gone(c, new, then))
  BY <1>1, <1>2, <1>4, <1>5, PlainFits
<1>7. Save(c, new, <<>>, then)
  BY <1>2 DEF UnverifiedStep, Journal
<1> QED
  BY <1>1, <1>2, <1>4, <1>6, <1>7, SaveKeeps

\* A run that was rolled back has its steps compensated.
LEMMA CompensateKeeps ==
  ASSUME Sound, NEW c \in Calls, Compensate(c)
  PROVE  IInv' /\ Orderly
<1>1. At(c, "compensate") /\ ~At(c, "idle") /\ ~At(c, "release")
  BY DEF Compensate, Journal, At
<1>2. PICK r, old, then : r = RunOf(c) /\ old = InState(c, "rolled_back") /\ then = To(c, "compensated")
  OBVIOUS
<1>3. PICK new : new = [old EXCEPT !.steps = [s \in DOMAIN @ |-> IF @[s] = "succeeded" THEN "compensated" ELSE @[s]]]
  OBVIOUS
<1>4. PICK a, b, d, e : Snap(c) = [state |-> a, steps |-> b, seen |-> d, fence |-> e]
  <2>1. SnapFits(r, Snap(c))
    BY <1>1, <1>2, CallFacts
  <2> QED
    BY <2>1 DEF SnapFits
<1>5. old = [state |-> "rolled_back", steps |-> b, seen |-> d, fence |-> e]
  BY <1>2, <1>4 DEF InState
<1>6. PICK b2 : b2 = [s \in DOMAIN b |-> IF b[s] = "succeeded" THEN "compensated" ELSE b[s]]
  OBVIOUS
<1>7. new = [state |-> "rolled_back", steps |-> b2, seen |-> d, fence |-> e]
  BY <1>3, <1>5, <1>6
<1>8. SnapFits(r, Snap(c)) /\ b \in [1 .. StepsOf[r] -> StepStates]
  BY <1>1, <1>2, <1>4, CallFacts
<1>9. /\ b2 \in [1 .. StepsOf[r] -> StepStates]
      /\ \A s \in 1 .. StepsOf[r] : /\ b2[s] = b[s] \/ (b[s] = "succeeded" /\ b2[s] = "compensated")
                                    /\ b2[s] # "succeeded"
  <2>1. DOMAIN b = 1 .. StepsOf[r]
    BY <1>8
  <2>2. "compensated" \in StepStates
    BY DEF StepStates
  <2> QED
    BY <1>6, <1>8, <2>1, <2>2
<1>10. StepsFit("rolled_back", b2)
  BY <1>9 DEF StepsFit, Undone
<1>11. /\ new.state = "rolled_back" /\ new.steps = b2 /\ new.seen = Snap(c).seen /\ new.fence = Snap(c).fence
       /\ Snap(c).steps = b
  BY <1>4, <1>7
<1>12. SnapFits(r, new)
  <2>1. "rolled_back" \in States /\ d \in Nat /\ e \in 0 .. MaxFence
    BY <1>4, <1>8 DEF SnapFits, States, Terminal
  <2> QED
    BY <1>7, <1>9, <1>10, <2>1 DEF SnapFits, StepMap
<1>13. SaveFits(c, r, new, <<>>)
  <2>1. /\ new.state \in Undone /\ new.state \notin {"approved", "succeeded"}
        /\ \A s \in 1 .. StepsOf[r] : \/ new.steps[s] = Snap(c).steps[s]
                                      \/ Snap(c).steps[s] = "succeeded" /\ new.steps[s] = "compensated"
    BY <1>9, <1>11 DEF Undone
  <2> QED
    BY <1>11, <1>12, <2>1 DEF SaveFits
<1>14. PlainNeeds(c, new, then)
  BY <1>2, <1>11 DEF PlainNeeds, To, Plain
<1>15. NextFits(c, r, new, <<>>, Gone(c, new, then))
  BY <1>1, <1>2, <1>11, <1>12, <1>14, PlainFits
<1>16. Save(c, new, <<>>, then)
  BY <1>2, <1>3 DEF Compensate, Journal
<1> QED
  BY <1>1, <1>2, <1>13, <1>15, <1>16, SaveKeeps

---------------------------------------------------------------------------
(* Calls that take the lease, or act on the target.                        *)

\* What the claims and the lease were before is below the next fence.
LEMMA GrantedFits ==
  ASSUME Sound, Free, NEW r \in Runs, NEW live \in BOOLEAN,
         lease' = [run |-> r, fence |-> lease.fence + 1, live |-> live],
         \A q \in Runs : \A f \in Written(q)' : f \in Written(q) \/ (q = r /\ f = lease.fence + 1)
  PROVE  /\ LeaseFits' /\ lease'.fence = lease.fence + 1
         /\ lease.fence \in Nat /\ lease.fence + 1 \in 1 .. MaxFence
         /\ \A q \in Runs : \A f \in Written(q) : f \in Nat /\ f <= lease.fence
         /\ \A d \in Calls : calls[d] # Idle => calls[d].claim # lease.fence + 1
         /\ \A q \in Runs : \A s \in 1 .. StepsOf[q] : lease.fence + 1 \notin Under(q, s)
<1>1. lease.fence \in 0 .. MaxFence /\ MaxFence \in Nat /\ lease.fence < MaxFence
  BY RunFacts DEF Free
<1>2. lease.fence \in Nat /\ lease.fence + 1 \in 1 .. MaxFence /\ lease.fence + 1 # 0
  BY <1>1
<1>3. ASSUME NEW q \in Runs, NEW f \in Written(q) PROVE f \in Nat /\ f <= lease.fence
  <2>1. row[q].receipts \in Seq(Receipts)
    BY RunFacts
  <2>2. PICK i \in 1 .. Len(row[q].receipts) : f = row[q].receipts[i].fence
    BY DEF Written
  <2>3. row[q].receipts[i] \in Receipts
    BY <2>1
  <2>4. f \in 0 .. MaxFence
    BY <2>2, <2>3 DEF Receipts
  <2>5. f <= lease.fence
    BY DEF Sound, IInv, LeaseFits
  <2> QED
    BY <1>1, <2>4, <2>5
<1>4. lease'.run = r /\ lease'.fence = lease.fence + 1 /\ lease'.live = live
  OBVIOUS
<1>5. \A q \in Runs : \A f \in Written(q)' : f <= lease'.fence /\ (f = lease'.fence => q = r)
  BY <1>2, <1>3, <1>4
<1>6. LeaseFits'
  <2>1. lease' \in [run : Runs \cup {NoRun}, fence : 0 .. MaxFence, live : BOOLEAN]
    BY <1>1, <1>2
  <2> QED
    BY <1>2, <1>4, <1>5, <2>1 DEF LeaseFits
<1>7. ASSUME NEW d \in Calls, calls[d] # Idle PROVE calls[d].claim # lease.fence + 1
  <2>1. calls[d].claim \in 0 .. MaxFence /\ calls[d].claim <= lease.fence
    BY <1>7 DEF Sound, IInv, CallFits, CallAgrees
  <2> QED
    BY <1>1, <2>1
<1>8. ASSUME NEW q \in Runs, NEW s \in 1 .. StepsOf[q] PROVE lease.fence + 1 \notin Under(q, s)
  <2>1. \A f \in Under(q, s) : f <= lease.fence
    BY DEF Sound, IInv, TargetFits
  <2> QED
    BY <1>2, <2>1
<1> QED
  BY <1>2, <1>3, <1>4, <1>6, <1>7, <1>8

\* What is below the lease stays below it.
LEMMA LaterLease ==
  ASSUME Sound, NEW n \in Nat, lease.fence <= n
  PROVE  \A q \in Runs : /\ row[q].fence <= n
                         /\ \A s \in 1 .. StepsOf[q] : \A g \in Under(q, s) : g <= n
<1>1. lease.fence \in 0 .. MaxFence /\ MaxFence \in Nat
  BY DEF Sound, JournalAssumption, IInv, LeaseFits
<1>2. ASSUME NEW q \in Runs PROVE row[q].fence <= n
  <2>1. row[q].fence \in 0 .. MaxFence /\ row[q].fence <= lease.fence
    BY RunFacts DEF Sound, IInv, TargetFits
  <2> QED
    BY <1>1, <2>1
<1>3. ASSUME NEW q \in Runs, NEW s \in 1 .. StepsOf[q], NEW g \in Under(q, s) PROVE g <= n
  <2>1. PICK z : z = target[q][s] /\ z \in Seq(1 .. MaxFence)
    BY RunFacts
  <2>2. PICK i \in 1 .. Len(z) : g = z[i]
    BY <2>1 DEF Under
  <2>3. z[i] \in 1 .. MaxFence
    BY <2>1, Reading
  <2>4. g <= lease.fence
    BY DEF Sound, IInv, TargetFits
  <2> QED
    BY <1>1, <2>2, <2>3, <2>4
<1> QED
  BY <1>2, <1>3

\* A rollback that takes the lease.
LEMMA EnsureGrantedKeeps ==
  ASSUME Sound, NEW c \in Calls, At(c, "ensure"), Free, lease' = Granted(RunOf(c)),
         calls' = [calls EXCEPT ![c].pc = "adopt", ![c].claim = lease.fence + 1, ![c].snap.fence = lease.fence + 1],
         UNCHANGED <<row, lapsed, target, left>>
  PROVE  IInv' /\ Orderly
<1>1. PICK m, r, f : m = calls[c] /\ r = m.run /\ f = lease.fence + 1
  OBVIOUS
<1>2. m.pc = "ensure" /\ ~At(c, "idle") /\ ~At(c, "release")
  BY <1>1 DEF At
<1>3. CallFits(m) /\ CallAgrees(m) /\ r \in Runs /\ SnapFits(r, m.snap)
  BY <1>1, <1>2, CallFacts DEF RunOf, Snap
<1>4. PICK h : h = [m.snap EXCEPT !.fence = f]
  OBVIOUS
<1>5. /\ h = [state |-> h.state, steps |-> h.steps, seen |-> h.seen, fence |-> h.fence]
      /\ h.state = m.snap.state /\ h.steps = m.snap.steps /\ h.seen = m.snap.seen /\ h.fence = f
  BY <1>3, <1>4 DEF SnapFits
<1>6. PICK n : n = [m EXCEPT !.pc = "adopt", !.claim = f, !.snap = h]
  OBVIOUS
<1>7. /\ n = [pc |-> n.pc, run |-> n.run, step |-> n.step, claim |-> n.claim,
              evidence |-> n.evidence, snap |-> n.snap]
      /\ n.pc = "adopt" /\ n.run = r /\ n.step = m.step /\ n.claim = f /\ n.snap = h
  <2>1. PICK a, b, d, e, g, x : m = [pc |-> a, run |-> b, step |-> d, claim |-> e, evidence |-> g, snap |-> x]
    BY <1>3 DEF CallFits
  <2>2. n = [pc |-> "adopt", run |-> b, step |-> d, claim |-> f, evidence |-> g, snap |-> h]
    BY <1>6, <2>1
  <2> QED
    BY <1>1, <2>1, <2>2
<1>8. lease' = [run |-> r, fence |-> lease.fence + 1, live |-> TRUE]
  BY <1>1 DEF Granted, RunOf
<1>9. /\ LeaseFits' /\ lease'.fence = f /\ lease.fence \in Nat /\ f \in 1 .. MaxFence
      /\ \A q \in Runs : \A g \in Written(q) : g \in Nat /\ g <= lease.fence
  <2>1. \A q \in Runs : \A g \in Written(q)' : g \in Written(q)
    BY DEF Written
  <2> QED
    BY <1>1, <1>3, <1>8, <2>1, GrantedFits
<1>10. CallFits(n)
  <2>1. SnapFits(r, h) /\ f \in 0 .. MaxFence /\ f # 0
    BY <1>3, <1>5, <1>9 DEF SnapFits, Sound, JournalAssumption
  <2> QED
    BY <1>3, <1>5, <1>7, <2>1
    DEF CallFits, Points, Applying, Executing, Executed, Verifying, Mismatching, Restoring
<1>11. CallAgrees(n)'
  <2>1. Unexecuted(n) = {} /\ n.pc \in Restoring /\ m.pc \in Restoring
    BY <1>2, <1>7, UnexecutedIs DEF Applying, Executing, Executed, Restoring
  <2>2. \A g \in Written(r) : g <= f
    BY <1>1, <1>3, <1>9
  <2>3. f <= lease'.fence
    BY <1>1, <1>9
  <2>4. /\ m.snap.seen <= Len(row[r].receipts) /\ ~Open(r)
        /\ m.snap.seen = Len(row[r].receipts) =>
             /\ Rank[m.snap.state] <= Rank[row[r].state]
             /\ \A s \in 1 .. StepsOf[r] : StepRank[m.snap.steps[s]] <= StepRank[row[r].steps[s]]
    BY <1>1, <1>3, <2>1 DEF CallAgrees
  <2>5. row' = row /\ target' = target /\ Written(r)' = Written(r) /\ ~Open(r)'
    BY <2>4 DEF Written, Open
  <2> QED
    BY <1>5, <1>7, <2>1, <2>2, <2>3, <2>4, <2>5 DEF CallAgrees, Verifying
<1>12. Onward({})
  <2>1. ASSUME NEW q \in Runs PROVE OnwardOf(q, {})
    <3>1. Rank[row[q].state] \in Nat /\ Len(row[q].receipts) \in Nat
      BY RunFacts, MovesGoUp
    <3>2. ASSUME NEW s \in 1 .. StepsOf[q] PROVE StepRank[row[q].steps[s]] \in Nat
      <4>1. row[q].steps[s] \in StepStates
        BY RunFacts
      <4> QED
        BY <4>1, MovesGoUp
    <3> QED
      BY <3>1, <3>2 DEF OnwardOf, Open, Under
  <2>2. lease.fence <= lease'.fence
    BY <1>1, <1>9
  <2> QED
    BY <2>1, <2>2 DEF Onward
<1>13. calls' = [calls EXCEPT ![c] = n]
  <2>1. calls' = [calls EXCEPT ![c] = [@ EXCEPT !.pc = "adopt", !.claim = f, !.snap = h]]
    BY <1>1, <1>4
  <2> QED
    BY <1>1, <1>6, <2>1
<1>14. TargetFits'
  <2>1. lease.fence <= lease'.fence /\ lease'.fence \in Nat
    BY <1>1, <1>9
  <2> QED
    BY <2>1, LaterLease DEF TargetFits, Sound, IInv, Under, Open
<1>15. n.pc \notin Applying
  BY <1>7 DEF Applying, Executing, Executed
<1>16. /\ row' = [q \in Runs |-> row'[q]] /\ (\A q \in Runs : RowFits(q, row[q])') /\ target' = [q \in Runs |-> target'[q]]
       /\ lapsed' \subseteq Lapsing /\ left' \in [Runs -> [Operations -> Nat]]
  BY DEF Sound, IInv, RowFits
<1>17. IInv'
  BY <1>9, <1>10, <1>11, <1>12, <1>13, <1>14, <1>15, <1>16, StepKeeps
<1> QED
  BY <1>17, StillIsOrderly

\* The claim of a run that waits for its turn.
LEMMA ClaimWonKeeps ==
  ASSUME Sound, NEW c \in Calls, ClaimWon(c)
  PROVE  IInv' /\ Orderly
<1>1. PICK m, r, f : m = calls[c] /\ r = m.run /\ f = lease.fence + 1
  OBVIOUS
<1>2. /\ m.pc = "claim" /\ ~At(c, "idle") /\ r = RunOf(c) /\ row[r].state \in Ready /\ Free
      /\ Claim(c, Granted(r))
  BY <1>1 DEF ClaimWon, At, RunOf
<1>3. CallFits(m) /\ CallAgrees(m) /\ r \in Runs /\ m.claim = 0
  <2>1. CallFits(m) /\ CallAgrees(m) /\ r \in Runs
    BY <1>1, <1>2, CallFacts
  <2> QED
    BY <1>2, <2>1 DEF CallFits
<1>4. PICK g : g = Granted(r)
  OBVIOUS
<1>5. g = [run |-> r, fence |-> f, live |-> TRUE] /\ g.fence = f
  BY <1>1, <1>4 DEF Granted
<1>6. /\ lease' = [run |-> r, fence |-> lease.fence + 1, live |-> TRUE]
      /\ UNCHANGED <<lapsed, target, left>>
      /\ row' = [row EXCEPT ![r].state = "revalidating", ![r].fence = f]
      /\ calls' = [calls EXCEPT ![c].pc = "enter", ![c].claim = f,
                                ![c].snap = [Hydrated(r) EXCEPT !.state = "revalidating", !.fence = f]]
  BY <1>1, <1>2, <1>4, <1>5 DEF Claim
<1>7. PICK x, y : x = row[r] /\ y = [x EXCEPT !.state = "revalidating", !.fence = f]
  OBVIOUS
<1>8. RowFits(r, x) /\ StepsOf[r] \in Nat /\ Len(x.receipts) \in Nat /\ x.steps \in [1 .. StepsOf[r] -> StepStates]
  BY <1>3, <1>7, RunFacts
<1>9. /\ y = [state |-> y.state, steps |-> y.steps, receipts |-> y.receipts, fence |-> y.fence]
      /\ y.state = "revalidating" /\ y.steps = x.steps /\ y.receipts = x.receipts /\ y.fence = f
  BY <1>7, <1>8 DEF RowFits
<1>10. row' = [q \in Runs |-> row'[q]] /\ row'[r] = y /\ \A q \in Runs \ {r} : row'[q] = row[q]
  <2>1. row = [q \in Runs |-> row[q]]
    BY DEF Sound, IInv
  <2>2. row' = [row EXCEPT ![r] = y]
    BY <1>6, <1>7
  <2> QED
    BY <1>3, <2>1, <2>2
<1>11. /\ LeaseFits' /\ lease'.fence = f /\ lease.fence \in Nat /\ f \in 1 .. MaxFence
       /\ \A q \in Runs : \A w \in Written(q) : w \in Nat /\ w <= lease.fence
       /\ \A d \in Calls : calls[d] # Idle => calls[d].claim # f
       /\ \A q \in Runs : \A s \in 1 .. StepsOf[q] : f \notin Under(q, s)
  <2>1. \A q \in Runs : \A w \in Written(q)' : w \in Written(q)
    BY <1>7, <1>9, <1>10 DEF Written
  <2> QED
    BY <1>1, <1>2, <1>3, <1>6, <2>1, GrantedFits
<1>12. /\ \A s \in 1 .. StepsOf[r] : x.steps[s] \notin {"succeeded", "compensated"}
       /\ StepsFit("revalidating", x.steps)
  <2>1. x.state \in States \ (Undone \cup {"verifying", "succeeded"}) /\ "revalidating" \in States \ {"succeeded"}
    BY <1>2, <1>7 DEF Ready, States, Interrupted, Undone
  <2> QED
    BY <1>8, <2>1, NothingDone DEF RowFits
<1>13. RowFits(r, y)
  <2>1. f \in 0 .. MaxFence /\ "revalidating" \in States
    BY <1>11 DEF States, Interrupted
  <2>2. \E i \in 1 .. Len(x.receipts) : x.receipts[i].fence = 0
    BY <1>2, <1>7, <1>8 DEF RowFits, Ready
  <2> QED
    BY <1>8, <1>9, <1>12, <2>1, <2>2 DEF RowFits
<1>14. \A q \in Runs : RowFits(q, row[q])'
  <2>1. ASSUME NEW q \in Runs PROVE RowFits(q, row'[q])
    BY <1>10, <1>13, RunFacts
  <2> QED
    BY <2>1 DEF RowFits
<1>15. PICK h : h = [Hydrated(r) EXCEPT !.state = "revalidating", !.fence = f]
  OBVIOUS
<1>16. /\ h = [state |-> h.state, steps |-> h.steps, seen |-> h.seen, fence |-> h.fence]
       /\ h.state = "revalidating" /\ h.steps = x.steps /\ h.seen = Len(x.receipts) /\ h.fence = f
  BY <1>7, <1>15 DEF Hydrated
<1>17. PICK n : n = [m EXCEPT !.pc = "enter", !.claim = f, !.snap = h]
  OBVIOUS
<1>18. /\ n = [pc |-> n.pc, run |-> n.run, step |-> n.step, claim |-> n.claim,
               evidence |-> n.evidence, snap |-> n.snap]
       /\ n.pc = "enter" /\ n.run = r /\ n.step = m.step /\ n.claim = f /\ n.snap = h
  <2>1. PICK a, b, d, e, k, z : m = [pc |-> a, run |-> b, step |-> d, claim |-> e, evidence |-> k, snap |-> z]
    BY <1>3 DEF CallFits
  <2>2. n = [pc |-> "enter", run |-> b, step |-> d, claim |-> f, evidence |-> k, snap |-> h]
    BY <1>17, <2>1
  <2> QED
    BY <1>1, <2>1, <2>2
<1>19. CallFits(n)
  <2>1. SnapFits(r, h) /\ f \in 0 .. MaxFence /\ f # 0
    BY <1>8, <1>11, <1>12, <1>13, <1>9, <1>16 DEF SnapFits, RowFits, StepMap, Sound, JournalAssumption
  <2> QED
    BY <1>3, <1>18, <1>16, <2>1
    DEF CallFits, Points, Applying, Executing, Executed, Verifying, Mismatching, Restoring
<1>20. /\ Written(r)' = Written(r) /\ row'[r].receipts = x.receipts /\ row'[r].state = "revalidating"
       /\ row'[r].steps = x.steps
  BY <1>7, <1>9, <1>10 DEF Written
<1>21. Rank["revalidating"] \in Nat /\ Rank[x.state] \in Nat /\ Rank[x.state] < Rank["revalidating"]
  <2>1. x.state \in States /\ x.state \in Ready /\ "revalidating" \in States
    BY <1>2, <1>7, <1>8 DEF RowFits, States, Interrupted
  <2> QED
    BY <2>1, MovesGoUp
<1>22. \A s \in 1 .. StepsOf[r] : StepRank[x.steps[s]] \in Nat
  <2>1. ASSUME NEW s \in 1 .. StepsOf[r] PROVE StepRank[x.steps[s]] \in Nat
    <3>1. x.steps[s] \in StepStates
      BY <1>8
    <3> QED
      BY <3>1, MovesGoUp
  <2> QED
    BY <2>1
<1>23. CallAgrees(n)'
  <2>1. Unexecuted(n) = 1 .. StepsOf[r]
    BY <1>18, UnexecutedIs
  <2>2. \A w \in Written(r) : w <= f
    BY <1>1, <1>3, <1>11
  <2>3. \A s \in 1 .. StepsOf[r] : f \notin Under(r, s)'
    BY <1>3, <1>6, <1>11 DEF Under
  <2>4. n.pc \notin Restoring \cup Verifying \cup {"succeed", "verify2", "recover"}
    BY <1>18 DEF Restoring, Verifying
  <2>5. f <= lease'.fence /\ h.seen <= Len(x.receipts)
    BY <1>1, <1>8, <1>11, <1>16
  <2>6. \A s \in 1 .. StepsOf[r] : h.steps[s] # "succeeded"
    BY <1>12, <1>16
  <2>7. /\ Rank[h.state] <= Rank[row'[r].state]
        /\ \A s \in 1 .. StepsOf[r] : StepRank[h.steps[s]] <= StepRank[row'[r].steps[s]]
    BY <1>16, <1>20, <1>21, <1>22
  <2> QED
    BY <1>16, <1>18, <1>20, <2>1, <2>2, <2>3, <2>4, <2>5, <2>6, <2>7 DEF CallAgrees
<1>24. Onward({})
  <2>1. ASSUME NEW q \in Runs PROVE OnwardOf(q, {})
    <3>1. CASE q = r
      <4>1. row[r].state \notin Undone /\ row'[r].state \notin Undone
        BY <1>2, <1>20 DEF Ready, Undone
      <4>2. /\ target' = target /\ row'[r].receipts = row[r].receipts /\ Len(row[r].receipts) \in Nat
            /\ row'[r].steps = row[r].steps /\ Rank[row[r].state] <= Rank[row'[r].state]
            /\ \A s \in 1 .. StepsOf[r] : StepRank[row[r].steps[s]] \in Nat
        <5>1. target' = target
          BY <1>6
        <5> QED
          BY <1>7, <1>8, <1>20, <1>21, <1>22, <5>1
      <4> QED
        BY <3>1, <4>1, <4>2 DEF OnwardOf, Open, Under
    <3>2. CASE q # r
      <4>1. Rank[row[q].state] \in Nat /\ Len(row[q].receipts) \in Nat
        BY RunFacts, MovesGoUp
      <4>2. ASSUME NEW s \in 1 .. StepsOf[q] PROVE StepRank[row[q].steps[s]] \in Nat
        <5>1. row[q].steps[s] \in StepStates
          BY RunFacts
        <5> QED
          BY <5>1, MovesGoUp
      <4>3. row'[q] = row[q] /\ target' = target
        BY <1>6, <1>10, <3>2
      <4> QED
        BY <4>1, <4>2, <4>3 DEF OnwardOf, Open, Under
    <3> QED
      BY <3>1, <3>2
  <2>2. lease.fence <= lease'.fence
    BY <1>1, <1>11
  <2> QED
    BY <2>1, <2>2 DEF Onward
<1>25. calls' = [calls EXCEPT ![c] = n]
  <2>1. calls' = [calls EXCEPT ![c] = [@ EXCEPT !.pc = "enter", !.claim = f, !.snap = h]]
    BY <1>6, <1>15
  <2> QED
    BY <1>1, <1>17, <2>1
<1>26. TargetFits'
  <2>1. lease.fence <= lease'.fence /\ lease'.fence \in Nat /\ f <= lease'.fence
    BY <1>1, <1>11
  <2>2. ASSUME NEW q \in Runs PROVE row'[q].fence <= lease'.fence
    BY <1>9, <1>10, <2>1, LaterLease
  <2>3. ASSUME NEW q \in Runs, NEW s \in 1 .. StepsOf[q], Open(q)', row'[q].steps[s] = "succeeded"
        PROVE  target[q][s] # <<>>
    <3>1. CASE q = r
      BY <1>12, <1>20, <2>3, <3>1
    <3>2. CASE q # r
      BY <1>10, <2>3, <3>2 DEF Sound, IInv, TargetFits, Open
    <3> QED
      BY <3>1, <3>2
  <2>4. target' = target /\ \A q \in Runs : \A s \in 1 .. StepsOf[q] : \A w \in Under(q, s) : w <= lease'.fence
    BY <1>6, <2>1, LaterLease
  <2>5. \A q \in Runs : /\ target[q] \in [1 .. StepsOf[q] -> Seq(1 .. MaxFence)]
                        /\ \A s \in 1 .. StepsOf[q] : \A i, j \in 1 .. Len(target[q][s]) : target[q][s][i] = target[q][s][j] => i = j
    BY DEF Sound, IInv, TargetFits
  <2>6. ASSUME NEW q \in Runs
        PROVE  /\ target'[q] \in [1 .. StepsOf[q] -> Seq(1 .. MaxFence)]
               /\ \A s \in 1 .. StepsOf[q] :
                    /\ \A w \in Under(q, s)' : w <= lease'.fence
                    /\ \A i, j \in 1 .. Len(target'[q][s]) : target'[q][s][i] = target'[q][s][j] => i = j
                    /\ (Open(q)' /\ row'[q].steps[s] = "succeeded") => target'[q][s] # <<>>
    BY <2>3, <2>4, <2>5 DEF Under
  <2> QED
    BY <2>2, <2>6 DEF TargetFits
<1>27. n.claim = f /\ \A d \in Calls \ {c} : calls[d].pc \in Applying => calls[d].claim # n.claim
  BY <1>11, <1>18 DEF Idle, Applying, Executing, Executed
<1>28. /\ target' = [q \in Runs |-> target'[q]]
       /\ lapsed' \subseteq Lapsing /\ left' \in [Runs -> [Operations -> Nat]]
  BY <1>6 DEF Sound, IInv
<1>29. IInv'
  BY <1>10, <1>11, <1>14, <1>19, <1>23, <1>24, <1>25, <1>26, <1>27, <1>28, StepKeeps
<1>30. Orderly
  <2>1. SettledRunsStaySettledStep
    <3>1. row[r].state \notin Terminal
      BY <1>2 DEF Ready, Terminal
    <3> QED
      BY <1>10, <3>1 DEF SettledRunsStaySettledStep, Written
  <2>2. WritesFollowTheFenceStep
    <3>1. \A q \in Runs : Len(row'[q].receipts) = Len(row[q].receipts) /\ Len(row[q].receipts) \in Nat
      BY <1>7, <1>10, <1>20, RunFacts
    <3> QED
      BY <3>1 DEF WritesFollowTheFenceStep
  <2>3. OvertakenCallsAreFencedStep
    <3>1. \A d \in Calls : calls'[d] # calls[d] => d = c
      BY <1>25 DEF Sound, IInv
    <3> QED
      BY <1>1, <1>3, <3>1 DEF OvertakenCallsAreFencedStep
  <2> QED
    BY <2>1, <2>2, <2>3 DEF Orderly
<1> QED
  BY <1>29, <1>30

\* What is on the target grows by one fence, which its step did not have.
Mutates(r, s, f) == target' = [target EXCEPT ![r][s] = Append(@, f)]

\* The target fits again, and nothing else is on it that was not.
LEMMA Mutated ==
  ASSUME Sound, NEW r \in Runs, NEW s \in 1 .. StepsOf[r], NEW f \in 1 .. MaxFence, f <= lease.fence,
         f \notin Under(r, s), Mutates(r, s, f), row' = row, lease' = lease
  PROVE  /\ Onward({f}) /\ TargetFits' /\ target' = [q \in Runs |-> target'[q]]
         /\ \A t \in 1 .. StepsOf[r] : t # s => Under(r, t)' = Under(r, t)
<1>1. PICK old, new, z, y : old = target[r] /\ new = target'[r] /\ z = old[s] /\ y = Append(z, f)
  OBVIOUS
<1>2. MaxFence \in Nat /\ StepsOf[r] \in Nat /\ old \in [1 .. StepsOf[r] -> Seq(1 .. MaxFence)]
  BY <1>1, RunFacts
<1>3. /\ target' = [q \in Runs |-> target'[q]] /\ new = [old EXCEPT ![s] = y]
      /\ \A q \in Runs \ {r} : target'[q] = target[q]
  <2>1. target = [q \in Runs |-> target[q]]
    BY DEF Sound, IInv
  <2>2. target' = [target EXCEPT ![r] = [old EXCEPT ![s] = y]]
    BY <1>1 DEF Mutates
  <2> QED
    BY <1>1, <2>1, <2>2
<1>4. z \in Seq(1 .. MaxFence)
  BY <1>1, <1>2
<1>5. /\ y \in Seq(1 .. MaxFence) /\ Len(z) \in Nat /\ Len(y) = Len(z) + 1 /\ y # <<>>
      /\ \A i \in 1 .. Len(z) : y[i] = z[i]
      /\ y[Len(z) + 1] = f
  BY <1>1, <1>4, Appending
<1>6. new \in [1 .. StepsOf[r] -> Seq(1 .. MaxFence)] /\ new[s] = y /\ \A t \in 1 .. StepsOf[r] : t # s => new[t] = old[t]
  BY <1>2, <1>3, <1>5
<1>7. \A i \in 1 .. Len(z) : z[i] # f
  BY <1>1 DEF Under
<1>8. \A i, j \in 1 .. Len(z) : z[i] = z[j] => i = j
  BY <1>1 DEF Sound, IInv, TargetFits
<1>9. \A i, j \in 1 .. Len(y) : y[i] = y[j] => i = j
  <2>1. \A i \in 1 .. Len(y) : i \in 1 .. Len(z) \/ i = Len(z) + 1
    BY <1>5
  <2> QED
    BY <1>5, <1>7, <1>8, <2>1
<1>10. \A i \in 1 .. Len(y) : i \in 1 .. Len(z) \/ y[i] = f
  BY <1>5
<1>11. Under(r, s)' \subseteq Under(r, s) \cup {f}
  <2>1. ASSUME NEW i \in 1 .. Len(y) PROVE y[i] \in {z[k] : k \in 1 .. Len(z)} \cup {f}
    BY <1>5, <1>10
  <2>2. target'[r][s] = y /\ target[r][s] = z
    BY <1>1, <1>6
  <2> QED
    BY <2>1, <2>2 DEF Under
<1>12. \A t \in 1 .. StepsOf[r] : t # s => target'[r][t] = target[r][t]
  BY <1>1, <1>6
<1>13. \A t \in 1 .. StepsOf[r] : t # s => Under(r, t)' = Under(r, t)
  BY <1>12 DEF Under
<1>14. target'[r][s] # <<>> /\ target'[r][s] = y /\ target'[r] \in [1 .. StepsOf[r] -> Seq(1 .. MaxFence)]
  BY <1>1, <1>5, <1>6
<1>15. ASSUME NEW q \in Runs PROVE OnwardOf(q, {f})
  <2>1. Rank[row[q].state] \in Nat /\ Len(row[q].receipts) \in Nat
    BY RunFacts, MovesGoUp
  <2>2. ASSUME NEW t \in 1 .. StepsOf[q] PROVE StepRank[row[q].steps[t]] \in Nat
    <3>1. row[q].steps[t] \in StepStates
      BY RunFacts
    <3> QED
      BY <3>1, MovesGoUp
  <2>3. \A t \in 1 .. StepsOf[q] : Under(q, t)' \subseteq Under(q, t) \cup {f}
    <3>1. CASE q = r
      BY <1>11, <1>13, <3>1
    <3>2. CASE q # r
      BY <1>3, <3>2 DEF Under
    <3> QED
      BY <3>1, <3>2
  <2>4. \A t \in 1 .. StepsOf[q] : target[q][t] # <<>> => target'[q][t] # <<>>
    BY <1>3, <1>12, <1>14
  <2> QED
    BY <2>1, <2>2, <2>3, <2>4 DEF OnwardOf, Open
<1>16. lease.fence \in Nat
  BY <1>2, RunFacts
<1>17. Onward({f})
  BY <1>15, <1>16 DEF Onward
<1>18. ASSUME NEW q \in Runs
       PROVE  /\ row'[q].fence <= lease'.fence
              /\ target'[q] \in [1 .. StepsOf[q] -> Seq(1 .. MaxFence)]
              /\ \A t \in 1 .. StepsOf[q] :
                   /\ \A w \in Under(q, t)' : w <= lease'.fence
                   /\ \A i, j \in 1 .. Len(target'[q][t]) : target'[q][t][i] = target'[q][t][j] => i = j
                   /\ (Open(q)' /\ row'[q].steps[t] = "succeeded") => target'[q][t] # <<>>
  <2>1. /\ row'[q].fence <= lease'.fence
        /\ target[q] \in [1 .. StepsOf[q] -> Seq(1 .. MaxFence)]
        /\ \A t \in 1 .. StepsOf[q] :
             /\ \A w \in Under(q, t) : w <= lease'.fence
             /\ \A i, j \in 1 .. Len(target[q][t]) : target[q][t][i] = target[q][t][j] => i = j
             /\ (Open(q)' /\ row'[q].steps[t] = "succeeded") => target[q][t] # <<>>
    BY DEF Sound, IInv, TargetFits, Open
  <2>2. CASE q = r
    <3>1. target'[q] \in [1 .. StepsOf[q] -> Seq(1 .. MaxFence)]
      BY <1>14, <2>2
    <3>2. ASSUME NEW t \in 1 .. StepsOf[q]
          PROVE  /\ \A w \in Under(q, t)' : w <= lease'.fence
                 /\ \A i, j \in 1 .. Len(target'[q][t]) : target'[q][t][i] = target'[q][t][j] => i = j
                 /\ (Open(q)' /\ row'[q].steps[t] = "succeeded") => target'[q][t] # <<>>
      <4>1. CASE t = s
        BY <1>9, <1>11, <1>14, <2>1, <2>2, <4>1
      <4>2. CASE t # s
        BY <1>12, <1>13, <2>1, <2>2, <4>2
      <4> QED
        BY <4>1, <4>2
    <3> QED
      BY <2>1, <3>1, <3>2
  <2>3. CASE q # r
    <3>1. target'[q] = target[q] /\ \A t \in 1 .. StepsOf[q] : Under(q, t)' = Under(q, t)
      BY <1>3, <2>3 DEF Under
    <3> QED
      BY <2>1, <3>1
  <2> QED
    BY <2>2, <2>3
<1>19. TargetFits'
  BY <1>18 DEF TargetFits
<1> QED
  BY <1>3, <1>13, <1>17, <1>19

\* executor.apply, which a call does once for each step.
LEMMA ExecuteKeeps ==
  ASSUME Sound, NEW c \in Calls, Execute(c)
  PROVE  IInv' /\ Orderly
<1>1. PICK m, r, s, f : m = calls[c] /\ r = m.run /\ s = m.step /\ f = m.claim
  OBVIOUS
<1>2. m.pc = "execute" /\ ~At(c, "idle") /\ ~At(c, "release") /\ UNCHANGED <<row, lapsed, lease, left>>
  BY <1>1 DEF Execute, At
<1>3. CallFits(m) /\ CallAgrees(m) /\ r \in Runs
  BY <1>1, <1>2, CallFacts DEF RunOf
<1>4. /\ s \in 1 .. StepsOf[r] /\ StepsOf[r] \in Nat /\ f \in 1 .. MaxFence /\ MaxFence \in Nat
      /\ f <= lease.fence /\ m.pc \in Executing /\ m.pc \in Applying
  <2>1. /\ m.pc \in Executing /\ m.pc \in Applying
    BY <1>2 DEF Executing, Applying
  <2>2. s \in 1 .. StepsOf[r] /\ f \in 0 .. MaxFence /\ f # 0
    BY <1>1, <1>3, <2>1 DEF CallFits
  <2>3. f <= lease.fence
    BY <1>1, <1>3 DEF CallAgrees
  <2>4. StepsOf[r] \in Nat /\ MaxFence \in Nat
    BY <1>3, RunFacts
  <2> QED
    BY <2>1, <2>2, <2>3, <2>4
<1>5. Unexecuted(m) = s .. StepsOf[r] /\ \A t \in s .. StepsOf[r] : f \notin Under(r, t)
  <2>1. Unexecuted(m) = s .. StepsOf[r]
    BY <1>1, <1>4, UnexecutedIs
  <2> QED
    BY <1>1, <1>3, <2>1 DEF CallAgrees
<1>6. CASE target' = target /\ calls' = [calls EXCEPT ![c].pc = "thrown"]
  <2>1. Go(c, "thrown")
    BY <1>2, <1>6 DEF Go
  <2> QED
    BY <1>2, <2>1, GoKeeps
<1>7. ASSUME target' = [target EXCEPT ![r][s] = Append(@, f)], NEW p \in {"start", "thrown"},
             calls' = [calls EXCEPT ![c].pc = p]
      PROVE  IInv' /\ Orderly
  <2>1. /\ Onward({f}) /\ TargetFits' /\ target' = [q \in Runs |-> target'[q]]
        /\ \A t \in 1 .. StepsOf[r] : t # s => Under(r, t)' = Under(r, t)
    <3>1. f \notin Under(r, s)
      BY <1>4, <1>5
    <3> QED
      BY <1>2, <1>3, <1>4, <1>7, <3>1, Mutated DEF Mutates
  <2>2. LeaseFits' /\ lease'.fence \in Nat
    <3>1. lease.fence \in Nat
      BY <1>3, RunFacts
    <3> QED
      BY <1>2, <3>1 DEF LeaseFits, Written, Sound, IInv
  <2>3. (\A q \in Runs : RowFits(q, row[q])') /\ row' = [q \in Runs |-> row'[q]]
    BY <1>2 DEF Sound, IInv, RowFits
  <2>4. PICK thrown, n : thrown = [m EXCEPT !.pc = "thrown"] /\ n = [m EXCEPT !.pc = p]
    OBVIOUS
  <2>5. /\ thrown.pc = "thrown" /\ n.pc = p
        /\ n = [pc |-> n.pc, run |-> n.run, step |-> n.step, claim |-> n.claim,
                evidence |-> n.evidence, snap |-> n.snap]
        /\ n.run = m.run /\ n.step = m.step /\ n.claim = m.claim /\ n.snap = m.snap
        /\ thrown.run = m.run /\ thrown.step = m.step /\ thrown.claim = m.claim /\ thrown.snap = m.snap
    BY <1>3, <2>4 DEF CallFits
  <2>6. CallFits(thrown) /\ CallAgrees(thrown)
    BY <1>2, <1>3, <2>4, <2>5, WaysFit
  <2>7. CallAgrees(thrown)'
    <3>1. thrown.pc \notin Applying
      BY <2>5 DEF Applying, Executing, Executed
    <3> QED
      BY <2>1, <2>2, <2>3, <2>6, <3>1, AgreesOnward
  <2>8. CallFits(n)
    BY <1>2, <1>3, <2>5 DEF CallFits, Points, Applying, Executing, Executed, Verifying, Mismatching, Restoring
  <2>9. CallAgrees(n)'
    <3>1. CASE p = "thrown"
      BY <2>4, <2>7, <3>1
    <3>2. CASE p = "start"
      <4>1. Unexecuted(n) = s + 1 .. StepsOf[r]
        BY <1>1, <2>5, <3>2, UnexecutedIs DEF Executed
      <4>2. \A t \in s + 1 .. StepsOf[r] : t \in s .. StepsOf[r] /\ t \in 1 .. StepsOf[r] /\ t # s
        BY <1>4
      <4>3. \A t \in s + 1 .. StepsOf[r] : f \notin Under(r, t)'
        BY <1>5, <2>1, <4>2
      <4>4. n.pc \notin Restoring \cup Verifying \cup {"succeed", "verify2", "recover", "release"}
        BY <2>5, <3>2 DEF Restoring, Verifying
      <4>5. thrown.pc # "release"
        BY <2>5
      <4> QED
        BY <1>1, <2>5, <2>7, <4>1, <4>3, <4>4, <4>5 DEF CallAgrees
    <3> QED
      BY <3>1, <3>2
  <2>10. \A d \in Calls \ {c} : calls[d].pc \in Applying => calls[d].claim # f
    BY <1>1, <1>4 DEF Sound, IInv, ClaimsDiffer
  <2>11. calls' = [calls EXCEPT ![c] = n]
    BY <1>1, <1>7, <2>4
  <2>12. lapsed' \subseteq Lapsing /\ left' \in [Runs -> [Operations -> Nat]]
    BY <1>2 DEF Sound, IInv
  <2>13. /\ \A d \in Calls \ {c} : calls[d].pc \in Applying => calls[d].claim \notin {f}
         /\ n.pc \in Applying => \A d \in Calls \ {c} : calls[d].pc \in Applying => calls[d].claim # n.claim
    BY <1>1, <2>5, <2>10
  <2>14. IInv'
    BY <2>1, <2>2, <2>3, <2>8, <2>9, <2>11, <2>12, <2>13, StepKeeps
  <2> QED
    BY <1>2, <2>14, StillIsOrderly
<1> QED
  BY <1>1, <1>6, <1>7 DEF Execute, RunOf, StepOf

\* What is on the target goes, for a run that is not open any more.
Clears(r) == target' = [target EXCEPT ![r] = [s \in DOMAIN @ |-> <<>>]]

\* The target fits again, for nobody counts on what has gone.
LEMMA Cleared ==
  ASSUME Sound, NEW r \in Runs, ~Open(r), Clears(r), row' = row, lease' = lease
  PROVE  Onward({}) /\ TargetFits' /\ target' = [q \in Runs |-> target'[q]]
<1>1. /\ StepsOf[r] \in Nat /\ MaxFence \in Nat /\ lease.fence \in Nat
      /\ target[r] \in [1 .. StepsOf[r] -> Seq(1 .. MaxFence)]
  <2>1. MaxFence \in Nat /\ lease.fence \in 0 .. MaxFence
    BY RunFacts
  <2> QED
    BY <2>1, RunFacts
<1>2. /\ target' = [q \in Runs |-> target'[q]] /\ target'[r] = [s \in 1 .. StepsOf[r] |-> <<>>]
      /\ \A q \in Runs \ {r} : target'[q] = target[q]
  <2>1. target = [q \in Runs |-> target[q]]
    BY DEF Sound, IInv
  <2>2. PICK none : none = [s \in 1 .. StepsOf[r] |-> <<>>]
    OBVIOUS
  <2>3. target' = [target EXCEPT ![r] = none]
    BY <1>1, <2>2 DEF Clears
  <2> QED
    BY <2>1, <2>2, <2>3
<1>3. \A s \in 1 .. StepsOf[r] : target'[r][s] = <<>> /\ Len(target'[r][s]) = 0
  BY <1>2
<1>4. target'[r] \in [1 .. StepsOf[r] -> Seq(1 .. MaxFence)]
  BY <1>2
<1>5. \A s \in 1 .. StepsOf[r] : Under(r, s)' = {}
  BY <1>3 DEF Under
<1>6. ASSUME NEW q \in Runs PROVE OnwardOf(q, {})
  <2>1. Rank[row[q].state] \in Nat /\ Len(row[q].receipts) \in Nat
    BY RunFacts, MovesGoUp
  <2>2. ASSUME NEW t \in 1 .. StepsOf[q] PROVE StepRank[row[q].steps[t]] \in Nat
    <3>1. row[q].steps[t] \in StepStates
      BY RunFacts
    <3> QED
      BY <3>1, MovesGoUp
  <2>3. \A t \in 1 .. StepsOf[q] : Under(q, t)' \subseteq Under(q, t)
    <3>1. CASE q = r
      BY <1>5, <3>1
    <3>2. CASE q # r
      BY <1>2, <3>2 DEF Under
    <3> QED
      BY <3>1, <3>2
  <2>4. Open(q)' => Open(q) /\ q # r
    BY DEF Open
  <2> QED
    BY <1>2, <2>1, <2>2, <2>3, <2>4 DEF OnwardOf
<1>7. Onward({})
  BY <1>1, <1>6 DEF Onward
<1>8. ASSUME NEW q \in Runs
      PROVE  /\ row'[q].fence <= lease'.fence
             /\ target'[q] \in [1 .. StepsOf[q] -> Seq(1 .. MaxFence)]
             /\ \A t \in 1 .. StepsOf[q] :
                  /\ \A w \in Under(q, t)' : w <= lease'.fence
                  /\ \A i, j \in 1 .. Len(target'[q][t]) : target'[q][t][i] = target'[q][t][j] => i = j
                  /\ (Open(q)' /\ row'[q].steps[t] = "succeeded") => target'[q][t] # <<>>
  <2>1. /\ row'[q].fence <= lease'.fence
        /\ target[q] \in [1 .. StepsOf[q] -> Seq(1 .. MaxFence)]
        /\ \A t \in 1 .. StepsOf[q] :
             /\ \A w \in Under(q, t) : w <= lease'.fence
             /\ \A i, j \in 1 .. Len(target[q][t]) : target[q][t][i] = target[q][t][j] => i = j
             /\ (Open(q)' /\ row'[q].steps[t] = "succeeded") => target[q][t] # <<>>
    BY DEF Sound, IInv, TargetFits, Open
  <2>2. CASE q = r
    <3>1. ~Open(q)'
      BY <2>2 DEF Open
    <3> QED
      BY <1>3, <1>4, <1>5, <2>1, <2>2, <3>1
  <2>3. CASE q # r
    <3>1. target'[q] = target[q] /\ \A t \in 1 .. StepsOf[q] : Under(q, t)' = Under(q, t)
      BY <1>2, <2>3 DEF Under
    <3> QED
      BY <2>1, <3>1
  <2> QED
    BY <2>2, <2>3
<1>9. TargetFits'
  BY <1>8 DEF TargetFits
<1> QED
  BY <1>2, <1>7, <1>9

\* executor.rollback, which a call asks for when the run is not open any more.
LEMMA RestoreKeeps ==
  ASSUME Sound, NEW c \in Calls, Restore(c)
  PROVE  IInv' /\ Orderly
<1>1. PICK m, r : m = calls[c] /\ r = m.run
  OBVIOUS
<1>2. m.pc = "restore" /\ ~At(c, "idle") /\ ~At(c, "release") /\ UNCHANGED <<row, lapsed, lease, left>>
  BY <1>1 DEF Restore, At
<1>3. CallFits(m) /\ CallAgrees(m) /\ r \in Runs
  BY <1>1, <1>2, CallFacts DEF RunOf
<1>4. ~Open(r)
  BY <1>1, <1>2, <1>3 DEF CallAgrees, Restoring
<1>5. CASE target' = target /\ calls' = [calls EXCEPT ![c].pc = "unrestored"]
  <2>1. Go(c, "unrestored") /\ <<calls[c].pc, "unrestored">> \in Ways
    BY <1>1, <1>2, <1>5 DEF Go, Ways
  <2> QED
    BY <1>2, <2>1, GoKeeps
<1>6. ASSUME Clears(r), NEW p \in {"restored", "unrestored"}, calls' = [calls EXCEPT ![c].pc = p]
      PROVE  IInv' /\ Orderly
  <2>1. Onward({}) /\ TargetFits' /\ target' = [q \in Runs |-> target'[q]]
    BY <1>2, <1>3, <1>4, <1>6, Cleared
  <2>2. LeaseFits' /\ lease'.fence \in Nat
    <3>1. lease.fence \in 0 .. MaxFence /\ MaxFence \in Nat
      BY <1>3, RunFacts
    <3>2. lease.fence \in Nat
      BY <3>1
    <3> QED
      BY <1>2, <3>2 DEF LeaseFits, Written, Sound, IInv
  <2>3. (\A q \in Runs : RowFits(q, row[q])') /\ row' = [q \in Runs |-> row'[q]]
    BY <1>2 DEF Sound, IInv, RowFits
  <2>4. PICK n : n = [m EXCEPT !.pc = p]
    OBVIOUS
  <2>5. n.pc = p /\ n.pc \notin Applying /\ <<m.pc, n.pc>> \in Ways
    <3>1. n.pc = p
      BY <1>3, <2>4 DEF CallFits
    <3> QED
      BY <1>2, <3>1 DEF Ways, Applying, Executing, Executed
  <2>6. CallFits(n) /\ CallAgrees(n)
    BY <1>3, <2>4, <2>5, WaysFit
  <2>7. CallAgrees(n)'
    BY <2>1, <2>2, <2>3, <2>5, <2>6, AgreesOnward
  <2>8. calls' = [calls EXCEPT ![c] = n]
    BY <1>1, <1>6, <2>4
  <2>9. lapsed' \subseteq Lapsing /\ left' \in [Runs -> [Operations -> Nat]]
    BY <1>2 DEF Sound, IInv
  <2>10. IInv'
    BY <2>1, <2>2, <2>3, <2>5, <2>6, <2>7, <2>8, <2>9, StepKeeps
  <2> QED
    BY <1>2, <2>10, StillIsOrderly
<1> QED
  BY <1>1, <1>5, <1>6 DEF Restore, RunOf, Clears

\* What a recovery makes of a step.
LEMMA RecoveredIs ==
  ASSUME NEW r, NEW e, NEW s \in DOMAIN row[r].steps, NEW state, state = row[r].steps[s],
         NEW new, new = RecoveredSteps(r, e)[s]
  PROVE  /\ (e = "noMutation" /\ state \in {"started", "verify_failed"}) => new = "prepared"
         /\ e = "desiredReadback" => new = "succeeded"
         /\ ~(e = "noMutation" /\ state \in {"started", "verify_failed"}) /\ e # "desiredReadback" => new = state
<1>1. new =
        CASE e = "noMutation" /\ state \in {"started", "verify_failed"} -> "prepared"
          [] e = "desiredReadback" -> "succeeded"
          [] OTHER -> state
  BY Zenon DEF RecoveredSteps
<1>2. CASE e = "noMutation" /\ state \in {"started", "verify_failed"}
  <2>1. e # "desiredReadback"
    BY <1>2
  <2> QED
    BY <1>1, <1>2, <2>1, Zenon
<1>3. CASE e = "desiredReadback"
  <2>1. e # "noMutation"
    BY <1>3
  <2> QED
    BY <1>1, <1>3, <2>1, Zenon
<1>4. CASE ~(e = "noMutation" /\ state \in {"started", "verify_failed"}) /\ e # "desiredReadback"
  BY <1>1, <1>4, Zenon
<1> QED
  BY <1>2, <1>3, <1>4

\* What a recovery leaves of a run: a receipt, the steps, and the row they stand in.
RecoveredRow(r, e, f, w, steps, y) ==
  /\ w = Recovered(e, f) /\ steps = RecoveredSteps(r, e)
  /\ y = [state |-> NextRunState[e], steps |-> steps, fence |-> f,
          receipts |-> Append(row[r].receipts, w)]

\* What it leaves of an interrupted run fits.
LEMMA RecoveredFits ==
  ASSUME Sound, NEW r \in Runs, row[r].state \in Interrupted, NEW e \in Conditions, NEW f \in 1 .. MaxFence,
         e = "noMutation" => \A s \in 1 .. StepsOf[r] : row[r].steps[s] # "succeeded",
         NEW w, NEW steps, NEW y, RecoveredRow(r, e, f, w, steps, y)
  PROVE  /\ RowFits(r, y) /\ w \in Receipts /\ w.fence = f
         /\ \A s \in 1 .. StepsOf[r] : steps[s] = "succeeded" => e = "desiredReadback" \/ y.state \in Undone
<1>1. PICK x : x = row[r] /\ x.state \in Interrupted /\ RowFits(r, x)
  BY RunFacts
<1>2. /\ StepsOf[r] \in Nat /\ MaxFence \in Nat /\ x.steps \in [1 .. StepsOf[r] -> StepStates]
      /\ x.receipts \in Seq(Receipts)
  BY <1>1, RunFacts
<1>3. w \in Receipts /\ w.fence = f /\ w.condition = e
  <2>1. PICK ok \in BOOLEAN : ok = (e \notin {"ambiguousReadback", "irreversibleUnrecoverable"})
    OBVIOUS
  <2>2. w = [kind |-> "recovery", ok |-> ok, step |-> 0, fence |-> f, condition |-> e]
    BY <2>1 DEF RecoveredRow, Recovered, Receipt
  <2>3. f \in 0 .. MaxFence
    BY <1>2
  <2> QED
    BY <2>2, <2>3 DEF Receipts, WriteLike
<1>4. /\ y = [state |-> y.state, steps |-> y.steps, receipts |-> y.receipts, fence |-> y.fence]
      /\ y.state = NextRunState[e] /\ y.steps = steps /\ y.fence = f /\ y.receipts = Append(x.receipts, w)
  BY <1>1 DEF RecoveredRow
<1>5. /\ y.state \in States /\ y.state \notin {"rolled_back", "drafted", "awaiting_approval"}
      /\ e = "noMutation" => y.state = "queued"
      /\ e = "desiredReadback" <=> y.state = "succeeded"
      /\ e \notin {"noMutation", "desiredReadback"} => y.state \in Undone \ {"rolled_back"}
  BY <1>4 DEF Conditions, NextRunState, States, Terminal, Ready, Undone
<1>6. DOMAIN x.steps = 1 .. StepsOf[r] /\ DOMAIN steps = 1 .. StepsOf[r] /\ steps = [s \in 1 .. StepsOf[r] |-> steps[s]]
  <2>1. DOMAIN x.steps = 1 .. StepsOf[r]
    BY <1>2
  <2> QED
    BY <1>1, <2>1, Zenon DEF RecoveredRow, RecoveredSteps
<1>7. ASSUME NEW s \in 1 .. StepsOf[r]
      PROVE  /\ steps[s] \in StepStates
             /\ e = "desiredReadback" => steps[s] = "succeeded"
             /\ e # "desiredReadback" => steps[s] \in {x.steps[s], "prepared"}
  <2>1. PICK a : a = x.steps[s] /\ a \in StepStates
    BY <1>2
  <2>2. s \in DOMAIN row[r].steps /\ row[r].steps[s] = a
    BY <1>1, <1>6, <2>1
  <2>3. PICK b : b = RecoveredSteps(r, e)[s]
    OBVIOUS
  <2>4. /\ (e = "noMutation" /\ a \in {"started", "verify_failed"}) => b = "prepared"
        /\ e = "desiredReadback" => b = "succeeded"
        /\ ~(e = "noMutation" /\ a \in {"started", "verify_failed"}) /\ e # "desiredReadback" => b = a
    BY <2>2, <2>3, RecoveredIs
  <2>5. b \in {"prepared", "succeeded", a} /\ (e = "desiredReadback" => b = "succeeded")
        /\ (e # "desiredReadback" => b \in {a, "prepared"})
    BY <2>4
  <2>6. b \in StepStates
    BY <2>1, <2>5 DEF StepStates
  <2>7. steps[s] = b
    BY <2>3 DEF RecoveredRow
  <2> QED
    BY <2>1, <2>5, <2>6, <2>7
<1>8. \A s \in 1 .. StepsOf[r] : x.steps[s] # "compensated"
  BY <1>1, <1>6 DEF RowFits, StepsFit, Interrupted, Undone
<1>9. steps \in StepMap(r)
  <2>1. \A s \in 1 .. StepsOf[r] : steps[s] \in StepStates
    BY <1>7
  <2> QED
    BY <1>6, <2>1, Zenon DEF StepMap
<1>10. StepsFit(y.state, y.steps)
  <2>1. ASSUME NEW s \in 1 .. StepsOf[r]
        PROVE  /\ steps[s] # "compensated"
               /\ steps[s] = "succeeded" => y.state \in (Undone \ {"rolled_back"}) \cup {"verifying", "succeeded"}
               /\ y.state = "succeeded" => steps[s] = "succeeded"
    BY <1>1, <1>5, <1>7, <1>8
  <2> QED
    BY <1>4, <1>6, <2>1 DEF StepsFit
<1>11. /\ y.receipts \in Seq(Receipts) /\ Len(x.receipts) \in Nat /\ Len(y.receipts) = Len(x.receipts) + 1
       /\ \A i \in 1 .. Len(x.receipts) : y.receipts[i] = x.receipts[i]
       /\ y.receipts[Len(x.receipts) + 1] = w
  <2>1. PICK seq : seq = x.receipts /\ seq \in Seq(Receipts)
    BY <1>2
  <2>2. /\ Append(seq, w) \in Seq(Receipts) /\ Len(seq) \in Nat /\ Len(Append(seq, w)) = Len(seq) + 1
        /\ \A i \in 1 .. Len(seq) : Append(seq, w)[i] = seq[i]
        /\ Append(seq, w)[Len(seq) + 1] = w
    BY <1>3, <2>1, Appending
  <2> QED
    BY <1>4, <2>1, <2>2
<1>12. \E i \in 1 .. Len(y.receipts) : y.receipts[i].fence = 0
  <2>1. PICK i \in 1 .. Len(x.receipts) : x.receipts[i].fence = 0
    BY <1>1 DEF RowFits, Interrupted
  <2>2. i \in 1 .. Len(y.receipts) /\ y.receipts[i] = x.receipts[i]
    BY <1>11
  <2> QED
    BY <2>1, <2>2
<1>13. y.state = "succeeded" => \A s \in 1 .. StepsOf[r] : Seen(y.receipts, s)
  <2>1. Len(x.receipts) + 1 \in 1 .. Len(y.receipts)
    BY <1>11
  <2> QED
    BY <1>3, <1>5, <1>11, <2>1 DEF Seen
<1>14. RowFits(r, y)
  <2>1. y.fence \in 0 .. MaxFence /\ y.steps \in StepMap(r)
    BY <1>2, <1>4, <1>9
  <2> QED
    BY <1>4, <1>5, <1>10, <1>11, <1>12, <1>13, <2>1 DEF RowFits
<1>15. ASSUME NEW s \in 1 .. StepsOf[r], steps[s] = "succeeded" PROVE e = "desiredReadback" \/ y.state \in Undone
  BY <1>1, <1>5, <1>7, <1>15
<1> QED
  BY <1>3, <1>14, <1>15

\* A lease granted for the recovery only.
LEMMA ReleasedIs ==
  ASSUME NEW r, NEW f, NEW a, NEW b
  PROVE  [[run |-> r, fence |-> f, live |-> a] EXCEPT !.live = b] = [run |-> r, fence |-> f, live |-> b]
OBVIOUS

\* A recovery decides under a fence of its own, and leaves the receipt that says why.
LEMMA ClaimRecoveryKeeps ==
  ASSUME Sound, NEW c \in Calls, ClaimRecovery(c)
  PROVE  IInv' /\ Orderly
<1>1. PICK m, r, e, f : m = calls[c] /\ r = m.run /\ e = m.evidence /\ f = lease.fence + 1
  OBVIOUS
<1>2. PICK w, steps, y : RecoveredRow(r, e, f, w, steps, y)
  BY DEF RecoveredRow
<1>3. /\ m.pc = "recover" /\ ~At(c, "idle") /\ Claimable(c) /\ Free /\ r = RunOf(c)
      /\ lease' = [run |-> r, fence |-> lease.fence + 1, live |-> FALSE]
      /\ calls' = [calls EXCEPT ![c] = Idle] /\ UNCHANGED <<lapsed, target, left>>
  <2>1. [Granted(r) EXCEPT !.live = FALSE] = [run |-> r, fence |-> lease.fence + 1, live |-> FALSE]
    BY ReleasedIs DEF Granted
  <2> QED
    BY <1>1, <2>1 DEF ClaimRecovery, Claimable, At, RunOf
<1>4. row' = [row EXCEPT ![r] = y]
  BY <1>1, <1>2 DEF ClaimRecovery, RecoveredRow, RunOf
<1>5. CallFits(m) /\ CallAgrees(m) /\ r \in Runs /\ m.claim = 0 /\ m.snap.state \in Interrupted /\ e \in Conditions
  <2>1. CallFits(m) /\ CallAgrees(m) /\ r \in Runs
    BY <1>1, <1>3, CallFacts
  <2> QED
    BY <1>1, <1>3, <2>1 DEF CallFits
<1>6. row' = [q \in Runs |-> row'[q]] /\ row'[r] = y /\ \A q \in Runs \ {r} : row'[q] = row[q]
  <2>1. row = [q \in Runs |-> row[q]]
    BY DEF Sound, IInv
  <2> QED
    BY <1>4, <1>5, <2>1
<1>7. PICK x : x = row[r] /\ RowFits(r, x) /\ x.receipts \in Seq(Receipts) /\ x.state = m.snap.state /\ x.steps = m.snap.steps
  <2>1. m.snap = Hydrated(r)
    BY <1>1, <1>3 DEF Claimable, Snap
  <2>2. m.snap.state = row[r].state /\ m.snap.steps = row[r].steps
    BY <2>1 DEF Hydrated
  <2> QED
    BY <1>5, <2>2, RunFacts
<1>8. Open(r) /\ x.state \in Interrupted /\ x.state \notin Undone /\ x.state \notin Terminal
  BY <1>5, <1>7 DEF Open, Interrupted, Undone, Terminal
<1>9. /\ e = "noMutation" => \A s \in 1 .. StepsOf[r] : x.steps[s] # "succeeded"
      /\ e = "desiredReadback" => \A s \in 1 .. StepsOf[r] : target[r][s] # <<>>
  BY <1>1, <1>3, <1>5, <1>7, <1>8 DEF CallAgrees
<1>10. lease.fence \in Nat /\ f \in 1 .. MaxFence
  <2>1. lease.fence \in 0 .. MaxFence /\ MaxFence \in Nat /\ lease.fence < MaxFence
    BY <1>3, <1>5, RunFacts DEF Free
  <2> QED
    BY <1>1, <2>1
<1>11. /\ RowFits(r, y) /\ w \in Receipts /\ w.fence = f
       /\ \A s \in 1 .. StepsOf[r] : steps[s] = "succeeded" => e = "desiredReadback" \/ y.state \in Undone
  <2>1. row[r].state \in Interrupted /\ (e = "noMutation" => \A s \in 1 .. StepsOf[r] : row[r].steps[s] # "succeeded")
    BY <1>7, <1>8, <1>9
  <2> QED
    BY <1>2, <1>5, <1>10, <2>1, RecoveredFits
<1>12. y.receipts = Append(x.receipts, w) /\ y.steps = steps /\ y.fence = f
  BY <1>2, <1>7 DEF RecoveredRow
<1>13. /\ y.receipts \in Seq(Receipts) /\ Len(x.receipts) \in Nat /\ Len(y.receipts) = Len(x.receipts) + 1
       /\ \A i \in 1 .. Len(x.receipts) : y.receipts[i] = x.receipts[i]
       /\ y.receipts[Len(x.receipts) + 1] = w
  <2>1. PICK seq : seq = x.receipts /\ seq \in Seq(Receipts)
    BY <1>7
  <2>2. /\ Append(seq, w) \in Seq(Receipts) /\ Len(seq) \in Nat /\ Len(Append(seq, w)) = Len(seq) + 1
        /\ \A i \in 1 .. Len(seq) : Append(seq, w)[i] = seq[i]
        /\ Append(seq, w)[Len(seq) + 1] = w
    BY <1>11, <2>1, Appending
  <2> QED
    BY <1>12, <2>1, <2>2
<1>14. \A q \in Runs : \A g \in Written(q)' : g \in Written(q) \/ (q = r /\ g = f)
  <2>1. ASSUME NEW q \in Runs, NEW g \in Written(q)' PROVE g \in Written(q) \/ (q = r /\ g = f)
    <3>1. CASE q = r
      <4>1. PICK i \in 1 .. Len(y.receipts) : g = y.receipts[i].fence
        BY <1>6, <2>1, <3>1 DEF Written
      <4>2. CASE i \in 1 .. Len(x.receipts)
        <5>1. g = x.receipts[i].fence
          BY <1>13, <4>1, <4>2
        <5> QED
          BY <1>7, <3>1, <4>2, <5>1 DEF Written
      <4>3. CASE i = Len(x.receipts) + 1
        BY <1>11, <1>13, <3>1, <4>1, <4>3
      <4> QED
        BY <1>13, <4>2, <4>3
    <3>2. CASE q # r
      BY <1>6, <2>1, <3>2 DEF Written
    <3> QED
      BY <3>1, <3>2
  <2> QED
    BY <2>1
<1>15. /\ LeaseFits' /\ lease'.fence = f
       /\ \A q \in Runs : \A g \in Written(q) : g \in Nat /\ g <= lease.fence
  BY <1>1, <1>3, <1>5, <1>14, GrantedFits
<1>16. Onward({})
  <2>1. ASSUME NEW q \in Runs PROVE OnwardOf(q, {})
    <3>1. target' = target
      BY <1>3
    <3>2. CASE q = r
      <4>1. Open(r)
        BY <1>8
      <4> QED
        BY <1>6, <1>7, <1>13, <3>1, <3>2, <4>1 DEF OnwardOf, Under
    <3>3. CASE q # r
      <4>1. Rank[row[q].state] \in Nat /\ Len(row[q].receipts) \in Nat
        BY RunFacts, MovesGoUp
      <4>2. ASSUME NEW s \in 1 .. StepsOf[q] PROVE StepRank[row[q].steps[s]] \in Nat
        <5>1. row[q].steps[s] \in StepStates
          BY RunFacts
        <5> QED
          BY <5>1, MovesGoUp
      <4>3. row'[q] = row[q]
        BY <1>6, <3>3
      <4> QED
        BY <3>1, <4>1, <4>2, <4>3 DEF OnwardOf, Open, Under
    <3> QED
      BY <3>2, <3>3
  <2>2. lease.fence <= lease'.fence
    BY <1>1, <1>10, <1>15
  <2> QED
    BY <2>1, <2>2 DEF Onward
<1>17. \A q \in Runs : RowFits(q, row[q])'
  <2>1. ASSUME NEW q \in Runs PROVE RowFits(q, row'[q])
    BY <1>6, <1>11, RunFacts
  <2> QED
    BY <2>1 DEF RowFits
<1>18. TargetFits'
  <2>1. lease.fence <= lease'.fence /\ lease'.fence \in Nat /\ f <= lease'.fence
    BY <1>1, <1>10, <1>15
  <2>2. ASSUME NEW q \in Runs PROVE row'[q].fence <= lease'.fence
    BY <1>6, <1>12, <2>1, LaterLease
  <2>3. ASSUME NEW q \in Runs, NEW s \in 1 .. StepsOf[q], Open(q)', row'[q].steps[s] = "succeeded"
        PROVE  target[q][s] # <<>>
    <3>1. CASE q = r
      <4>1. y.state \notin Undone /\ steps[s] = "succeeded"
        BY <1>6, <1>12, <2>3, <3>1 DEF Open
      <4> QED
        BY <1>9, <1>11, <3>1, <4>1
    <3>2. CASE q # r
      BY <1>6, <2>3, <3>2 DEF Sound, IInv, TargetFits, Open
    <3> QED
      BY <3>1, <3>2
  <2>4. target' = target
    BY <1>3
  <2>5. \A q \in Runs : \A s \in 1 .. StepsOf[q] : \A g \in Under(q, s) : g <= lease'.fence
    BY <2>1, LaterLease
  <2>6. \A q \in Runs : /\ target[q] \in [1 .. StepsOf[q] -> Seq(1 .. MaxFence)]
                        /\ \A s \in 1 .. StepsOf[q] : \A i, j \in 1 .. Len(target[q][s]) : target[q][s][i] = target[q][s][j] => i = j
    BY DEF Sound, IInv, TargetFits
  <2>7. ASSUME NEW q \in Runs
        PROVE  /\ target'[q] \in [1 .. StepsOf[q] -> Seq(1 .. MaxFence)]
               /\ \A s \in 1 .. StepsOf[q] :
                    /\ \A g \in Under(q, s)' : g <= lease'.fence
                    /\ \A i, j \in 1 .. Len(target'[q][s]) : target'[q][s][i] = target'[q][s][j] => i = j
                    /\ (Open(q)' /\ row'[q].steps[s] = "succeeded") => target'[q][s] # <<>>
    BY <2>3, <2>4, <2>5, <2>6 DEF Under
  <2> QED
    BY <2>2, <2>7 DEF TargetFits
<1>19. /\ target' = [q \in Runs |-> target'[q]]
       /\ lapsed' \subseteq Lapsing /\ left' \in [Runs -> [Operations -> Nat]]
  BY <1>3 DEF Sound, IInv
<1>20. Idle.pc \notin Applying
  BY DEF Idle, Applying, Executing, Executed
<1>21. IInv'
  BY <1>3, <1>6, <1>15, <1>16, <1>17, <1>18, <1>19, <1>20, StepKeeps
<1>22. Orderly
  <2>1. SettledRunsStaySettledStep
    BY <1>6, <1>7, <1>8 DEF SettledRunsStaySettledStep, Written
  <2>2. WritesFollowTheFenceStep
    <3>1. Last(y.receipts) = w
      BY <1>13 DEF Last
    <3>2. ASSUME NEW q \in Runs, Len(row'[q].receipts) > Len(row[q].receipts) PROVE q = r
      <4>1. Len(row[q].receipts) \in Nat
        BY RunFacts
      <4> QED
        BY <1>6, <3>2, <4>1
    <3>3. \A q \in Runs : \A g \in Written(q) : g <= f /\ g < f
      BY <1>1, <1>10, <1>15
    <3>4. Last(row'[r].receipts).fence = f
      BY <1>6, <1>11, <3>1
    <3> QED
      BY <3>2, <3>3, <3>4 DEF WritesFollowTheFenceStep
  <2>3. OvertakenCallsAreFencedStep
    <3>1. \A d \in Calls : calls'[d] # calls[d] => d = c
      BY <1>3 DEF Sound, IInv
    <3> QED
      BY <1>1, <1>5, <3>1 DEF OvertakenCallsAreFencedStep
  <2> QED
    BY <2>1, <2>2, <2>3 DEF Orderly
<1> QED
  BY <1>21, <1>22

\* A claim that is refused blocks the run the call had read, and a duplicate ends.
LEMMA ClaimsKeep ==
  ASSUME Sound, NEW c \in Calls, Claims(c)
  PROVE  IInv' /\ Orderly
<1>1. CASE ClaimRefused(c)
  <2>1. At(c, "claim") /\ Go(c, "block")
    BY <1>1 DEF ClaimRefused
  <2>2. ~At(c, "idle") /\ ~At(c, "release")
    BY <2>1 DEF At
  <2> QED
    BY <2>1, <2>2, GoKeeps
<1>2. CASE ClaimInProgress(c)
  BY <1>2, EndKeeps DEF ClaimInProgress
<1> QED
  BY <1>1, <1>2, ClaimCompletedKeeps, ClaimWonKeeps DEF Claims

\* A rollback goes on under the lease it has, takes the lease, or ends.
LEMMA EnsureLeaseKeeps ==
  ASSUME Sound, NEW c \in Calls, EnsureLease(c)
  PROVE  IInv' /\ Orderly
<1>1. CASE At(c, "ensure") /\ Leased(c)
           /\ calls' = [calls EXCEPT ![c].pc = "beforeRollback", ![c].claim = Snap(c).fence]
           /\ UNCHANGED <<row, lapsed, lease, target, left>>
  BY <1>1, EnsuredKeeps
<1>2. CASE At(c, "ensure") /\ Free /\ lease' = Granted(RunOf(c))
           /\ calls' = [calls EXCEPT ![c].pc = "adopt", ![c].claim = lease.fence + 1,
                                     ![c].snap.fence = lease.fence + 1]
           /\ UNCHANGED <<row, lapsed, target, left>>
  BY <1>2, EnsureGrantedKeeps
<1>3. CASE End(c)
  BY <1>3, EndKeeps
<1> QED
  BY <1>1, <1>2, <1>3 DEF EnsureLease

\* Every step keeps the invariant, and is orderly.
LEMMA NextKeeps ==
  ASSUME Sound, [Next]_vars
  PROVE  IInv' /\ Orderly
<1>1. ASSUME NEW c \in Calls, Steps(c) PROVE IInv' /\ Orderly
  BY <1>1, PrepareKeeps, BeginStepsKeeps, PrepareStepKeeps, ExecuteKeeps, StartStepKeeps, ApplyReceiptKeeps,
     BeginVerifyKeeps, VerifyKeeps, VerifiedStepKeeps, VerifyReceiptKeeps, SucceedKeeps, UnverifiedStepKeeps,
     UnverifiedReceiptKeeps, RequireRollbackKeeps DEF Steps
<1>2. ASSUME NEW c \in Calls, Recovery(c) PROVE IInv' /\ Orderly
  <2>1. CASE RecoveryRefused(c)
    BY <2>1, EndKeeps DEF RecoveryRefused
  <2> QED
    BY <1>2, <2>1, ReadEvidenceKeeps, ClaimRecoveryKeeps DEF Recovery
<1>3. ASSUME NEW c \in Calls, Rollback(c) PROVE IInv' /\ Orderly
  BY <1>3, EnsureLeaseKeeps, AdoptLeaseKeeps, RollKeeps, RestoreKeeps, RollbackFailedKeeps,
     RollbackFailedReceiptKeeps, CompensateKeeps, RollbackReceiptKeeps DEF Rollback
<1>4. ASSUME NEW c \in Calls, Ends(c) PROVE IInv' /\ Orderly
  BY <1>4, FinalizeKeeps, ReleaseKeeps, FailRunKeeps, BlockKeeps DEF Ends
<1>5. ASSUME NEW c \in Calls, Die(c) PROVE IInv' /\ Orderly
  BY <1>5, EndKeeps DEF Die
<1>6. CASE UNCHANGED vars
  <2>1. lapsed' \subseteq Lapsing /\ lease' = [lease EXCEPT !.live = lease'.live] /\ lease'.live \in BOOLEAN
    BY <1>6, OnlyCalls DEF vars
  <2> QED
    BY <1>6, <2>1, TimeKeeps DEF vars
<1>7. CASE Next
  BY <1>1, <1>2, <1>3, <1>4, <1>5, <1>7, StartsKeep, ApprovalKeeps, ChecksKeep, ClaimsKeep, LeaseExpiresKeeps,
     ApprovalLapsesKeeps DEF Next
<1> QED
  BY <1>6, <1>7

\* The journal starts in the invariant.
LEMMA StartsSound ==
  ASSUME JournalAssumption, Init
  PROVE  IInv
<1>1. StepsOf \in Seq(Nat) /\ MaxFence \in Nat /\ \A r \in Runs : StepsOf[r] \in Nat
  BY DEF JournalAssumption, Runs
<1>2. ASSUME NEW r \in Runs PROVE RowFits(r, row[r]) /\ Written(r) \subseteq {0} /\ row[r].fence = 0
                                /\ \A s \in 1 .. StepsOf[r] : row[r].steps[s] = "planned"
  <2>1. PICK steps : steps = [s \in 1 .. StepsOf[r] |-> "planned"]
    OBVIOUS
  <2>2. /\ steps \in StepMap(r) /\ DOMAIN steps = 1 .. StepsOf[r]
        /\ \A s \in 1 .. StepsOf[r] : steps[s] = "planned"
    BY <2>1 DEF StepMap, StepStates
  <2>3. PICK x, state, receipts :
          /\ x = row[r] /\ x = [steps |-> steps, state |-> state, receipts |-> receipts, fence |-> 0]
          /\ \/ state = "approved" /\ receipts = <<Receipt("approval", TRUE, 0, 0)>>
             \/ state = "drafted" /\ receipts = <<>>
    BY <2>1 DEF Init
  <2>4. PICK w : w = Receipt("approval", TRUE, 0, 0)
    OBVIOUS
  <2>5. w \in Receipts /\ w.fence = 0
    <3>1. PICK ok \in BOOLEAN : ok = TRUE
      OBVIOUS
    <3>2. w = [kind |-> "approval", ok |-> ok, step |-> 0, fence |-> 0, condition |-> "none"]
      BY <2>4, <3>1 DEF Receipt
    <3>3. 0 \in 0 .. MaxFence
      BY <1>1
    <3> QED
      BY <3>2, <3>3 DEF Receipts
  <2>6. receipts \in Seq(Receipts) /\ \A i \in 1 .. Len(receipts) : receipts[i] = w
    <3>1. receipts = <<w>> \/ receipts = <<>>
      BY <2>3, <2>4
    <3>2. w \in Receipts
      BY <2>5
    <3>3. CASE receipts = <<>>
      BY <3>3
    <3>4. CASE receipts = <<w>>
      <4>1. receipts \in Seq(Receipts)
        BY <3>2, <3>4
      <4>2. Len(receipts) = 1 /\ receipts[1] = w
        BY <3>4
      <4> QED
        BY <4>1, <4>2
    <3> QED
      BY <3>1, <3>3, <3>4
  <2>7. state = "approved" => 1 \in 1 .. Len(receipts)
    BY <2>3, <2>4
  <2>8. StepsFit(state, steps)
    BY <2>2, <2>3 DEF StepsFit
  <2>9. RowFits(r, x)
    <3>1. /\ x = [state |-> x.state, steps |-> x.steps, receipts |-> x.receipts, fence |-> x.fence]
          /\ x.state = state /\ x.steps = steps /\ x.receipts = receipts /\ x.fence = 0
      BY <2>3
    <3>2. state \in {"approved", "drafted"}
      BY <2>3
    <3>3. x.state \in States /\ x.fence \in 0 .. MaxFence
      BY <1>1, <3>1, <3>2 DEF States, Ready
    <3>4. x.state \notin {"drafted", "awaiting_approval"} => \E i \in 1 .. Len(x.receipts) : x.receipts[i].fence = 0
      BY <2>5, <2>6, <2>7, <3>1, <3>2
    <3>5. x.state # "succeeded"
      BY <3>1, <3>2
    <3> QED
      BY <2>2, <2>6, <2>8, <3>1, <3>3, <3>4, <3>5 DEF RowFits
  <2>10. row[r].receipts = receipts /\ row[r].fence = 0 /\ row[r].steps = steps /\ RowFits(r, row[r])
    BY <2>3, <2>9
  <2>11. Written(r) \subseteq {0}
    BY <2>5, <2>6, <2>10 DEF Written
  <2> QED
    BY <2>2, <2>10, <2>11
<1>3. LeaseFits /\ lease.fence = 0
  <2>1. PICK live \in BOOLEAN : live = FALSE
    OBVIOUS
  <2>2. lease = [run |-> NoRun, fence |-> 0, live |-> live]
    BY <2>1 DEF Init
  <2>3. \A q \in Runs : \A f \in Written(q) : f = 0
    BY <1>2
  <2> QED
    BY <1>1, <2>2, <2>3 DEF LeaseFits
<1>4. ASSUME NEW r \in Runs
      PROVE  /\ target[r] \in [1 .. StepsOf[r] -> Seq(1 .. MaxFence)]
             /\ \A s \in 1 .. StepsOf[r] : Under(r, s) = {} /\ Len(target[r][s]) = 0
  BY <1>1 DEF Init, Under
<1>5. TargetFits
  <2>1. ASSUME NEW r \in Runs
        PROVE  /\ row[r].fence <= lease.fence
               /\ \A s \in 1 .. StepsOf[r] :
                    /\ \A f \in Under(r, s) : f <= lease.fence
                    /\ \A i, j \in 1 .. Len(target[r][s]) : target[r][s][i] = target[r][s][j] => i = j
                    /\ row[r].steps[s] # "succeeded"
    BY <1>2, <1>3, <1>4
  <2> QED
    BY <1>4, <2>1 DEF TargetFits
<1>6. /\ row = [r \in Runs |-> row[r]] /\ target = [r \in Runs |-> target[r]]
      /\ calls = [c \in Calls |-> calls[c]] /\ \A c \in Calls : calls[c] = Idle
  BY DEF Init
<1>7. ClaimsDiffer
  BY <1>6 DEF ClaimsDiffer, Idle, Applying, Executing, Executed
<1> QED
  BY <1>2, <1>3, <1>5, <1>6, <1>7 DEF IInv, Init, JournalAssumption

\* The invariant gives the types and the two invariants.
LEMMA IInvImplies ==
  ASSUME Sound
  PROVE  TypeOK /\ SuccessIsEvidenced /\ AppliedOncePerLease
<1>1. TypeOK
  <2>1. ASSUME NEW r \in Runs
        PROVE  /\ row[r].state \in States
               /\ row[r].steps \in [1 .. StepsOf[r] -> StepStates]
               /\ row[r].receipts \in Seq(Receipts)
               /\ target[r] \in [1 .. StepsOf[r] -> Seq(1 .. MaxFence)]
               /\ \A f \in Written(r) \cup {row[r].fence} : f <= lease.fence
    BY RunFacts DEF Sound, IInv, LeaseFits, TargetFits
  <2>2. ASSUME NEW c \in Calls, calls[c] # Idle
        PROVE  /\ calls[c].run \in Runs /\ calls[c].claim <= lease.fence
               /\ calls[c].snap.fence <= lease.fence
               /\ calls[c].snap.seen <= Len(row[calls[c].run].receipts)
    BY <2>2 DEF Sound, IInv, CallFits, CallAgrees
  <2> QED
    BY <2>1, <2>2 DEF TypeOK, Sound, IInv, LeaseFits
<1>2. SuccessIsEvidenced
  <2>1. ASSUME NEW r \in Runs, row[r].state = "succeeded", NEW s \in 1 .. StepsOf[r]
        PROVE  row[r].steps[s] = "succeeded" /\ target[r][s] # <<>> /\ Seen(row[r].receipts, s)
    <3>1. DOMAIN row[r].steps = 1 .. StepsOf[r]
      BY RunFacts
    <3>2. row[r].steps[s] = "succeeded" /\ Seen(row[r].receipts, s)
      BY <2>1, <3>1, RunFacts DEF RowFits, StepsFit
    <3>3. Open(r)
      BY <2>1 DEF Open, Undone
    <3> QED
      BY <3>2, <3>3 DEF Sound, IInv, TargetFits
  <2> QED
    BY <2>1 DEF SuccessIsEvidenced, Seen
<1>3. AppliedOncePerLease
  BY DEF AppliedOncePerLease, Sound, IInv, TargetFits
<1> QED
  BY <1>1, <1>2, <1>3

---------------------------------------------------------------------------
(* The properties of the journal.                                          *)

\* Whatever the calls do, die and repeat, the journal is in the invariant.
THEOREM JournalInvariant == ASSUME JournalAssumption PROVE Spec => []IInv
<1>1. Init => IInv
  BY StartsSound
<1>2. IInv /\ [Next]_vars => IInv'
  BY NextKeeps DEF Sound
<1> QED
  BY <1>1, <1>2, PTL DEF Spec

\* No fence comes back, and no call has seen receipts that are not there.
THEOREM JournalTypes == ASSUME JournalAssumption PROVE Spec => []TypeOK
<1>1. IInv => TypeOK
  BY IInvImplies DEF Sound
<1> QED
  BY <1>1, JournalInvariant, PTL

\* A run succeeds only with each of its steps on the target, and with somebody who has
\* seen it there in its journal.
THEOREM JournalSuccess == ASSUME JournalAssumption PROVE Spec => []SuccessIsEvidenced
<1>1. IInv => SuccessIsEvidenced
  BY IInvImplies DEF Sound
<1> QED
  BY <1>1, JournalInvariant, PTL

\* Under one lease the executor gets a step at most once.
THEOREM JournalExecutesOnce == ASSUME JournalAssumption PROVE Spec => []AppliedOncePerLease
<1>1. IInv => AppliedOncePerLease
  BY IInvImplies DEF Sound
<1> QED
  BY <1>1, JournalInvariant, PTL

\* A run that is over stays as it is.
THEOREM JournalSettles == ASSUME JournalAssumption PROVE Spec => SettledRunsStaySettled
<1>1. IInv /\ [Next]_vars => [SettledRunsStaySettledStep]_vars
  BY NextKeeps DEF Sound, Orderly
<1> QED
  BY <1>1, JournalInvariant, PTL DEF Spec, SettledRunsStaySettled

\* Evidence of writes enters the journals in the order of its fences.
THEOREM JournalFollowsTheFence == ASSUME JournalAssumption PROVE Spec => WritesFollowTheFence
<1>1. IInv /\ [Next]_vars => [WritesFollowTheFenceStep]_vars
  BY NextKeeps DEF Sound, Orderly
<1> QED
  BY <1>1, JournalInvariant, PTL DEF Spec, WritesFollowTheFence

\* A call that was overtaken by a later lease changes nothing of its run.
THEOREM JournalFencesTheOvertaken == ASSUME JournalAssumption PROVE Spec => OvertakenCallsAreFenced
<1>1. IInv /\ [Next]_vars => [OvertakenCallsAreFencedStep]_vars
  BY NextKeeps DEF Sound, Orderly
<1> QED
  BY <1>1, JournalInvariant, PTL DEF Spec, OvertakenCallsAreFenced

=============================================================================
