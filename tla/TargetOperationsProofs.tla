---------------------- MODULE TargetOperationsProofs ----------------------
(***************************************************************************)
(* What holds of the companion queue for every number of operations,       *)
(* companions, releases and generations and for every lease time: the      *)
(* safety properties of TargetOperations that TLC checks on small          *)
(* instances.                                                              *)
(***************************************************************************)
EXTENDS TargetOperations, FiniteSetTheorems, TLAPS

---------------------------------------------------------------------------
(* Types.  Tokens are counted, so the set of grants has to stay finite.    *)

\* The types of the queue, with grants that can be counted.
TypeInv == TypeOK /\ IsFiniteSet(grants)

\* A new lease, an ended one and a running one fit the lease column.
LEMMA LeaseRange ==
  /\ 0 \in 0 .. LeaseTime
  /\ LeaseTime \in 0 .. LeaseTime
  /\ \A l \in 0 .. LeaseTime : Elapsed(l) \in 0 .. LeaseTime
  BY BoundsAssumption DEF Elapsed

\* The first generation exists.
LEMMA FirstGeneration == 1 \in Generations
  BY BoundsAssumption DEF Generations

\* They hold of the empty queue.
LEMMA InitTypes == Init => TypeInv
<1> SUFFICES ASSUME Init PROVE TypeInv
  OBVIOUS
<1>1. IsFiniteSet(grants)
  BY FS_EmptySet DEF Init
<1>2. TypeOK
  BY LeaseRange, FirstGeneration DEF Init, TypeOK, OpRecord, OpStates, ActiveStates, TerminalStates, Fences, NoRequest, Grant
<1> QED
  BY <1>1, <1>2 DEF TypeInv

\* A page holds operations of the queue that are queued or lapsed.
LEMMA PageRows == \A o \in NextPage : o \in Ops /\ Claimable(o)
  BY Zenon DEF NextPage, PageAfter

\* A request built from any rows of the queue is a request.
LEMMA RequestType ==
  ASSUME NEW g \in Generations, NEW rows \in SUBSET Ops
  PROVE  Request(g, rows) \in [gen : Generations, rows : SUBSET Ops]
  BY FirstGeneration DEF Request, NoRequest

\* Closing a row keeps it a row.
LEMMA ClosedType ==
  ASSUME NEW row \in OpRecord, NEW s \in TerminalStates
  PROVE  Closed(row, s) \in OpRecord
  BY LeaseRange DEF Closed, OpRecord, OpStates

\* Every statement, request and event keeps them.
LEMMA NextTypes == TypeInv /\ [Next]_vars => TypeInv'
<1> SUFFICES ASSUME TypeInv, [Next]_vars PROVE TypeInv'
  OBVIOUS
<1> USE DEF TypeInv, TypeOK
<1>1. ASSUME NEW o \in Ops, NEW to \in Versions, Schedule(o, to) PROVE TypeInv'
  <2> DEFINE row == [ops[o] EXCEPT !.state = "queued", !.gen = generation,
                                   !.from = evidence, !.to = to]
  <2>1. row \in OpRecord
    <3>1. /\ "queued" \in OpStates
          /\ ops[o] \in OpRecord
      BY DEF OpStates
    <3> QED
      BY <3>1, Zenon DEF OpRecord
  <2>2. ops' \in [Ops -> OpRecord]
    BY <1>1, <2>1 DEF Schedule
  <2> QED
    BY <1>1, <2>2 DEF Schedule, targetVars
<1>2. ASSUME NEW o \in Ops, Cancel(o) PROVE TypeInv'
  BY <1>2 DEF Cancel, targetVars, OpRecord, OpStates, TerminalStates
<1>3. ASSUME NEW h \in Holders, NEW g \in Generations, Poll(h, g) PROVE TypeInv'
  <2> DEFINE stale == {o \in NextPage : ops[o].gen # generation}
  <2>1. NextPage \subseteq Ops
    BY PageRows
  <2>2. ops' \in [Ops -> OpRecord]
    BY <1>3, ClosedType DEF Poll, TerminalStates
  <2>3. polls' \in [Holders -> [gen : Generations, rows : SUBSET Ops]]
    <3>1. Request(g, NextPage \ stale) \in [gen : Generations, rows : SUBSET Ops]
      BY <2>1, RequestType
    <3> QED
      BY <1>3, <3>1 DEF Poll
  <2>4. cursor' \in Ops \cup {0}
    BY <1>3, <2>1 DEF Poll
  <2> QED
    BY <1>3, <2>2, <2>3, <2>4 DEF Poll, targetVars
<1>4. ASSUME NEW h \in Holders, NEW o \in Ops, NextCandidate(h, o)
      PROVE polls' \in [Holders -> [gen : Generations, rows : SUBSET Ops]]
  BY <1>4, RequestType DEF NextCandidate
<1>5. ASSUME NEW h \in Holders, RequestEnds(h)
      PROVE polls' \in [Holders -> [gen : Generations, rows : SUBSET Ops]]
  BY <1>5, FirstGeneration DEF RequestEnds, NoRequest
<1>6. ASSUME NEW h \in Holders, ClaimStep(h) PROVE TypeInv'
  <2> PICK o \in Ops : \/ SkipCandidate(h, o) \/ ClaimExpires(h, o)
                       \/ ClaimPassesOver(h, o) \/ ClaimThrows(h, o)
                       \/ ClaimGranted(h, o)
    BY <1>6 DEF ClaimStep
  <2>1. CASE SkipCandidate(h, o)
    BY <2>1, <1>4 DEF SkipCandidate, targetVars
  <2>2. CASE ClaimExpires(h, o)
    <3>1. ops' \in [Ops -> OpRecord]
      BY <2>2, ClosedType DEF ClaimExpires, TerminalStates
    <3> QED
      BY <2>2, <3>1, <1>4 DEF ClaimExpires, targetVars
  <2>3. CASE ClaimPassesOver(h, o)
    BY <2>3, <1>4 DEF ClaimPassesOver, targetVars
  <2>4. CASE ClaimThrows(h, o)
    BY <2>4, <1>5 DEF ClaimThrows, targetVars
  <2>5. CASE ClaimGranted(h, o)
    <3> DEFINE token == Cardinality(grants) + 1
    <3>1. token \in Nat
      BY FS_CardinalityType
    <3> HIDE DEF token
    <3>2. PICK f \in 0 .. MaxFence - 1 :
            /\ ops' = [ops EXCEPT ![o] = [@ EXCEPT !.state = "claimed", !.fence = f + 1,
                                                   !.holder = h, !.token = token,
                                                   !.lease = LeaseTime]]
            /\ grants' = grants \cup
                 {[op |-> o, holder |-> h, token |-> token, fence |-> f + 1]}
      BY <2>5 DEF ClaimGranted, token
    <3>3. ops' \in [Ops -> OpRecord]
      <4>1. f + 1 \in Fences
        BY BoundsAssumption DEF Fences
      <4>2. "claimed" \in OpStates /\ ops[o] \in OpRecord
        BY DEF OpStates, ActiveStates
      <4>3. [ops[o] EXCEPT !.state = "claimed", !.fence = f + 1, !.holder = h,
                           !.token = token, !.lease = LeaseTime] \in OpRecord
        BY <3>1, <4>1, <4>2, LeaseRange DEF OpRecord
      <4> QED
        BY <3>2, <4>3
    <3>4. grants' \subseteq Grant
      BY <3>1, <3>2, BoundsAssumption DEF Grant, Fences
    <3>5. IsFiniteSet(grants')
      BY <3>2, FS_AddElement
    <3> QED
      BY <2>5, <3>3, <3>4, <3>5, <1>5 DEF ClaimGranted, targetVars
  <2> QED
    BY <2>1, <2>2, <2>3, <2>4, <2>5
<1>7. ASSUME NEW h \in Holders, PollDies(h) PROVE TypeInv'
  BY <1>7, <1>5 DEF PollDies, targetVars
<1>8. ASSUME NEW g \in grants, CompanionReport(g) PROVE TypeInv'
  <2>1. g.op \in Ops
    BY DEF Grant
  <2>2. ASSUME NEW s \in {"applying", "verifying"}, Advance(g, s) PROVE TypeInv'
    BY <2>1, <2>2 DEF Advance, targetVars, OpRecord, OpStates, ActiveStates
  <2>3. ASSUME NEW r \in {"succeeded", "failed"}, Complete(g, r) PROVE TypeInv'
    <3>1. ops' \in [Ops -> OpRecord]
      BY <2>1, <2>3, ClosedType DEF Complete, TerminalStates
    <3>2. ops[g.op].to \in Versions \cup {0}
      BY <2>1 DEF OpRecord
    <3> QED
      BY <2>3, <3>1, <3>2 DEF Complete, targetVars
  <2> QED
    BY <1>8, <2>2, <2>3 DEF CompanionReport
<1>9. ASSUME SyncStep PROVE TypeInv'
  <2>1. CASE SyncAcquire
    <3>1. PICK f \in 0 .. MaxSyncFence - 1 :
            sync' = [active |-> TRUE, fence |-> f + 1, lease |-> LeaseTime]
      BY <2>1 DEF SyncAcquire
    <3>2. f + 1 \in Fences
      BY BoundsAssumption DEF Fences
    <3> QED
      BY <2>1, <3>1, <3>2, LeaseRange DEF SyncAcquire, targetVars
  <2>2. CASE SyncRelease
    BY <2>2, LeaseRange DEF SyncRelease, targetVars
  <2> QED
    BY <1>9, <2>1, <2>2 DEF SyncStep
<1>10. ASSUME Tick PROVE TypeInv'
  BY <1>10, LeaseRange DEF Tick, targetVars, OpRecord
<1>11. ASSUME TargetStep PROVE TypeInv'
  <2>1. ASSUME NEW c \in Consents, SetConsent(c) PROVE TypeInv'
    BY <2>1, EnvironmentAssumption DEF SetConsent
  <2>2. ASSUME NEW p \in Policies, SetPolicy(p) PROVE TypeInv'
    BY <2>2, EnvironmentAssumption DEF SetPolicy
  <2>3. ASSUME NEW v \in Versions \cup {0}, Observe(v) PROVE TypeInv'
    BY <2>3 DEF Observe, targetVars
  <2>4. ASSUME AdvanceGeneration PROVE TypeInv'
    BY <2>4, BoundsAssumption DEF AdvanceGeneration, Generations
  <2> QED
    BY <1>11, <2>1, <2>2, <2>3, <2>4 DEF TargetStep
<1>12. ASSUME UNCHANGED vars PROVE TypeInv'
  BY <1>12 DEF vars
<1> QED
  BY <1>1, <1>2, <1>3, <1>6, <1>7, <1>8, <1>9, <1>10, <1>11, <1>12 DEF Next, PollStep

---------------------------------------------------------------------------
(* Which rows a step can touch.  Every safety property follows from these  *)
(* frames: only a grant makes a row live, only a grant or an acquired sync *)
(* lease changes a fence, and both need the target to be free.             *)

\* A step that gives the target to nobody: the live rows were live before, under
\* the same fence, and no fence and no grant is new.
GivesNothing ==
  /\ \A o \in Ops : ops'[o].fence = ops[o].fence /\ (Live(o)' => Live(o))
  /\ sync'.fence = sync.fence /\ (SyncLive' => SyncLive)
  /\ grants' = grants

\* A claim of o: its row alone changes, and its fence is one above the highest
\* of all.
GivesTo(o) ==
  /\ ~Busy(o) /\ o \in Ops /\ ~Live(o)
  /\ UNCHANGED sync
  /\ \A p \in Ops \ {o} : ops'[p] = ops[p]
  /\ ops'[o].fence \in Nat
  /\ ops'[o].fence > sync.fence
  /\ \A p \in Ops : ops'[o].fence > ops[p].fence
  /\ Live(o)' /\ \E f \in Nat : IsTargetFence(f) /\ ops'[o].fence = f + 1
  /\ \E k \in Grant : /\ k.op = o /\ k.fence = ops'[o].fence
                      /\ grants' = grants \cup {k}

\* A sync lease: the companions' rows stay, and the new fence is one above the
\* highest of all.
GivesToSync ==
  /\ ~SyncLive /\ \A o \in Ops : ~Live(o)
  /\ UNCHANGED <<ops, grants>>
  /\ sync'.fence \in Nat
  /\ sync'.fence > sync.fence
  /\ \A o \in Ops : sync'.fence > ops[o].fence
  /\ SyncLive' /\ \E f \in Nat : IsTargetFence(f) /\ sync'.fence = f + 1

\* Ending a claim touches neither the fence nor the plan of a row.
LEMMA ClosedFields ==
  ASSUME NEW row \in OpRecord, NEW s \in TerminalStates
  PROVE  /\ Closed(row, s).state = s /\ Closed(row, s).fence = row.fence
         /\ Closed(row, s).lease = 0 /\ Closed(row, s).holder = NoHolder
  BY DEF Closed, OpRecord

\* Only a claim and a sync lease give the target to somebody.
LEMMA StepFrames ==
  TypeInv /\ [Next]_vars => GivesNothing \/ (\E o \in Ops : GivesTo(o)) \/ GivesToSync
<1> SUFFICES ASSUME TypeInv, [Next]_vars
             PROVE  GivesNothing \/ (\E o \in Ops : GivesTo(o)) \/ GivesToSync
  OBVIOUS
<1>0. /\ ops \in [Ops -> OpRecord]
      /\ grants \subseteq Grant
      /\ sync \in [active : BOOLEAN, fence : Nat, lease : 0 .. LeaseTime]
  BY DEF TypeInv, TypeOK, Fences
<1>1. ASSUME UNCHANGED <<ops, sync, grants>> PROVE GivesNothing
  BY <1>1 DEF GivesNothing, Live, SyncLive
<1>2. ASSUME NEW o \in Ops, NEW to \in Versions, Schedule(o, to) PROVE GivesNothing
  BY <1>0, <1>2 DEF Schedule, GivesNothing, Live, SyncLive, OpRecord, ActiveStates
<1>3. ASSUME NEW o \in Ops, Cancel(o) PROVE GivesNothing
  BY <1>0, <1>3 DEF Cancel, GivesNothing, Live, SyncLive, OpRecord, ActiveStates
<1>4. ASSUME NEW rows \in SUBSET Ops, NEW s \in TerminalStates, UNCHANGED <<sync, grants>>,
             ops' = [o \in Ops |-> IF o \in rows THEN Closed(ops[o], s) ELSE ops[o]]
      PROVE  GivesNothing
  <2>1. \A o \in Ops : /\ ops'[o].fence = ops[o].fence
                       /\ o \in rows => ops'[o].state = s
                       /\ o \notin rows => ops'[o] = ops[o]
    BY <1>0, <1>4, ClosedFields
  <2> QED
    BY <1>4, <2>1 DEF GivesNothing, Live, SyncLive, TerminalStates, ActiveStates
<1>5. ASSUME NEW h \in Holders, NEW g \in Generations, Poll(h, g) PROVE GivesNothing
  <2> DEFINE stale == {o \in NextPage : ops[o].gen # generation}
  <2>1. /\ stale \in SUBSET Ops
        /\ ops' = [o \in Ops |-> IF o \in stale THEN Closed(ops[o], "expired") ELSE ops[o]]
        /\ UNCHANGED <<sync, grants>>
    BY <1>5, PageRows DEF Poll
  <2> QED
    BY <2>1, <1>4 DEF TerminalStates
<1>6. ASSUME NEW o \in Ops, NEW s \in TerminalStates, UNCHANGED <<sync, grants>>,
             ops' = [ops EXCEPT ![o] = Closed(@, s)]
      PROVE  GivesNothing
  <2>1. ops' = [p \in Ops |-> IF p \in {o} THEN Closed(ops[p], s) ELSE ops[p]]
    BY <1>0, <1>6
  <2> QED
    BY <2>1, <1>4, <1>6
<1>7. ASSUME NEW h \in Holders, NEW o \in Ops, ClaimGranted(h, o) PROVE GivesTo(o)
  <2> DEFINE token == Cardinality(grants) + 1
  <2>1. token \in Nat
    BY FS_CardinalityType DEF TypeInv
  <2> HIDE DEF token
  <2>2. PICK f \in 0 .. MaxFence - 1 :
          /\ IsTargetFence(f)
          /\ ops' = [ops EXCEPT ![o] = [@ EXCEPT !.state = "claimed", !.fence = f + 1,
                                                 !.holder = h, !.token = token,
                                                 !.lease = LeaseTime]]
          /\ grants' = grants \cup
               {[op |-> o, holder |-> h, token |-> token, fence |-> f + 1]}
    BY <1>7 DEF ClaimGranted, token
  <2>3. f \in Nat /\ f + 1 \in Nat
    BY BoundsAssumption
  <2>4. ops[o] \in OpRecord
    BY <1>0
  <2>5. ops'[o].fence = f + 1 /\ \A p \in Ops \ {o} : ops'[p] = ops[p]
    BY <1>0, <2>2, <2>4 DEF OpRecord
  <2>6. f + 1 > sync.fence /\ \A p \in Ops : f + 1 > ops[p].fence
    BY <1>0, <2>2, <2>3 DEF IsTargetFence, OpRecord, Fences
  <2>7. [op |-> o, holder |-> h, token |-> token, fence |-> f + 1] \in Grant
    BY <2>1, <2>3 DEF Grant, Fences
  <2>8. Live(o)' /\ ~Live(o)
    <3>1. Live(o)'
      BY <1>0, <2>2, <2>4, BoundsAssumption DEF Live, ActiveStates, OpRecord
    <3>2. Claimable(o)
      BY <1>7 DEF ClaimGranted
    <3> QED
      BY <2>4, <3>1, <3>2 DEF Claimable, Lapsed, Live, ActiveStates, OpRecord
  <2>9. \E n \in Nat : IsTargetFence(n) /\ ops'[o].fence = n + 1
    BY <2>2, <2>3, <2>5
  <2> QED
    BY <1>7, <2>2, <2>3, <2>5, <2>6, <2>7, <2>8, <2>9 DEF GivesTo, ClaimGranted
<1>8. ASSUME NEW h \in Holders, ClaimStep(h)
      PROVE  GivesNothing \/ \E o \in Ops : GivesTo(o)
  <2> PICK o \in Ops : \/ SkipCandidate(h, o) \/ ClaimExpires(h, o)
                       \/ ClaimPassesOver(h, o) \/ ClaimThrows(h, o)
                       \/ ClaimGranted(h, o)
    BY <1>8 DEF ClaimStep
  <2>1. CASE SkipCandidate(h, o)
    BY <2>1, <1>1 DEF SkipCandidate
  <2>2. CASE ClaimExpires(h, o)
    BY <2>2, <1>6 DEF ClaimExpires, TerminalStates
  <2>3. CASE ClaimPassesOver(h, o)
    BY <2>3, <1>1 DEF ClaimPassesOver
  <2>4. CASE ClaimThrows(h, o)
    BY <2>4, <1>1 DEF ClaimThrows
  <2>5. CASE ClaimGranted(h, o)
    BY <2>5, <1>7
  <2> QED
    BY <2>1, <2>2, <2>3, <2>4, <2>5
<1>9. ASSUME NEW h \in Holders, PollDies(h) PROVE GivesNothing
  BY <1>9, <1>1 DEF PollDies
<1>10. ASSUME NEW g \in grants, CompanionReport(g) PROVE GivesNothing
  <2>1. g.op \in Ops
    BY <1>0 DEF Grant
  <2>2. ASSUME NEW s \in {"applying", "verifying"}, Advance(g, s) PROVE GivesNothing
    <3>1. Live(g.op)
      BY <2>2 DEF Advance, CurrentClaim, Live, AdvanceFrom, ActiveStates
    <3>2. \A o \in Ops : ops'[o].fence = ops[o].fence /\ (o # g.op => ops'[o] = ops[o])
      BY <1>0, <2>1, <2>2 DEF Advance, OpRecord
    <3> QED
      BY <2>2, <3>1, <3>2 DEF Advance, GivesNothing, Live, SyncLive
  <2>3. ASSUME NEW r \in {"succeeded", "failed"}, Complete(g, r) PROVE GivesNothing
    BY <2>1, <2>3, <1>6 DEF Complete, TerminalStates
  <2> QED
    BY <1>10, <2>2, <2>3 DEF CompanionReport
<1>11. ASSUME SyncAcquire PROVE GivesToSync
  <2>1. PICK f \in 0 .. MaxSyncFence - 1 :
          /\ IsTargetFence(f)
          /\ sync' = [active |-> TRUE, fence |-> f + 1, lease |-> LeaseTime]
    BY <1>11 DEF SyncAcquire
  <2>2. f \in Nat
    BY BoundsAssumption
  <2>3. f + 1 > sync.fence /\ \A p \in Ops : f + 1 > ops[p].fence
    BY <1>0, <2>1, <2>2 DEF IsTargetFence, OpRecord, Fences
  <2>4. SyncLive'
    BY <2>1, BoundsAssumption DEF SyncLive
  <2>5. \E n \in Nat : IsTargetFence(n) /\ sync'.fence = n + 1
    BY <2>1, <2>2
  <2> QED
    BY <1>11, <2>1, <2>2, <2>3, <2>4, <2>5 DEF GivesToSync, SyncAcquire
<1>12. ASSUME SyncRelease PROVE GivesNothing
  BY <1>0, <1>12 DEF SyncRelease, GivesNothing, Live, SyncLive
<1>13. ASSUME Tick PROVE GivesNothing
  <2>1. \A o \in Ops : /\ ops'[o].fence = ops[o].fence /\ ops'[o].state = ops[o].state
                       /\ ops'[o].lease = Elapsed(ops[o].lease)
    BY <1>0, <1>13 DEF Tick, OpRecord
  <2>2. \A l \in 0 .. LeaseTime : Elapsed(l) > 0 => l > 0
    BY BoundsAssumption DEF Elapsed
  <2>3. \A o \in Ops : ops[o].lease \in 0 .. LeaseTime
    BY <1>0 DEF OpRecord
  <2>4. /\ sync'.fence = sync.fence /\ sync'.active = sync.active
        /\ sync'.lease = Elapsed(sync.lease) /\ sync.lease \in 0 .. LeaseTime
    BY <1>0, <1>13 DEF Tick
  <2>5. grants' = grants
    BY <1>13 DEF Tick
  <2> QED
    BY <2>1, <2>2, <2>3, <2>4, <2>5 DEF GivesNothing, Live, SyncLive
<1>14. ASSUME TargetStep PROVE GivesNothing
  BY <1>14, <1>1 DEF TargetStep, SetConsent, SetPolicy, Observe, AdvanceGeneration
<1>15. ASSUME UNCHANGED vars PROVE GivesNothing
  BY <1>15, <1>1 DEF vars
<1> QED
  BY <1>2, <1>3, <1>5, <1>8, <1>9, <1>10, <1>11, <1>12, <1>13, <1>14, <1>15
     DEF Next, PollStep, SyncStep

---------------------------------------------------------------------------
(* Mutual exclusion and fences.                                            *)

\* No grant carries a fence above the one its row has now.
GrantsBelowFence == \A g \in grants : g.fence <= ops[g.op].fence

\* The inductive invariant of the fences: one executor, whose claim has the top fence, and
\* grants whose fences the rows have reached and no two share.
IInv ==
  /\ TypeInv
  /\ OneExecutor
  /\ HolderHasTopFence
  /\ GrantsBelowFence
  /\ FencesUnique

\* It holds of the empty queue.
LEMMA InitIInv == Init => IInv
<1> SUFFICES ASSUME Init PROVE IInv
  OBVIOUS
<1>1. TypeInv
  BY InitTypes
<1>2. (\A o \in Ops : ~Live(o)) /\ ~SyncLive /\ grants = {}
  BY DEF Init, Live, SyncLive, ActiveStates
<1> QED
  BY <1>1, <1>2 DEF IInv, OneExecutor, HolderHasTopFence, GrantsBelowFence, FencesUnique

\* Every step keeps it.
LEMMA NextIInv == IInv /\ [Next]_vars => IInv'
<1> SUFFICES ASSUME IInv, [Next]_vars PROVE IInv'
  OBVIOUS
<1>1. TypeInv'
  BY NextTypes DEF IInv
<1>2. /\ \A o \in Ops : ops[o].fence \in Nat /\ ops'[o].fence \in Nat
      /\ sync.fence \in Nat /\ sync'.fence \in Nat
  BY <1>1 DEF IInv, TypeInv, TypeOK, OpRecord, Fences
<1>3. \A g \in grants : g \in Grant /\ g.op \in Ops /\ g.fence \in Nat
  BY DEF IInv, TypeInv, TypeOK, Grant, Fences
<1>4. ASSUME GivesNothing PROVE IInv'
  <2>1. OneExecutor'
    BY <1>4 DEF GivesNothing, IInv, OneExecutor
  <2>2. HolderHasTopFence'
    <3>1. \A f : IsTargetFence(f) => IsTargetFence(f)'
      BY <1>4 DEF GivesNothing, IsTargetFence
    <3> QED
      BY <1>4, <3>1 DEF GivesNothing, IInv, HolderHasTopFence
  <2>3. GrantsBelowFence'
    BY <1>3, <1>4 DEF GivesNothing, IInv, GrantsBelowFence
  <2>4. FencesUnique'
    BY <1>4 DEF GivesNothing, IInv, FencesUnique
  <2> QED
    BY <1>1, <2>1, <2>2, <2>3, <2>4 DEF IInv
<1>5. ASSUME NEW o \in Ops, GivesTo(o) PROVE IInv'
  <2>1. \A p \in Ops : Live(p)' => p = o
    BY <1>5 DEF GivesTo, Busy, Live
  <2>2. ~SyncLive'
    BY <1>5 DEF GivesTo, Busy, SyncLive
  <2>3. OneExecutor'
    BY <2>1, <2>2 DEF OneExecutor
  <2>4. \A p \in Ops : ops'[p].fence <= ops'[o].fence /\ ops[p].fence <= ops'[p].fence
    BY <1>2, <1>5 DEF GivesTo
  <2>5. HolderHasTopFence'
    <3>1. IsTargetFence(ops[o].fence)'
      BY <1>2, <1>5, <2>4 DEF GivesTo, IsTargetFence
    <3> QED
      BY <2>1, <2>2, <3>1 DEF HolderHasTopFence
  <2> PICK k \in Grant : /\ k.op = o /\ k.fence = ops'[o].fence
                         /\ grants' = grants \cup {k}
    BY <1>5 DEF GivesTo
  <2>6. GrantsBelowFence'
    <3>1. ASSUME NEW g \in grants PROVE g.fence <= ops'[g.op].fence
      <4>1. g.fence <= ops[g.op].fence
        BY DEF IInv, GrantsBelowFence
      <4> QED
        BY <1>2, <1>3, <2>4, <4>1
    <3>2. k.fence <= ops'[k.op].fence
      BY <1>2
    <3> QED
      BY <3>1, <3>2 DEF GrantsBelowFence
  <2>7. \A g \in grants : g.fence < k.fence
    <3>1. ASSUME NEW g \in grants PROVE g.fence < k.fence
      <4>1. g.fence <= ops[g.op].fence /\ ops[g.op].fence < ops'[o].fence
        BY <1>3, <1>5 DEF IInv, GrantsBelowFence, GivesTo
      <4> QED
        BY <1>2, <1>3, <4>1
    <3> QED
      BY <3>1
  <2>8. k.fence > sync.fence /\ sync' = sync
    BY <1>5 DEF GivesTo
  <2>9. FencesUnique'
    <3>1. \A g, l \in grants' : g.fence = l.fence => g = l
      BY <1>2, <1>3, <2>7 DEF IInv, FencesUnique
    <3>2. \A g \in grants' : g.fence # sync'.fence
      BY <1>2, <2>8 DEF IInv, FencesUnique
    <3> QED
      BY <3>1, <3>2 DEF FencesUnique
  <2> QED
    BY <1>1, <2>3, <2>5, <2>6, <2>9 DEF IInv
<1>6. ASSUME GivesToSync PROVE IInv'
  <2>1. \A o \in Ops : ~Live(o)'
    BY <1>6 DEF GivesToSync, Live
  <2>2. OneExecutor'
    BY <2>1 DEF OneExecutor
  <2>3. HolderHasTopFence'
    <3>1. IsTargetFence(sync.fence)'
      BY <1>2, <1>6 DEF GivesToSync, IsTargetFence
    <3> QED
      BY <2>1, <3>1 DEF HolderHasTopFence
  <2>4. GrantsBelowFence'
    BY <1>6 DEF GivesToSync, IInv, GrantsBelowFence
  <2>5. FencesUnique'
    <3>1. ASSUME NEW g \in grants PROVE g.fence < sync'.fence
      <4>1. g.fence <= ops[g.op].fence /\ ops[g.op].fence < sync'.fence
        BY <1>3, <1>6 DEF IInv, GrantsBelowFence, GivesToSync
      <4> QED
        BY <1>2, <1>3, <4>1
    <3> QED
      BY <1>2, <1>3, <1>6, <3>1 DEF GivesToSync, IInv, FencesUnique
  <2> QED
    BY <1>1, <2>2, <2>3, <2>4, <2>5 DEF IInv
<1> QED
  BY <1>4, <1>5, <1>6, StepFrames DEF IInv

\* It holds of every reachable queue.
LEMMA InvariantHolds == Spec => []IInv
  BY InitIInv, NextIInv, PTL DEF Spec

\* Every state of the queue, the sync lease, the polls and the target row has
\* its type.
THEOREM TypesCorrect == Spec => []TypeOK
<1>1. IInv => TypeOK
  BY DEF IInv, TypeInv
<1> QED
  BY <1>1, InvariantHolds, PTL

\* However many companions and sync runs contend, and however their leases
\* lapse, the target has at most one executor (claim and companionFence).
THEOREM MutualExclusion == Spec => []OneExecutor
<1>1. IInv => OneExecutor
  BY DEF IInv
<1> QED
  BY <1>1, InvariantHolds, PTL

\* The executor's fence is the highest the target ever gave out, over both
\* tables: the comparison with targetFence in advance and complete never
\* refuses the rightful holder.
THEOREM TopFenceHolds == Spec => []HolderHasTopFence
<1>1. IInv => HolderHasTopFence
  BY DEF IInv
<1> QED
  BY <1>1, InvariantHolds, PTL

\* No fence is ever given out twice, to companions or to sync runs.
THEOREM FencesNeverReused == Spec => []FencesUnique
<1>1. IInv => FencesUnique
  BY DEF IInv
<1> QED
  BY <1>1, InvariantHolds, PTL

---------------------------------------------------------------------------
(* Stale workers.                                                          *)

\* Only a grant and a report move a claimed row on, and both come from whoever
\* holds the target or takes it while it is free.
LEMMA ReportsAreFenced ==
  IInv /\ [Next]_vars =>
    \A o \in Ops : Reported(o) => ~Busy(o) /\ (Live(o) \/ ops'[o].fence > ops[o].fence)
<1> SUFFICES ASSUME IInv, [Next]_vars, NEW o \in Ops, Reported(o)
             PROVE  ~Busy(o) /\ (Live(o) \/ ops'[o].fence > ops[o].fence)
  OBVIOUS
<1>0. /\ ops \in [Ops -> OpRecord]
      /\ \A p \in Ops : ops[p].lease \in 0 .. LeaseTime
      /\ grants \subseteq Grant
  BY DEF IInv, TypeInv, TypeOK, OpRecord
<1>1. ops'[o] # ops[o]
  BY <1>0, BoundsAssumption DEF Reported
<1>2. ASSUME NEW rows \in SUBSET Ops,
             ops' = [p \in Ops |-> IF p \in rows THEN Closed(ops[p], "expired") ELSE ops[p]]
      PROVE  FALSE
  <2>1. Closed(ops[o], "expired").state = "expired"
    BY <1>0, ClosedFields DEF TerminalStates
  <2> QED
    BY <1>1, <1>2, <2>1 DEF Reported
<1>3. ASSUME NEW p \in Ops, NEW to \in Versions, Schedule(p, to) PROVE FALSE
  BY <1>0, <1>1, <1>3 DEF Schedule, Reported, ActiveStates
<1>4. ASSUME NEW p \in Ops, Cancel(p) PROVE FALSE
  BY <1>0, <1>1, <1>4 DEF Cancel, Reported, ActiveStates
<1>5. ASSUME NEW h \in Holders, NEW g \in Generations, Poll(h, g) PROVE FALSE
  <2> DEFINE stale == {p \in NextPage : ops[p].gen # generation}
  <2>1. /\ stale \in SUBSET Ops
        /\ ops' = [p \in Ops |-> IF p \in stale THEN Closed(ops[p], "expired") ELSE ops[p]]
    BY <1>5, PageRows DEF Poll
  <2> QED
    BY <1>2, <2>1
<1>6. ASSUME NEW h \in Holders, ClaimStep(h)
      PROVE  ~Busy(o) /\ ops'[o].fence > ops[o].fence
  <2> PICK p \in Ops : \/ SkipCandidate(h, p) \/ ClaimExpires(h, p)
                       \/ ClaimPassesOver(h, p) \/ ClaimThrows(h, p)
                       \/ ClaimGranted(h, p)
    BY <1>6 DEF ClaimStep
  <2>1. ops' # ops
    BY <1>1
  <2>2. CASE ClaimExpires(h, p)
    <3>1. ops' = [q \in Ops |-> IF q \in {p} THEN Closed(ops[q], "expired") ELSE ops[q]]
      BY <1>0, <2>2 DEF ClaimExpires
    <3> QED
      BY <1>2, <3>1
  <2>3. CASE ClaimGranted(h, p)
    <3>1. o = p
      BY <1>0, <1>1, <2>3 DEF ClaimGranted
    <3>2. ~Busy(p)
      BY <2>3 DEF ClaimGranted
    <3> DEFINE token == Cardinality(grants) + 1
    <3> HIDE DEF token
    <3>3. PICK f \in 0 .. MaxFence - 1 :
            /\ IsTargetFence(f)
            /\ ops' = [ops EXCEPT ![p] = [@ EXCEPT !.state = "claimed", !.fence = f + 1,
                                                   !.holder = h, !.token = token,
                                                   !.lease = LeaseTime]]
      BY <2>3 DEF ClaimGranted, token
    <3>4. ops'[p].fence = f + 1 /\ ops[p].fence <= f
      BY <1>0, <3>3 DEF OpRecord, IsTargetFence
    <3>5. f \in Nat /\ ops[p].fence \in Nat
      BY <1>0, BoundsAssumption DEF OpRecord, Fences
    <3> QED
      BY <3>1, <3>2, <3>4, <3>5
  <2> QED
    BY <2>1, <2>2, <2>3 DEF SkipCandidate, ClaimPassesOver, ClaimThrows
<1>7. ASSUME NEW g \in grants, CompanionReport(g) PROVE ~Busy(o) /\ Live(o)
  <2>1. o = g.op
    BY <1>0, <1>1, <1>7 DEF CompanionReport, Advance, Complete
  <2>2. Live(o)
    BY <1>7, <2>1 DEF CompanionReport, Advance, Complete, CurrentClaim, Live, AdvanceFrom,
                     ActiveStates
  <2> QED
    BY <2>2 DEF IInv, OneExecutor, Busy
<1>8. ASSUME Tick PROVE FALSE
  <2>1. ops'[o].state = ops[o].state /\ ops'[o].lease = Elapsed(ops[o].lease)
    BY <1>0, <1>8 DEF Tick, OpRecord
  <2> QED
    BY <1>0, <2>1, BoundsAssumption DEF Reported, Elapsed
<1>9. ASSUME UNCHANGED ops PROVE FALSE
  BY <1>1, <1>9
<1> QED
  BY <1>3, <1>4, <1>5, <1>6, <1>7, <1>8, <1>9
     DEF Next, PollStep, SyncStep, SyncAcquire, SyncRelease, PollDies, TargetStep,
         SetConsent, SetPolicy, Observe, AdvanceGeneration, vars

\* A worker whose claim lapsed can neither advance nor complete its operation:
\* progress comes from the unexpired claim, or from a new one under a higher fence.
THEOREM StaleWorkersAreFenced == Spec => StaleWorkerFenced
  BY InvariantHolds, ReportsAreFenced, PTL DEF Spec, StaleWorkerFenced, StaleWorkerFencedStep

---------------------------------------------------------------------------
(* What can happen to one row of the queue, and what follows: claim columns *)
(* are set exactly while a row is claimed, settled rows stay as they are, a *)
(* revoked target is frozen, and success is sound.                          *)

\* The claim of a row, as its companion was told of it.
ClaimOf(o, row) ==
  [op |-> o, holder |-> row.holder, token |-> row.token, fence |-> row.fence]

\* The ways a row changes: its lease runs down,
RowAged(o) == ops'[o] = [ops[o] EXCEPT !.lease = Elapsed(@)]

\* it is planned,
RowPlanned(o) ==
  /\ ops[o].state = "absent" /\ ops'[o].state = "queued"
  /\ ops'[o].holder = ops[o].holder /\ ops'[o].lease = ops[o].lease

\* it expires or is cancelled,
RowExpired(o) ==
  /\ ops[o].state \in {"queued"} \cup ActiveStates
  /\ ops'[o] = Closed(ops[o], "expired")
RowCancelled(o) ==
  ops[o].state = "queued" /\ ops'[o] = [ops[o] EXCEPT !.state = "cancelled"]

\* it is claimed,
RowClaimed(o) ==
  /\ ops[o].state \in {"queued"} \cup ActiveStates
  /\ ops'[o].state = "claimed" /\ ops'[o].holder \in Holders
  /\ ClaimOf(o, ops'[o]) \in grants'

\* or its companion reports progress, failure or success.
RowAdvanced(o) ==
  /\ ops[o].state \in ActiveStates /\ ops'[o].state \in {"applying", "verifying"}
  /\ ClaimOf(o, ops'[o]) = ClaimOf(o, ops[o])
RowCompleted(o) ==
  /\ ops[o].state \in ActiveStates
  /\ \/ ops'[o] = Closed(ops[o], "failed")
     \/ /\ ops'[o] = Closed(ops[o], "succeeded") /\ ops[o].state = "verifying"
        /\ Eligible(o) /\ SourceCurrent(o) /\ policy = "allows"

RowStep(o) ==
  \/ ops'[o] = ops[o]
  \/ RowAged(o)
  \/ /\ consent # "revoked"
     /\ \/ RowPlanned(o) \/ RowExpired(o) \/ RowCancelled(o)
        \/ RowClaimed(o) \/ RowAdvanced(o) \/ RowCompleted(o)

\* No step does anything else to a row, and no grant is forgotten.
LEMMA RowSteps ==
  ASSUME TypeInv, [Next]_vars, NEW o \in Ops
  PROVE  grants \subseteq grants' /\ RowStep(o)
<1>0. /\ ops \in [Ops -> OpRecord]
      /\ ops[o] \in OpRecord
      /\ grants \subseteq Grant
  BY DEF TypeInv, TypeOK
<1>1. ASSUME NEW p \in Ops, NEW to \in Versions, Schedule(p, to)
      PROVE  grants' = grants /\ RowStep(o)
  <2>1. CASE o = p
    <3>1. ops'[o] = [ops[o] EXCEPT !.state = "queued", !.gen = generation,
                                   !.from = evidence, !.to = to]
      BY <1>0, <1>1, <2>1 DEF Schedule
    <3>2. RowPlanned(o)
      BY <1>0, <1>1, <2>1, <3>1 DEF Schedule, RowPlanned, OpRecord
    <3> QED
      BY <1>1, <3>2 DEF Schedule, RowStep
  <2>2. CASE o # p
    BY <1>0, <1>1, <2>2 DEF Schedule, RowStep
  <2> QED
    BY <2>1, <2>2
<1>2. ASSUME NEW p \in Ops, Cancel(p) PROVE grants' = grants /\ RowStep(o)
  BY <1>0, <1>2 DEF Cancel, RowStep, RowCancelled
<1>3. ASSUME NEW h \in Holders, NEW g \in Generations, Poll(h, g)
      PROVE  grants' = grants /\ RowStep(o)
  <2>1. \A p \in NextPage : ops[p].state \in {"queued"} \cup ActiveStates
    BY PageRows DEF Claimable, Lapsed
  <2>2. \/ ops'[o] = ops[o]
        \/ o \in NextPage /\ ops'[o] = Closed(ops[o], "expired")
    BY <1>3 DEF Poll
  <2> QED
    BY <1>3, <2>1, <2>2 DEF Poll, RowStep, RowExpired
<1>4. ASSUME NEW h \in Holders, ClaimStep(h) PROVE grants \subseteq grants' /\ RowStep(o)
  <2> PICK p \in Ops : \/ SkipCandidate(h, p) \/ ClaimExpires(h, p)
                       \/ ClaimPassesOver(h, p) \/ ClaimThrows(h, p)
                       \/ ClaimGranted(h, p)
    BY <1>4 DEF ClaimStep
  <2>1. CASE SkipCandidate(h, p) \/ ClaimPassesOver(h, p) \/ ClaimThrows(h, p)
    BY <2>1 DEF SkipCandidate, ClaimPassesOver, ClaimThrows, RowStep
  <2>2. CASE ClaimExpires(h, p)
    BY <1>0, <2>2 DEF ClaimExpires, ClaimRuns, RowStep, RowExpired
  <2>3. CASE ClaimGranted(h, p)
    <3> DEFINE token == Cardinality(grants) + 1
    <3> HIDE DEF token
    <3>1. PICK f \in 0 .. MaxFence - 1 :
            /\ ops' = [ops EXCEPT ![p] = [@ EXCEPT !.state = "claimed", !.fence = f + 1,
                                                   !.holder = h, !.token = token,
                                                   !.lease = LeaseTime]]
            /\ grants' = grants \cup
                 {[op |-> p, holder |-> h, token |-> token, fence |-> f + 1]}
      BY <2>3 DEF ClaimGranted, token
    <3>2. CASE o = p
      <4>1. ops'[o] = [ops[o] EXCEPT !.state = "claimed", !.fence = f + 1, !.holder = h,
                                     !.token = token, !.lease = LeaseTime]
        BY <1>0, <3>1, <3>2
      <4>2. /\ ops'[o].state = "claimed" /\ ops'[o].holder = h
            /\ ops'[o].token = token /\ ops'[o].fence = f + 1
        BY <1>0, <4>1 DEF OpRecord
      <4>3. ops[o].state \in {"queued"} \cup ActiveStates
        BY <2>3, <3>2 DEF ClaimGranted, Claimable, Lapsed
      <4>4. RowClaimed(o)
        BY <3>1, <3>2, <4>2, <4>3 DEF RowClaimed, ClaimOf
      <4> QED
        BY <2>3, <3>1, <4>4 DEF ClaimGranted, ClaimRuns, RowStep
    <3>3. CASE o # p
      BY <1>0, <3>1, <3>3 DEF RowStep
    <3> QED
      BY <3>2, <3>3
  <2> QED
    BY <2>1, <2>2, <2>3
<1>5. ASSUME NEW g \in grants, NEW s \in {"applying", "verifying"}, Advance(g, s)
      PROVE  grants' = grants /\ RowStep(o)
  <2>1. CASE o = g.op
    <3>1. ops'[o] = [ops[o] EXCEPT !.state = s, !.lease = LeaseTime]
      BY <1>0, <1>5, <2>1 DEF Advance
    <3>2. ops[o].state \in ActiveStates
      BY <1>5, <2>1 DEF Advance, AdvanceFrom, ActiveStates
    <3>3. RowAdvanced(o)
      BY <1>0, <3>1, <3>2 DEF RowAdvanced, ClaimOf, OpRecord
    <3> QED
      BY <1>5, <3>3 DEF Advance, RowStep
  <2>2. CASE o # g.op
    BY <1>0, <1>5, <2>2 DEF Advance, RowStep
  <2> QED
    BY <2>1, <2>2
<1>6. ASSUME NEW g \in grants, NEW r \in {"succeeded", "failed"}, Complete(g, r)
      PROVE  grants' = grants /\ RowStep(o)
  <2>1. CASE o = g.op
    <3>1. ops'[o] = Closed(ops[o], r) /\ ops[o].state \in ActiveStates
      BY <1>0, <1>6, <2>1 DEF Complete, ActiveStates
    <3>2. RowCompleted(o)
      BY <1>6, <2>1, <3>1 DEF Complete, RowCompleted
    <3> QED
      BY <1>6, <3>2 DEF Complete, RowStep
  <2>2. CASE o # g.op
    BY <1>0, <1>6, <2>2 DEF Complete, RowStep
  <2> QED
    BY <2>1, <2>2
<1>7. ASSUME Tick PROVE grants' = grants /\ RowStep(o)
  BY <1>0, <1>7 DEF Tick, RowStep, RowAged
<1>8. ASSUME UNCHANGED <<ops, grants>> PROVE grants' = grants /\ RowStep(o)
  BY <1>8 DEF RowStep
<1> QED
  BY <1>1, <1>2, <1>3, <1>4, <1>5, <1>6, <1>7, <1>8
     DEF Next, PollStep, CompanionReport, SyncStep, SyncAcquire, SyncRelease, PollDies,
         TargetStep, SetConsent, SetPolicy, Observe, AdvanceGeneration, vars

---------------------------------------------------------------------------
(* Claim columns.                                                          *)

\* The columns of one row: a claim that was really given out while the row is
\* claimed, none and no lease otherwise.  The lease part makes it inductive and
\* keeps the clock from touching a settled row.
RowColumns(o) ==
  /\ ops[o].state \in ActiveStates <=> ops[o].holder # NoHolder
  /\ ops[o].state \in ActiveStates => ClaimOf(o, ops[o]) \in grants
  /\ ops[o].state \notin ActiveStates => ops[o].lease = 0

\* The claim columns of every row agree with its state.
ColumnsInv == TypeInv /\ \A o \in Ops : RowColumns(o)

\* A closed row holds no claim.
LEMMA ClosedColumns ==
  ASSUME TypeInv, NEW o \in Ops, NEW s \in TerminalStates, ops'[o] = Closed(ops[o], s)
  PROVE  RowColumns(o)'
<1>1. ops[o] \in OpRecord
  BY DEF TypeInv, TypeOK
<1>2. ops'[o].state = s /\ ops'[o].lease = 0 /\ ops'[o].holder = NoHolder
  BY <1>1, ClosedFields
<1> QED
  BY <1>2 DEF RowColumns, TerminalStates, ActiveStates

\* Every step keeps them in agreement.
LEMMA NextColumns == ColumnsInv /\ [Next]_vars => ColumnsInv'
<1> SUFFICES ASSUME ColumnsInv, [Next]_vars, NEW o \in Ops PROVE RowColumns(o)'
  BY NextTypes DEF ColumnsInv
<1>0. TypeInv /\ ops[o] \in OpRecord /\ RowColumns(o)
  BY DEF ColumnsInv, TypeInv, TypeOK
<1>1. grants \subseteq grants' /\ RowStep(o)
  BY <1>0, RowSteps
<1>2. CASE ops'[o] = ops[o]
  BY <1>0, <1>1, <1>2 DEF RowColumns, ClaimOf
<1>3. CASE RowAged(o)
  <2>1. /\ ops'[o].state = ops[o].state /\ ops'[o].holder = ops[o].holder
        /\ ops'[o].token = ops[o].token /\ ops'[o].fence = ops[o].fence
        /\ ops'[o].lease = Elapsed(ops[o].lease)
    BY <1>0, <1>3 DEF RowAged, OpRecord
  <2>2. Elapsed(0) = 0
    BY DEF Elapsed
  <2> QED
    BY <1>0, <1>1, <2>1, <2>2 DEF RowColumns, ClaimOf
<1>4. CASE RowPlanned(o)
  BY <1>0, <1>4 DEF RowPlanned, RowColumns, ActiveStates
<1>5. CASE RowExpired(o)
  BY <1>0, <1>5, ClosedColumns DEF RowExpired, TerminalStates
<1>6. CASE RowCancelled(o)
  <2>1. /\ ops'[o].state = "cancelled" /\ ops'[o].holder = ops[o].holder
        /\ ops'[o].lease = ops[o].lease
    BY <1>0, <1>6 DEF RowCancelled, OpRecord
  <2> QED
    BY <1>0, <1>6, <2>1 DEF RowCancelled, RowColumns, ActiveStates
<1>7. CASE RowClaimed(o)
  BY <1>7, HolderAssumption DEF RowClaimed, RowColumns, ActiveStates
<1>8. CASE RowAdvanced(o)
  <2>1. ops'[o].holder = ops[o].holder
    BY <1>8 DEF RowAdvanced, ClaimOf
  <2> QED
    BY <1>0, <1>1, <1>8, <2>1 DEF RowAdvanced, RowColumns, ActiveStates
<1>9. CASE RowCompleted(o)
  BY <1>0, <1>9, ClosedColumns DEF RowCompleted, TerminalStates
<1> QED
  BY <1>1, <1>2, <1>3, <1>4, <1>5, <1>6, <1>7, <1>8, <1>9 DEF RowStep

\* They agree in an empty queue.
LEMMA InitColumns == Init => ColumnsInv
  BY InitTypes DEF Init, ColumnsInv, RowColumns, ActiveStates

\* They hold of every reachable row.
LEMMA ColumnsHold == Spec => []ColumnsInv
  BY InitColumns, NextColumns, PTL DEF Spec

\* A row is claimed exactly while its claim columns are set, and its claim was
\* really given to the holder named in it (the claim_pair and claim_state
\* constraints of the table, which every statement has to keep).
THEOREM ClaimColumnsHold == Spec => []ClaimColumns
<1>1. ColumnsInv => ClaimColumns
  BY DEF ColumnsInv, RowColumns, ClaimColumns, ClaimOf
<1> QED
  BY <1>1, ColumnsHold, PTL

---------------------------------------------------------------------------
(* What is settled stays settled, and what succeeds was allowed to.        *)

\* No step of the queue changes a settled row.
LEMMA SettledStays == ColumnsInv /\ [Next]_vars => SettledIsFinalStep
<1> SUFFICES ASSUME ColumnsInv, [Next]_vars, NEW o \in Ops, ops[o].state \in TerminalStates
             PROVE  ops'[o] = ops[o]
  BY DEF SettledIsFinalStep
<1>1. ops[o] \in OpRecord /\ ops[o].lease = 0
  BY DEF ColumnsInv, RowColumns, TypeInv, TypeOK, TerminalStates, ActiveStates
<1>2. RowStep(o)
  BY RowSteps DEF ColumnsInv
<1>3. ops'[o] = ops[o] \/ RowAged(o)
  BY <1>2 DEF RowStep, RowPlanned, RowExpired, RowCancelled, RowClaimed, RowAdvanced,
              RowCompleted, TerminalStates, ActiveStates
<1>4. CASE RowAged(o)
  <2>1. Elapsed(ops[o].lease) = ops[o].lease
    BY <1>1 DEF Elapsed
  <2> QED
    BY <1>1, <1>4, <2>1 DEF RowAged, OpRecord
<1> QED
  BY <1>3, <1>4

\* A settled operation never changes again: not by a report of an old claim, not
\* by a page listed before it was settled, and not by the clock.
THEOREM SettledRowsAreFinal == Spec => SettledIsFinal
  BY SettledStays, ColumnsHold, PTL DEF Spec, SettledIsFinal

\* Once its target is revoked, no operation ever changes state again.
THEOREM RevokedTargetsAreFrozen == Spec => RevokedIsFrozen
<1>1. ColumnsInv /\ [Next]_vars =>
        (consent = "revoked" => \A o \in Ops : ops'[o].state = ops[o].state)
  <2> SUFFICES ASSUME ColumnsInv, [Next]_vars, consent = "revoked", NEW o \in Ops
               PROVE  ops'[o].state = ops[o].state
    OBVIOUS
  <2>1. ops[o] \in OpRecord
    BY DEF ColumnsInv, TypeInv, TypeOK
  <2>2. ops'[o] = ops[o] \/ RowAged(o)
    BY RowSteps DEF ColumnsInv, RowStep
  <2> QED
    BY <2>1, <2>2 DEF RowAged, OpRecord
<1> QED
  BY <1>1, ColumnsHold, PTL DEF Spec, RevokedIsFrozen, RevokedIsFrozenStep

\* No step of the queue records a success that the moment does not allow.
LEMMA SuccessIsAllowed == ColumnsInv /\ [Next]_vars => SuccessIsSoundStep
<1> SUFFICES ASSUME ColumnsInv, [Next]_vars, NEW o \in Ops,
                    ops[o].state # "succeeded", ops'[o].state = "succeeded"
             PROVE  /\ consent = "granted" /\ policy = "allows"
                    /\ ops[o].gen = generation
                    /\ ops[o].state = "verifying"
                    /\ evidence \in {ops[o].from, ops[o].to}
  BY DEF SuccessIsSoundStep
<1>1. ops[o] \in OpRecord
  BY DEF ColumnsInv, TypeInv, TypeOK
<1>2. RowStep(o)
  BY RowSteps DEF ColumnsInv
<1>3. Closed(ops[o], "expired").state = "expired" /\ Closed(ops[o], "failed").state = "failed"
  BY <1>1, ClosedFields DEF TerminalStates
<1>4. ~RowAged(o) /\ ~RowCancelled(o)
  BY <1>1 DEF RowAged, RowCancelled, OpRecord
<1>5. RowCompleted(o)
  BY <1>2, <1>3, <1>4 DEF RowStep, RowPlanned, RowExpired, RowClaimed, RowAdvanced
<1> QED
  BY <1>3, <1>5 DEF RowCompleted, Eligible, SourceCurrent

\* A success is recorded only on an open, consenting target of the generation
\* the operation was planned for, from the verifying state, and while the
\* evidence shows where the plan started or where it leads.
THEOREM SuccessesAreSound == Spec => SuccessIsSound
  BY SuccessIsAllowed, ColumnsHold, PTL DEF Spec, SuccessIsSound

---------------------------------------------------------------------------
(* The queue and the sync lease implement TargetTickets.                    *)

\* Some fence is the highest: with any number of rows a maximum must be shown.
TopExists == \E f \in Nat : IsTargetFence(f)

\* With the invariant of the fences there is always a highest one.
TicketInv == IInv /\ TopExists

\* The highest fence is unique, so TopFence is it.
LEMMA TopIsTop ==
  ASSUME TypeInv, NEW f \in Nat, IsTargetFence(f)
  PROVE  TopFence = f
<1>1. /\ \A o \in Ops : ops[o].fence \in Nat
      /\ sync.fence \in Nat
  BY DEF TypeInv, TypeOK, OpRecord, Fences
<1>2. f \in {sync.fence} \cup {ops[o].fence : o \in Ops}
  BY DEF IsTargetFence
<1>3. \A g \in {sync.fence} \cup {ops[o].fence : o \in Ops} : IsTargetFence(g) => g = f
  BY <1>1 DEF IsTargetFence
<1> QED
  BY <1>2, <1>3 DEF TopFence

\* The one live row is the holder.
LEMMA HolderIsLive ==
  ASSUME IInv
  PROVE  /\ SyncLive => HeldBy = 0
         /\ \A o \in Ops : Live(o) => HeldBy = o
         /\ (~SyncLive /\ \A o \in Ops : ~Live(o)) => HeldBy = -1
<1>1. ASSUME NEW o \in Ops, Live(o) PROVE HeldBy = o
  <2>1. ~SyncLive /\ \A p \in Ops : Live(p) => p = o
    BY <1>1 DEF IInv, OneExecutor
  <2>2. (CHOOSE p \in Ops : Live(p)) = o
    BY <1>1, <2>1
  <2> QED
    BY <1>1, <2>1, <2>2 DEF HeldBy
<1>2. SyncLive => HeldBy = 0
  BY DEF HeldBy
<1>3. (~SyncLive /\ \A o \in Ops : ~Live(o)) => HeldBy = -1
  BY DEF HeldBy
<1> QED
  BY <1>1, <1>2, <1>3

\* Both, in the state after a step.
LEMMA TopIsTopNext == (TypeInv => \A f \in Nat : IsTargetFence(f) => TopFence = f)'
<1>1. TypeInv => \A f \in Nat : IsTargetFence(f) => TopFence = f
  BY TopIsTop
<1> QED
  BY <1>1, PTL

\* The holder likewise.
LEMMA HolderIsLiveNext ==
  (IInv => /\ SyncLive => HeldBy = 0
           /\ \A o \in Ops : Live(o) => HeldBy = o
           /\ (~SyncLive /\ \A o \in Ops : ~Live(o)) => HeldBy = -1)'
<1>1. IInv => /\ SyncLive => HeldBy = 0
              /\ \A o \in Ops : Live(o) => HeldBy = o
              /\ (~SyncLive /\ \A o \in Ops : ~Live(o)) => HeldBy = -1
  BY HolderIsLive
<1> QED
  BY <1>1, PTL

\* The empty queue is a ticket machine that has issued nothing.
LEMMA InitTickets == Init => TicketInv /\ Tickets!Init
<1> SUFFICES ASSUME Init PROVE TicketInv /\ Tickets!Init
  OBVIOUS
<1>1. IInv /\ TypeInv
  BY InitIInv DEF IInv
<1>2. IsTargetFence(0)
  BY DEF Init, IsTargetFence
<1>3. TopFence = 0
  BY <1>1, <1>2, TopIsTop
<1>4. (\A o \in Ops : ~Live(o)) /\ ~SyncLive
  BY DEF Init, Live, SyncLive, ActiveStates
<1>5. HeldBy = -1
  BY <1>1, <1>4, HolderIsLive
<1> QED
  BY <1>1, <1>2, <1>3, <1>5 DEF TicketInv, TopExists, Tickets!Init

\* Every step of the queue is a step of the tickets, or changes neither the
\* holder nor the ticket.
LEMMA NextTickets ==
  TicketInv /\ [Next]_vars => TicketInv' /\ [Tickets!Next]_(Tickets!vars)
<1> SUFFICES ASSUME TicketInv, [Next]_vars
             PROVE  TicketInv' /\ [Tickets!Next]_(Tickets!vars)
  OBVIOUS
<1> USE DEF Tickets!Next, Tickets!vars, Tickets!Take, Tickets!Leave
<1>1. IInv /\ TypeInv /\ IInv' /\ TypeInv'
  BY NextIInv DEF TicketInv, IInv
<1>2. PICK f \in Nat : IsTargetFence(f)
  BY DEF TicketInv, TopExists
<1>3. TopFence = f
  BY <1>1, <1>2, TopIsTop
<1>4. \A g \in Nat : IsTargetFence(g) => g = f
  BY <1>1, <1>3, TopIsTop
<1>5. \A g \in Nat : IsTargetFence(g)' => TopExists' /\ TopFence' = g
  BY <1>1, TopIsTopNext DEF TopExists
<1>6. /\ SyncLive' => HeldBy' = 0
      /\ \A o \in Ops : Live(o)' => HeldBy' = o
      /\ (~SyncLive' /\ \A o \in Ops : ~Live(o)') => HeldBy' = -1
  BY <1>1, HolderIsLiveNext
<1>7. CASE GivesNothing
  <2>1. IsTargetFence(f)'
    BY <1>2, <1>7 DEF GivesNothing, IsTargetFence
  <2>2. TopExists' /\ TopFence' = TopFence
    BY <1>3, <1>5, <2>1
  <2>3. HeldBy' = HeldBy \/ (HeldBy' = -1 /\ HeldBy # -1)
    BY <1>1, <1>6, <1>7, HolderIsLive DEF GivesNothing
  <2> QED
    BY <1>1, <2>2, <2>3 DEF TicketInv
<1>8. ASSUME NEW o \in Ops, GivesTo(o)
      PROVE  TicketInv' /\ Tickets!Take(o)
  <2>1. ops'[o].fence = f + 1 /\ IsTargetFence(ops[o].fence)'
    <3>1. /\ \A p \in Ops : ops[p].fence \in Nat /\ ops'[p].fence \in Nat
          /\ sync.fence \in Nat
      BY <1>1 DEF TypeInv, TypeOK, OpRecord, Fences
    <3>2. \A p \in Ops : ops'[o].fence >= ops'[p].fence
      BY <1>8, <3>1 DEF GivesTo
    <3> QED
      BY <1>4, <1>8, <3>1, <3>2 DEF GivesTo, IsTargetFence
  <2>2. TopExists' /\ TopFence' = TopFence + 1
    BY <1>3, <1>5, <2>1
  <2>3. HeldBy' = o
    BY <1>6, <1>8 DEF GivesTo
  <2>4. ~SyncLive /\ \A p \in Ops : ~Live(p)
    BY <1>8 DEF GivesTo, Busy
  <2>5. HeldBy = -1
    BY <1>1, <2>4, HolderIsLive
  <2> QED
    BY <1>1, <2>2, <2>3, <2>5 DEF TicketInv
<1>9. CASE GivesToSync
  <2>1. sync'.fence = f + 1 /\ IsTargetFence(sync.fence)'
    <3>1. /\ \A p \in Ops : ops[p].fence \in Nat
          /\ sync'.fence \in Nat
      BY <1>1 DEF TypeInv, TypeOK, OpRecord, Fences
    <3> QED
      BY <1>4, <1>9, <3>1 DEF GivesToSync, IsTargetFence
  <2>2. TopExists' /\ TopFence' = TopFence + 1
    BY <1>3, <1>5, <2>1
  <2>3. HeldBy' = 0 /\ HeldBy = -1
    BY <1>1, <1>6, <1>9, HolderIsLive DEF GivesToSync
  <2> QED
    BY <1>1, <2>2, <2>3 DEF TicketInv
<1> QED
  BY <1>1, <1>7, <1>8, <1>9, StepFrames

\* The queue of companions together with the sync leases implements a target
\* that one party holds at a time and that hands out growing tickets: claim,
\* advance, complete, expiry, lapses and the sync lease have no other effect on
\* who may change the target.
THEOREM QueueImplementsTickets == Spec => ImplementsTickets
<1>1. Spec => [][Tickets!Next]_(Tickets!vars)
  BY InitTickets, NextTickets, PTL DEF Spec
<1>2. Spec => Tickets!Init
  BY InitTickets DEF Spec
<1> QED
  BY <1>1, <1>2, PTL DEF ImplementsTickets, Tickets!Spec
===========================================================================
