-------------------------- MODULE CompanionProofs ---------------------------
(***************************************************************************)
(* What holds of companions at work for any number of them, any lengths of *)
(* leases and any budget of claims, deaths, lost answers and edits: the    *)
(* properties MCSync checks on two companions, as theorems about Companion.*)
(***************************************************************************)
EXTENDS Companion, TLAPS

---------------------------------------------------------------------------
(* Queues of renewals.                                                     *)

\* Reading what was appended.
LEMMA Appending ==
  ASSUME NEW T, NEW seq \in Seq(T), NEW x \in T
  PROVE  /\ Append(seq, x) \in Seq(T)
         /\ Len(seq) \in Nat
         /\ Len(Append(seq, x)) = Len(seq) + 1
         /\ \A i \in 1 .. Len(seq) : Append(seq, x)[i] = seq[i] /\ seq[i] \in T
         /\ Append(seq, x)[Len(seq) + 1] = x
         /\ Append(seq, x) # <<>>
OBVIOUS

\* What is appended comes last.
LEMMA HeadStays ==
  ASSUME NEW T, NEW seq \in Seq(T), seq # <<>>, NEW x \in T
  PROVE  Head(Append(seq, x)) = Head(seq)
<1>1. Len(seq) \in Nat \ {0} /\ Head(seq) = seq[1]
  OBVIOUS
<1>2. Append(seq, x)[1] = seq[1] /\ Append(seq, x) \in Seq(T) /\ Append(seq, x) # <<>>
  BY <1>1
<1>3. Head(Append(seq, x)) = Append(seq, x)[1]
  BY <1>2
<1> QED
  BY <1>1, <1>2, <1>3

\* Reading what is left when the first has gone.
LEMMA Tailing ==
  ASSUME NEW T, NEW seq \in Seq(T), seq # <<>>
  PROVE  /\ Tail(seq) \in Seq(T)
         /\ Len(seq) \in Nat \ {0}
         /\ Len(Tail(seq)) = Len(seq) - 1
         /\ \A i \in 1 .. Len(Tail(seq)) : Tail(seq)[i] = seq[i + 1]
         /\ Head(seq) = seq[1] /\ seq[1] \in T
OBVIOUS

\* A renewal that joins the queue: one of the timer while there is none, one of the
\* command when it begins to wait.
LEMMA AskedFits ==
  ASSUME NEW m, QueueFits(m), NEW e \in Asked, NEW n,
         n.queue = Append(m.queue, e), n.said = m.said, Len(m.queue) <= 1,
         \A i \in 1 .. Len(m.queue) :
            m.queue[i].state = m.said /\ ~(m.queue[i].by = "timer" <=> e.by = "timer"),
         e.by = "timer" => e.state = m.said /\ n.at = m.at,
         e.by # "timer" => n.at = "wait",
         e.by \in {"read", "move", "promote"} => m.said = "applying" /\ e.state = "applying",
         e.by \in {"readback", "report"} => e.state = "verifying",
         e.state # m.said => m.said = "applying"
  PROVE  QueueFits(n)
<1>1. m.queue \in Seq(Asked)
  BY DEF QueueFits
<1>2. PICK q : q = m.queue /\ q \in Seq(Asked) /\ Len(q) <= 1
  BY <1>1
<1>3. /\ Append(q, e) \in Seq(Asked) /\ Len(q) \in Nat /\ Len(Append(q, e)) = Len(q) + 1
      /\ \A i \in 1 .. Len(q) : Append(q, e)[i] = q[i]
      /\ Append(q, e)[Len(q) + 1] = e
  BY <1>2, Appending
<1>4. n.queue = Append(q, e)
  BY <1>2
<1>5. ASSUME NEW i \in 1 .. Len(n.queue)
      PROVE  LET d == n.queue[i] IN
             /\ d.by = "timer" => d.state = n.said
             /\ d.by # "timer" => n.at = "wait"
             /\ d.by \in {"read", "move", "promote"} => n.said = "applying" /\ d.state = "applying"
             /\ d.by \in {"readback", "report"} => d.state = "verifying"
             /\ d.state # n.said => n.said = "applying" /\ i = Len(n.queue)
  <2>1. CASE i = Len(q) + 1
    <3>1. n.queue[i] = e /\ i = Len(n.queue)
      BY <1>3, <1>4, <2>1
    <3> QED
      BY <3>1
  <2>2. CASE i # Len(q) + 1
    <3>1. i \in 1 .. Len(q) /\ n.queue[i] = m.queue[i]
      BY <1>2, <1>3, <1>4, <2>2
    <3> QED
      BY <3>1, <1>2 DEF QueueFits
  <2> QED
    BY <2>1, <2>2
<1>6. ASSUME NEW i \in 1 .. Len(n.queue), NEW j \in 1 .. Len(n.queue),
             n.queue[i].by = "timer" <=> n.queue[j].by = "timer"
      PROVE  i = j
  <2>1. CASE Len(q) = 0
    BY <1>3, <1>4, <2>1
  <2>2. CASE Len(q) = 1
    <3>1. n.queue[1] = m.queue[1] /\ n.queue[2] = e /\ i \in {1, 2} /\ j \in {1, 2} /\ 1 \in 1 .. Len(m.queue)
      BY <1>2, <1>3, <1>4, <2>2
    <3> QED
      BY <3>1, <1>6
  <2>3. Len(q) \in {0, 1}
    <3>1. \A k \in Nat : k <= 1 => k \in {0, 1}
      OBVIOUS
    <3> QED
      BY <1>2, <1>3, <3>1, Zenon
  <2> QED
    BY <2>1, <2>2, <2>3
<1> QED
  BY <1>1, <1>2, <1>3, <1>4, <1>5, <1>6 DEF QueueFits

\* When the renewal at the head has been granted, what is left fits, and the command
\* goes on if the renewal was its own.
LEMMA GrantedFits ==
  ASSUME NEW m, QueueFits(m), m.queue # <<>>, NEW n, Head(m.queue).state = m.said,
         n.queue = Tail(m.queue), n.said = m.said,
         n.at = IF Head(m.queue).by = "timer" THEN m.at ELSE Head(m.queue).by
  PROVE  /\ QueueFits(n)
         /\ Head(m.queue) = m.queue[1] /\ 1 \in 1 .. Len(m.queue) /\ m.queue[1] \in Asked
         /\ \A i \in 1 .. Len(n.queue) : i + 1 \in 1 .. Len(m.queue) /\ n.queue[i] = m.queue[i + 1]
<1>1. m.queue \in Seq(Asked)
  BY DEF QueueFits
<1>2. PICK q : q = m.queue /\ q \in Seq(Asked)
  BY <1>1
<1>3. /\ Tail(q) \in Seq(Asked) /\ Len(q) \in Nat \ {0} /\ Len(Tail(q)) = Len(q) - 1
      /\ \A i \in 1 .. Len(Tail(q)) : Tail(q)[i] = q[i + 1]
      /\ Head(q) = q[1] /\ q[1] \in Asked
  BY <1>2, Tailing
<1>8. m.queue = q /\ n.queue = Tail(q) /\ Len(m.queue) <= 2
  BY <1>2 DEF QueueFits
<1>4. /\ n.queue \in Seq(Asked) /\ Len(n.queue) = Len(m.queue) - 1 /\ Len(m.queue) \in 1 .. 2
      /\ Head(m.queue) = m.queue[1] /\ 1 \in 1 .. Len(m.queue) /\ m.queue[1] \in Asked
      /\ \A i \in 1 .. Len(n.queue) : i + 1 \in 1 .. Len(m.queue) /\ n.queue[i] = m.queue[i + 1]
  BY <1>3, <1>8
<1>5. ASSUME NEW i \in 1 .. Len(n.queue)
      PROVE  LET d == n.queue[i] IN
             /\ d.by = "timer" => d.state = n.said
             /\ d.by # "timer" => n.at = "wait"
             /\ d.by \in {"read", "move", "promote"} => n.said = "applying" /\ d.state = "applying"
             /\ d.by \in {"readback", "report"} => d.state = "verifying"
             /\ d.state # n.said => n.said = "applying" /\ i = Len(n.queue)
  <2>1. i + 1 \in 1 .. Len(m.queue) /\ n.queue[i] = m.queue[i + 1] /\ i + 1 # 1
    BY <1>4
  <2>2. ~(m.queue[1].by = "timer" <=> m.queue[i + 1].by = "timer")
    BY <2>1, <1>4 DEF QueueFits
  <2> QED
    BY <2>1, <2>2, <1>4 DEF QueueFits
<1>6. ASSUME NEW i \in 1 .. Len(n.queue), NEW j \in 1 .. Len(n.queue)
      PROVE  i = j
  BY <1>4
<1> QED
  BY <1>4, <1>5, <1>6 DEF QueueFits

---------------------------------------------------------------------------
(* The frame of every step.                                                *)

\* The constants are as assumed and the state is in the invariant.
Sound == CompanionAssumption /\ IInv

\* TypeOK without the queues.
StateFits ==
  /\ now \in 0..MaxTime /\ withdrawn \in BOOLEAN
  /\ op \in [state : Active \cup {"queued", "succeeded", "failed"}, fence : 0..MaxClaims, expires : 0..MaxTime + LeaseTime]
  /\ lock \in Companions \cup {NoCompanion}
  /\ disk \in [tree : 0..3, registry : 1..2,
               journal : {"none", "prepared", "previous-staged", "installed", "registry-committed"}]
  /\ checked \in [Companions -> BOOLEAN]
  /\ seen \subseteq 1..MaxClaims
  /\ stops \in 0..MaxStops /\ edits \in 0..MaxEdits

\* The invariant has the types of everything but the queues.
LEMMA StateOfSound ==
  ASSUME Sound
  PROVE  StateFits /\ calls \subseteq Requests
BY DEF Sound, IInv, TypeOK, StateFits

\* At most one companion is at work: it has the lock.
LEMMA OneWorks ==
  ASSUME Sound, NEW p \in Companions, ~At(p, "gone")
  PROVE  /\ lock = p /\ CliFits(cli[p]) /\ CliAgrees(p, cli[p]) /\ p # NoCompanion
         /\ \A r \in Companions : r # p => At(r, "gone")
<1>1. \A r \in Companions : ~At(r, "gone") => lock = r /\ CliFits(cli[r]) /\ CliAgrees(r, cli[r])
  BY DEF Sound, IInv, CliAgrees
<1>2. p # NoCompanion
  BY DEF Sound, CompanionAssumption
<1> QED
  BY <1>1, <1>2

\* One companion turns to n.
Turns(p, n) == cli' = [cli EXCEPT ![p] = n]

\* After it only p is another, and cli is still a function.
LEMMA OnlyItTurns ==
  ASSUME Sound, NEW p \in Companions, NEW n, Turns(p, n)
  PROVE  /\ cli'[p] = n
         /\ \A r \in Companions : r # p => cli'[r] = cli[r]
         /\ cli' = [r \in Companions |-> cli'[r]]
<1>1. cli = [r \in Companions |-> cli[r]]
  BY DEF Sound, IInv
<1>2. PICK old : old = cli
  OBVIOUS
<1>3. old = [r \in Companions |-> old[r]]
  BY <1>1, <1>2
<1>4. cli' = [r \in Companions |-> IF r = p THEN n ELSE old[r]]
  BY <1>2, <1>3 DEF Turns
<1> HIDE DEF Turns
<1> QED
  BY <1>2, <1>4

\* A companion at work turns to what fits and agrees with all the rest.
LEMMA TurnKeeps ==
  ASSUME Sound, NEW p \in Companions, ~At(p, "gone"), NEW n, Turns(p, n), CliFits(n),
         CliAgrees(p, n)', StateFits', CallsFit', SuccessIsReadBack'
  PROVE  IInv'
<1>1. /\ cli'[p] = n
      /\ \A r \in Companions : r # p => cli'[r] = cli[r]
      /\ cli' = [r \in Companions |-> cli'[r]]
  BY OnlyItTurns
<1>2. \A r \in Companions : r # p => At(r, "gone")
  BY OneWorks
<1>3. \A r \in Companions : r # p => At(r, "gone")'
  BY <1>1, <1>2 DEF At
<1>4. \A r \in Companions : ~At(r, "gone")' => r = p
  BY <1>3
<1>5. CliAgrees(p, cli[p])'
  BY <1>1 DEF CliAgrees
<1>6. Len(cli'[p].queue) <= 2
  BY <1>1 DEF CliFits, QueueFits
<1>7. \A r \in Companions : (~At(r, "gone"))' => CliFits(cli'[r]) /\ CliAgrees(r, cli[r])'
  BY <1>1, <1>4, <1>5
<1>8. calls' \subseteq Requests
  BY DEF CallsFit
<1>9. TypeOK'
  BY <1>3, <1>6, <1>8 DEF TypeOK, StateFits
<1> QED
  BY <1>1, <1>7, <1>9 DEF IInv

\* What a renewal on its way needs of its companion's turn.
Carries(m, n) ==
  /\ n.said = m.said
  /\ m.failed => n.failed
  /\ m.at \in {"succeeded", "failed"} => n.at = m.at

\* The requests stay while their companion turns to something that carries them.
LEMMA CallsStay ==
  ASSUME Sound, NEW p \in Companions, ~At(p, "gone"), NEW n, Turns(p, n), n.at # "gone",
         UNCHANGED <<calls, op>>, seen \subseteq seen', Carries(cli[p], n),
         OnItsWay(p) /\ cli[p].queue # <<>> => n.queue # <<>> /\ Head(n.queue) = Head(cli[p].queue)
  PROVE  CallsFit'
<1>1. /\ cli'[p] = n
      /\ \A r \in Companions : r # p => cli'[r] = cli[r]
  BY OnlyItTurns
<1>2. \A r \in Companions : At(r, "gone")' => At(r, "gone")
  BY <1>1 DEF At
<1>3. calls' = calls /\ op' = op /\ Renewals' = Renewals /\ calls \subseteq Requests
  BY StateOfSound DEF Renewals
<1>4. CallsFit
  BY DEF Sound, IInv
<1>5. ASSUME NEW q \in calls
      PROVE  /\ q.fence <= op.fence
             /\ q.from # NoCompanion => (~At(q.from, "gone"))'
             /\ q.from # NoCompanion => q.fence = op.fence
             /\ q.from # NoCompanion /\ q.state \in {"succeeded", "failed"} => At(q.from, q.state)'
             /\ q.state = "succeeded" => q.fence \in seen'
  <2>1. q.from \in Companions \/ q.from = NoCompanion
    BY <1>3 DEF Requests
  <2>2. q.from # NoCompanion /\ q.state \in {"succeeded", "failed"} => At(q.from, q.state)'
    <3>1. SUFFICES ASSUME q.from # NoCompanion, q.state \in {"succeeded", "failed"}
                   PROVE  At(q.from, q.state)'
      OBVIOUS
    <3>2. At(q.from, q.state) /\ q.from \in Companions
      BY <1>4, <2>1, <3>1 DEF CallsFit
    <3> QED
      BY <1>1, <3>1, <3>2 DEF At, Carries
  <2> QED
    BY <1>2, <1>4, <2>1, <2>2 DEF CallsFit
<1>6. ASSUME NEW q \in Renewals, q.fence = op.fence
      PROVE  RenewalAgrees(q)'
  <2>1. RenewalAgrees(q)
    BY <1>4, <1>6 DEF CallsFit
  <2>2. ASSUME NEW r \in Companions, (~At(r, "gone"))'
        PROVE  /\ q.state = cli'[r].said
               /\ q.from = r => cli'[r].queue # <<>> /\ Head(cli'[r].queue).state = cli'[r].said
               /\ q.from = NoCompanion => cli'[r].failed
    <3>1. r = p
      BY <1>1, <2>2, OneWorks DEF At
    <3>2. /\ q.state = cli[p].said
          /\ q.from = p => cli[p].queue # <<>> /\ Head(cli[p].queue).state = cli[p].said
          /\ q.from = NoCompanion => cli[p].failed
      BY <2>1 DEF RenewalAgrees
    <3>3. q.from = p => OnItsWay(p)
      BY DEF OnItsWay
    <3> QED
      BY <1>1, <3>1, <3>2, <3>3 DEF Carries
  <2> QED
    BY <1>3, <2>1, <2>2 DEF RenewalAgrees
<1> QED
  BY <1>3, <1>5, <1>6 DEF CallsFit

---------------------------------------------------------------------------
(* What a companion can turn to.                                           *)

\* A companion with these fields.
Cli(at, fence, expires, failed, said, queue, timer, stopped) ==
  [at |-> at, fence |-> fence, expires |-> expires, failed |-> failed, said |-> said,
   queue |-> queue, timer |-> timer, stopped |-> stopped]

\* The fields of a companion.
LEMMA FieldsOf ==
  ASSUME NEW at, NEW fence, NEW expires, NEW failed, NEW said, NEW queue, NEW timer, NEW stopped,
         NEW n, n = Cli(at, fence, expires, failed, said, queue, timer, stopped)
  PROVE  /\ n.at = at /\ n.fence = fence /\ n.expires = expires /\ n.failed = failed
         /\ n.said = said /\ n.queue = queue /\ n.timer = timer /\ n.stopped = stopped
BY DEF Cli

\* What the steps of the command change.
LEMMA GoingIs ==
  ASSUME NEW m, CliFits(m), NEW at
  PROVE  [m EXCEPT !.at = at]
           = Cli(at, m.fence, m.expires, m.failed, m.said, m.queue, m.timer, m.stopped)
<1>1. PICK f, e, x, s, q, t, z, a :
        m = [at |-> a, fence |-> f, expires |-> e, failed |-> x, said |-> s, queue |-> q,
             timer |-> t, stopped |-> z]
  BY DEF CliFits
<1> HIDE DEF CliFits
<1> QED
  BY <1>1 DEF Cli

\* What sending a renewal changes.
LEMMA SendingIs ==
  ASSUME NEW m, CliFits(m), NEW s
  PROVE  [m EXCEPT !.said = s]
           = Cli(m.at, m.fence, m.expires, m.failed, s, m.queue, m.timer, m.stopped)
<1>1. PICK f0, e0, x0, s0, q0, t0, z0, a0 :
        m = [at |-> a0, fence |-> f0, expires |-> e0, failed |-> x0, said |-> s0, queue |-> q0,
             timer |-> t0, stopped |-> z0]
  BY DEF CliFits
<1> HIDE DEF CliFits
<1> QED
  BY <1>1 DEF Cli

\* What asking for a renewal changes.
LEMMA RenewTurns ==
  ASSUME NEW p \in Companions, CliFits(cli[p]), NEW at, NEW by, NEW s, Renew(p, by, s, at)
  PROVE  \E n : /\ Turns(p, n)
               /\ n = [at |-> n.at, fence |-> n.fence, expires |-> n.expires, failed |-> n.failed,
                       said |-> n.said, queue |-> n.queue, timer |-> n.timer, stopped |-> n.stopped]
               /\ n.at = at /\ n.fence = cli[p].fence /\ n.failed = cli[p].failed /\ n.said = cli[p].said
               /\ n.queue = Append(cli[p].queue, [by |-> by, state |-> s])
<1>1. PICK f0, e0, x0, s0, q0, t0, z0, a0 :
        cli[p] = [at |-> a0, fence |-> f0, expires |-> e0, failed |-> x0, said |-> s0, queue |-> q0,
                  timer |-> t0, stopped |-> z0]
  BY DEF CliFits
<1>2. PICK m : m = cli[p]
  OBVIOUS
<1>3. PICK t, q :
        t = (cli[p].timer /\ by # "timer") /\ q = Append(cli[p].queue, [by |-> by, state |-> s])
  OBVIOUS
<1>4. PICK n : n = [m EXCEPT !.at = at, !.timer = t, !.queue = q]
  OBVIOUS
<1>5. Turns(p, n)
  BY <1>2, <1>3, <1>4, Zenon DEF Renew, Turns
<1> HIDE DEF CliFits, Renew, Turns
<1>6. PICK m1 : m1 = [m EXCEPT !.at = at]
  OBVIOUS
<1>7. m1 =
         [at |-> at, fence |-> f0, expires |-> e0, failed |-> x0, said |-> s0, queue |-> q0,
          timer |-> t0, stopped |-> z0]
  BY <1>1, <1>2, <1>6
<1>8. PICK m2 : m2 = [m1 EXCEPT !.timer = t]
  OBVIOUS
<1>9. m2 =
         [at |-> at, fence |-> f0, expires |-> e0, failed |-> x0, said |-> s0, queue |-> q0,
          timer |-> t, stopped |-> z0]
  BY <1>7, <1>8
<1>10. n = [m2 EXCEPT !.queue = q]
  BY <1>4, <1>6, <1>8, Zenon
<1>11. n =
         [at |-> at, fence |-> f0, expires |-> e0, failed |-> x0, said |-> s0, queue |-> q,
          timer |-> t, stopped |-> z0]
  BY <1>9, <1>10
<1>12. /\ cli[p].at = a0 /\ cli[p].fence = f0 /\ cli[p].failed = x0 /\ cli[p].said = s0
      /\ cli[p].queue = q0
  BY <1>1
<1>13. /\ n.at = at
      /\ n.fence = f0
      /\ n.expires = e0
      /\ n.failed = x0
      /\ n.said = s0
      /\ n.queue = q
      /\ n.timer = t
      /\ n.stopped = z0
  BY ONLY <1>11
<1> QED
  BY ONLY <1>3, <1>5, <1>11, <1>12, <1>13, Zenon

\* What a failed renewal changes.
LEMMA FailedTurns ==
  ASSUME NEW p \in Companions, CliFits(cli[p]), Failed(p)
  PROVE  \E n : /\ Turns(p, n)
               /\ n = [at |-> n.at, fence |-> n.fence, expires |-> n.expires, failed |-> n.failed,
                       said |-> n.said, queue |-> n.queue, timer |-> n.timer, stopped |-> n.stopped]
               /\ n.fence = cli[p].fence /\ n.failed = TRUE /\ n.said = cli[p].said /\ n.queue = <<>>
               /\ n.at = IF cli[p].at = "wait" THEN "fail" ELSE cli[p].at
<1>1. PICK f0, e0, x0, s0, q0, t0, z0, a0 :
        cli[p] = [at |-> a0, fence |-> f0, expires |-> e0, failed |-> x0, said |-> s0, queue |-> q0,
                  timer |-> t0, stopped |-> z0]
  BY DEF CliFits
<1>2. PICK m : m = cli[p]
  OBVIOUS
<1>3. PICK x, q, t, a :
        x = TRUE /\ q = <<>> /\ t = FALSE /\ a = IF cli[p].at = "wait" THEN "fail" ELSE cli[p].at
  OBVIOUS
<1>4. PICK n : n = [m EXCEPT !.failed = x, !.queue = q, !.timer = t, !.at = a]
  OBVIOUS
<1>5. Turns(p, n)
  BY <1>2, <1>3, <1>4, Zenon DEF Failed, Turns, At
<1> HIDE DEF CliFits, Failed, Turns
<1>6. PICK m1 : m1 = [m EXCEPT !.failed = x]
  OBVIOUS
<1>7. m1 =
         [at |-> a0, fence |-> f0, expires |-> e0, failed |-> x, said |-> s0, queue |-> q0,
          timer |-> t0, stopped |-> z0]
  BY <1>1, <1>2, <1>6
<1>8. PICK m2 : m2 = [m1 EXCEPT !.queue = q]
  OBVIOUS
<1>9. m2 =
         [at |-> a0, fence |-> f0, expires |-> e0, failed |-> x, said |-> s0, queue |-> q,
          timer |-> t0, stopped |-> z0]
  BY <1>7, <1>8
<1>10. PICK m3 : m3 = [m2 EXCEPT !.timer = t]
  OBVIOUS
<1>11. m3 =
         [at |-> a0, fence |-> f0, expires |-> e0, failed |-> x, said |-> s0, queue |-> q,
          timer |-> t, stopped |-> z0]
  BY <1>9, <1>10
<1>12. n = [m3 EXCEPT !.at = a]
  BY <1>4, <1>6, <1>8, <1>10, Zenon
<1>13. n =
         [at |-> a, fence |-> f0, expires |-> e0, failed |-> x, said |-> s0, queue |-> q,
          timer |-> t, stopped |-> z0]
  BY <1>11, <1>12
<1>14. /\ cli[p].at = a0 /\ cli[p].fence = f0 /\ cli[p].failed = x0 /\ cli[p].said = s0
      /\ cli[p].queue = q0
  BY <1>1
<1>15. /\ n.at = a
      /\ n.fence = f0
      /\ n.expires = e0
      /\ n.failed = x
      /\ n.said = s0
      /\ n.queue = q
      /\ n.timer = t
      /\ n.stopped = z0
  BY ONLY <1>13
<1> QED
  BY ONLY <1>3, <1>5, <1>13, <1>14, <1>15, Zenon

\* What a granted renewal changes.
LEMMA RenewedTurns ==
  ASSUME NEW p \in Companions, CliFits(cli[p]), Renewed(p)
  PROVE  \E n : /\ Turns(p, n)
               /\ n = [at |-> n.at, fence |-> n.fence, expires |-> n.expires, failed |-> n.failed,
                       said |-> n.said, queue |-> n.queue, timer |-> n.timer, stopped |-> n.stopped]
               /\ n.fence = cli[p].fence /\ n.failed = cli[p].failed /\ n.said = cli[p].said
               /\ n.queue = Tail(cli[p].queue)
               /\ n.at = IF Head(cli[p].queue).by = "timer" THEN cli[p].at ELSE Head(cli[p].queue).by
<1>1. PICK f0, e0, x0, s0, q0, t0, z0, a0 :
        cli[p] = [at |-> a0, fence |-> f0, expires |-> e0, failed |-> x0, said |-> s0, queue |-> q0,
                  timer |-> t0, stopped |-> z0]
  BY DEF CliFits
<1>2. PICK m : m = cli[p]
  OBVIOUS
<1>3. PICK e, q, b, a :
        e = now + LeaseTime /\ q = Tail(cli[p].queue) /\ b = ~cli[p].stopped /\ a = IF Head(cli[p].queue).by = "timer" THEN cli[p].at ELSE Head(cli[p].queue).by
  OBVIOUS
<1>4. PICK n : n = [m EXCEPT !.expires = e, !.queue = q, !.timer = b, !.at = a]
  OBVIOUS
<1>5. Turns(p, n)
  BY <1>2, <1>3, <1>4, Zenon DEF Renewed, Turns
<1> HIDE DEF CliFits, Renewed, Turns
<1>6. PICK m1 : m1 = [m EXCEPT !.expires = e]
  OBVIOUS
<1>7. m1 =
         [at |-> a0, fence |-> f0, expires |-> e, failed |-> x0, said |-> s0, queue |-> q0,
          timer |-> t0, stopped |-> z0]
  BY <1>1, <1>2, <1>6
<1>8. PICK m2 : m2 = [m1 EXCEPT !.queue = q]
  OBVIOUS
<1>9. m2 =
         [at |-> a0, fence |-> f0, expires |-> e, failed |-> x0, said |-> s0, queue |-> q,
          timer |-> t0, stopped |-> z0]
  BY <1>7, <1>8
<1>10. PICK m3 : m3 = [m2 EXCEPT !.timer = b]
  OBVIOUS
<1>11. m3 =
         [at |-> a0, fence |-> f0, expires |-> e, failed |-> x0, said |-> s0, queue |-> q,
          timer |-> b, stopped |-> z0]
  BY <1>9, <1>10
<1>12. n = [m3 EXCEPT !.at = a]
  BY <1>4, <1>6, <1>8, <1>10, Zenon
<1>13. n =
         [at |-> a, fence |-> f0, expires |-> e, failed |-> x0, said |-> s0, queue |-> q,
          timer |-> b, stopped |-> z0]
  BY <1>11, <1>12
<1>14. /\ cli[p].at = a0 /\ cli[p].fence = f0 /\ cli[p].failed = x0 /\ cli[p].said = s0
      /\ cli[p].queue = q0
  BY <1>1
<1>15. /\ n.at = a
      /\ n.fence = f0
      /\ n.expires = e
      /\ n.failed = x0
      /\ n.said = s0
      /\ n.queue = q
      /\ n.timer = b
      /\ n.stopped = z0
  BY ONLY <1>13
<1> QED
  BY ONLY <1>3, <1>5, <1>13, <1>14, <1>15, Zenon

\* What stop changes.
LEMMA StoppingIs ==
  ASSUME NEW m, CliFits(m)
  PROVE  [m EXCEPT !.at = "leave", !.stopped = TRUE, !.timer = FALSE]
           = Cli("leave", m.fence, m.expires, m.failed, m.said, m.queue, FALSE, TRUE)
<1>1. PICK f0, e0, x0, s0, q0, t0, z0, a0 :
        m = [at |-> a0, fence |-> f0, expires |-> e0, failed |-> x0, said |-> s0, queue |-> q0,
             timer |-> t0, stopped |-> z0]
  BY DEF CliFits
<1>2. PICK a, z, t : a = "leave" /\ z = TRUE /\ t = FALSE
  OBVIOUS
<1> HIDE DEF CliFits
<1>3. PICK m1 : m1 = [m EXCEPT !.at = a]
  OBVIOUS
<1>4. m1 =
         [at |-> a, fence |-> f0, expires |-> e0, failed |-> x0, said |-> s0, queue |-> q0,
          timer |-> t0, stopped |-> z0]
  BY <1>1, <1>3
<1>5. PICK m2 : m2 = [m1 EXCEPT !.stopped = z]
  OBVIOUS
<1>6. m2 =
         [at |-> a, fence |-> f0, expires |-> e0, failed |-> x0, said |-> s0, queue |-> q0,
          timer |-> t0, stopped |-> z]
  BY <1>4, <1>5
<1>7. [m2 EXCEPT !.timer = t] =
         [at |-> a, fence |-> f0, expires |-> e0, failed |-> x0, said |-> s0, queue |-> q0,
          timer |-> t, stopped |-> z]
  BY <1>6
<1>8. [m EXCEPT !.at = a, !.stopped = z, !.timer = t]
       = [m2 EXCEPT !.timer = t]
  BY <1>3, <1>5, Zenon
<1>9. [m EXCEPT !.at = a, !.stopped = z, !.timer = t] =
         [at |-> a, fence |-> f0, expires |-> e0, failed |-> x0, said |-> s0, queue |-> q0,
          timer |-> t, stopped |-> z]
  BY <1>7, <1>8
<1>10. /\ m.at = a0 /\ m.fence = f0 /\ m.expires = e0 /\ m.failed = x0 /\ m.said = s0
      /\ m.queue = q0 /\ m.timer = t0 /\ m.stopped = z0
  BY <1>1
<1> QED
  BY <1>2, <1>9, <1>10, Zenon DEF Cli

---------------------------------------------------------------------------
(* Steps on the disk, and from place to place.                             *)

\* A companion that goes elsewhere, does not wait and keeps its queue.
LEMMA GoFits ==
  ASSUME NEW m, CliFits(m), m.at # "wait", NEW at \in Places,
         at \in Executing => m.said = "applying", NEW timer, NEW stopped,
         NEW n, n = Cli(at, m.fence, m.expires, m.failed, m.said, m.queue, timer, stopped)
  PROVE  CliFits(n)
<1>1. /\ n.at = at /\ n.fence = m.fence /\ n.expires = m.expires /\ n.failed = m.failed
      /\ n.said = m.said /\ n.queue = m.queue /\ n.timer = timer /\ n.stopped = stopped
  BY FieldsOf
<1>2. n = [at |-> n.at, fence |-> n.fence, expires |-> n.expires, failed |-> n.failed,
           said |-> n.said, queue |-> n.queue, timer |-> n.timer, stopped |-> n.stopped]
  BY <1>1, Zenon DEF Cli
<1> HIDE DEF Cli
<1>3. QueueFits(n)
  <2>1. QueueFits(m) /\ \A i \in 1 .. Len(m.queue) : m.queue[i].by = "timer"
    BY DEF CliFits, QueueFits
  <2>2. n.queue = m.queue /\ n.said = m.said
    BY <1>1
  <2> QED
    BY <2>1, <2>2 DEF QueueFits
<1>4. n.at \in Places /\ n.fence \in 1 .. MaxClaims /\ n.said \in {"applying", "verifying"}
      /\ (n.at \in Executing => n.said = "applying")
  BY <1>1 DEF CliFits
<1> QED
  BY <1>2, <1>3, <1>4 DEF CliFits

\* A step of the command that neither waits nor ends nor goes to a move keeps the
\* invariant, whatever it did to the disk.
LEMMA GoKeeps ==
  ASSUME Sound, NEW p \in Companions, ~At(p, "gone"), NEW at \in Places, NEW timer, NEW stopped,
         Turns(p, Cli(at, cli[p].fence, cli[p].expires, cli[p].failed, cli[p].said, cli[p].queue,
                      timer, stopped)),
         cli[p].at \notin {"wait", "succeeded", "failed"}, at \notin {"move", "promote"},
         at \in Executing => cli[p].at \in Executing,
         cli[p].at \in Early => at \in Early,
         at \in ReadBackSeen => cli[p].fence \in seen',
         UNCHANGED <<calls, op, lock>>, seen \subseteq seen', StateFits'
  PROVE  IInv'
<1>1. /\ lock = p /\ CliFits(cli[p]) /\ CliAgrees(p, cli[p])
  BY OneWorks
<1>2. PICK m : m = cli[p]
  OBVIOUS
<1>3. PICK n : n = Cli(at, m.fence, m.expires, m.failed, m.said, m.queue, timer, stopped)
  OBVIOUS
<1>4. Turns(p, n)
  BY <1>2, <1>3
<1>5. /\ n.at = at /\ n.fence = m.fence /\ n.failed = m.failed /\ n.said = m.said /\ n.queue = m.queue
  BY <1>3, FieldsOf
<1>6. CliFits(n)
  <2>1. at \in Executing => m.said = "applying"
    BY <1>1, <1>2 DEF CliFits
  <2> QED
    BY <1>1, <1>2, <1>3, <2>1, GoFits
<1> HIDE DEF Cli, Turns
<1>7. CliAgrees(p, n)'
  BY <1>1, <1>2, <1>5 DEF CliAgrees, Early, Places, Executing, ReadBackSeen
<1>8. CallsFit'
  <2>1. Carries(cli[p], n)
    BY <1>2, <1>5 DEF Carries
  <2>2. n.at # "gone"
    BY <1>5 DEF Places, Early, Executing, ReadBackSeen
  <2> QED
    BY <1>2, <1>4, <1>5, <2>1, <2>2, CallsStay
<1>9. SuccessIsReadBack'
  BY DEF Sound, IInv, SuccessIsReadBack
<1> QED
  BY <1>4, <1>6, <1>7, <1>8, <1>9, TurnKeeps

\* Goto is such a turn.
LEMMA GotoTurns ==
  ASSUME Sound, NEW p \in Companions, ~At(p, "gone"), NEW at, Goto(p, at)
  PROVE  Turns(p, Cli(at, cli[p].fence, cli[p].expires, cli[p].failed, cli[p].said, cli[p].queue,
                      cli[p].timer, cli[p].stopped))
<1>1. CliFits(cli[p])
  BY OneWorks
<1>2. [cli[p] EXCEPT !.at = at] = Cli(at, cli[p].fence, cli[p].expires, cli[p].failed, cli[p].said, cli[p].queue,
                      cli[p].timer, cli[p].stopped)
  BY <1>1, GoingIs
<1> QED
  BY <1>2 DEF Goto, Turns

\* The disk after a step that leaves everything else.
Disks ==
  [tree : 0..3, registry : 1..2,
   journal : {"none", "prepared", "previous-staged", "installed", "registry-committed"}]

\* A step of the command that goes to a fixed place.
LEMMA WalkKeeps ==
  ASSUME Sound, NEW p \in Companions, NEW from, NEW to, At(p, from), Goto(p, to),
         <<from, to>> \in {<<"read", "fail">>, <<"read", "executed">>, <<"read", "stage">>,
                           <<"stage", "prepared">>, <<"move", "moved">>, <<"move", "fail">>,
                           <<"promote", "promoted">>, <<"promoted", "committed">>, <<"promoted", "fail">>,
                           <<"committed", "executed">>, <<"readback", "verified">>, <<"readback", "fail">>},
         LocalOnly, UNCHANGED <<calls, lock>>,
         disk' \in Disks, checked' \in [Companions -> BOOLEAN],
         seen' = seen \/ seen' = seen \cup {cli[p].fence},
         to = "verified" => cli[p].fence \in seen'
  PROVE  IInv'
<1>1. ~At(p, "gone") /\ cli[p].at = from
  BY DEF At
<1>2. Turns(p, Cli(to, cli[p].fence, cli[p].expires, cli[p].failed, cli[p].said, cli[p].queue,
                   cli[p].timer, cli[p].stopped))
  BY <1>1, GotoTurns
<1>3. cli[p].fence \in 1 .. MaxClaims
  BY <1>1, OneWorks DEF CliFits
<1>4. StateFits' /\ seen \subseteq seen' /\ UNCHANGED <<calls, op, lock>>
  BY <1>3, StateOfSound DEF StateFits, LocalOnly, Disks
<1>5. /\ to \in Places /\ from \notin {"wait", "succeeded", "failed"} /\ to \notin {"move", "promote"}
      /\ to \in Executing => from \in Executing
      /\ from \in Early => to \in Early
      /\ to \in ReadBackSeen => to = "verified"
  BY DEF Places, Early, Executing, ReadBackSeen
<1> HIDE DEF Cli, Turns
<1> QED
  BY <1>1, <1>2, <1>4, <1>5, GoKeeps

\* What is done to the disk is a disk.
LEMMA DisksFit ==
  ASSUME disk \in Disks
  PROVE  /\ Recovered \in Disks /\ [disk EXCEPT !.journal = "prepared"] \in Disks
         /\ [disk EXCEPT !.tree = 0, !.journal = "previous-staged"] \in Disks
         /\ [disk EXCEPT !.tree = 2, !.journal = "installed"] \in Disks
         /\ [disk EXCEPT !.registry = 2, !.journal = "registry-committed"] \in Disks
         /\ [disk EXCEPT !.tree = 3] \in Disks
<1>1. \A d \in Disks :
        /\ \A t \in 0 .. 3 : [d EXCEPT !.tree = t] \in Disks
        /\ \A r \in 1 .. 2 : [d EXCEPT !.registry = r] \in Disks
        /\ \A j \in {"none", "prepared", "previous-staged", "installed", "registry-committed"} :
             [d EXCEPT !.journal = j] \in Disks
  BY DEF Disks
<1>2. PICK away, in, named : /\ away = [disk EXCEPT !.tree = 0]
                            /\ in = [disk EXCEPT !.tree = 2]
                            /\ named = [disk EXCEPT !.registry = 2]
  OBVIOUS
<1>3. /\ [disk EXCEPT !.tree = 0, !.journal = "previous-staged"] = [away EXCEPT !.journal = "previous-staged"]
      /\ [disk EXCEPT !.tree = 2, !.journal = "installed"] = [in EXCEPT !.journal = "installed"]
      /\ [disk EXCEPT !.registry = 2, !.journal = "registry-committed"]
            = [named EXCEPT !.journal = "registry-committed"]
  BY <1>2, Zenon
<1>4. away \in Disks /\ in \in Disks /\ named \in Disks
  <2>1. 0 \in 0 .. 3 /\ 2 \in 0 .. 3 /\ 2 \in 1 .. 2
    OBVIOUS
  <2> QED
    BY <1>1, <1>2, <2>1, Zenon
<1>5. /\ [disk EXCEPT !.journal = "none"] \in Disks /\ [disk EXCEPT !.journal = "prepared"] \in Disks
      /\ [disk EXCEPT !.tree = 3] \in Disks
      /\ [away EXCEPT !.journal = "previous-staged"] \in Disks
      /\ [in EXCEPT !.journal = "installed"] \in Disks
      /\ [named EXCEPT !.journal = "registry-committed"] \in Disks
  <2>1. 3 \in 0 .. 3
    OBVIOUS
  <2> QED
    BY <1>1, <1>4, <2>1, Zenon
<1> QED
  BY <1>3, <1>5, Zenon DEF Recovered

\* Looking at the disk under the lock.
LEMMA PlanKeeps ==
  ASSUME Sound, NEW p \in Companions, Plan(p)
  PROVE  IInv'
<1>1. disk \in Disks /\ checked \in [Companions -> BOOLEAN]
  BY StateOfSound DEF StateFits, Disks
<1>2. At(p, "read") /\ LocalOnly /\ UNCHANGED <<calls, lock, checked, seen>>
  BY DEF Plan
<1>3. CASE Unrecoverable
  <2>1. Goto(p, "fail") /\ disk' = disk
    BY <1>3, Zenon DEF Plan
  <2> QED
    BY <1>1, <1>2, <2>1, WalkKeeps
<1>4. CASE ~Unrecoverable
  <2>1. PICK to : to = CASE disk'.registry = 2 /\ disk'.tree = 2 -> "executed"
                         [] disk'.registry = 1 /\ disk'.tree = 1 -> "stage"
                         [] OTHER -> "fail"
    BY Zenon
  <2>2. to \in {"executed", "stage", "fail"}
    <3>1. CASE disk'.registry = 2 /\ disk'.tree = 2
      <4>1. ~(disk'.registry = 1 /\ disk'.tree = 1)
        BY <3>1
      <4>2. to = "executed"
        BY <2>1, <3>1, <4>1, Zenon
      <4> QED
        BY <4>2
    <3>2. CASE ~(disk'.registry = 2 /\ disk'.tree = 2)
      <4>1. to = "stage" \/ to = "fail"
        BY <2>1, <3>2, Zenon
      <4> QED
        BY <4>1
    <3> QED
      BY <3>1, <3>2
  <2>3. Goto(p, to) /\ disk' = Recovered
    BY <1>4, <2>1, Zenon DEF Plan
  <2>4. disk' \in Disks
    BY <1>1, <2>3, DisksFit
  <2> QED
    BY <1>1, <1>2, <2>2, <2>3, <2>4, WalkKeeps
<1> QED
  BY <1>3, <1>4

\* A durable step of the transaction.
LEMMA DurableKeeps ==
  ASSUME Sound, NEW p \in Companions, NEW from, NEW to, NEW d \in Disks, Durable(p, from, to, d),
         <<from, to>> \in {<<"stage", "prepared">>, <<"move", "moved">>,
                           <<"promote", "promoted">>, <<"promoted", "committed">>}
  PROVE  IInv'
<1>1. At(p, from) /\ disk' = d /\ Goto(p, to) /\ LocalOnly /\ UNCHANGED <<calls, lock, seen>>
  BY DEF Durable
<1>2. checked' \in [Companions -> BOOLEAN]
  BY StateOfSound DEF StateFits, Durable
<1> QED
  BY <1>1, <1>2, WalkKeeps

\* The steps of a transaction.
LEMMA TransactionKeeps ==
  ASSUME Sound, NEW p \in Companions, Prepare(p) \/ MoveAside(p) \/ Promote(p) \/ Commit(p) \/ Finish(p)
  PROVE  IInv'
<1>1. disk \in Disks /\ checked \in [Companions -> BOOLEAN]
  BY StateOfSound DEF StateFits, Disks
<1>2. CASE Prepare(p)
  BY <1>1, <1>2, DisksFit, DurableKeeps DEF Prepare
<1>3. CASE Promote(p)
  BY <1>1, <1>3, DisksFit, DurableKeeps DEF Promote
<1>4. CASE MoveAside(p)
  <2>1. CASE Durable(p, "move", "moved", [disk EXCEPT !.tree = 0, !.journal = "previous-staged"])
    BY <1>1, <2>1, DisksFit, DurableKeeps
  <2>2. CASE At(p, "move") /\ Goto(p, "fail") /\ LocalOnly /\ UNCHANGED <<calls, lock, disk, checked, seen>>
    BY <1>1, <2>2, WalkKeeps
  <2> QED
    BY <1>4, <2>1, <2>2 DEF MoveAside
<1>5. CASE Commit(p)
  <2>1. CASE Durable(p, "promoted", "committed", [disk EXCEPT !.registry = 2, !.journal = "registry-committed"])
    BY <1>1, <2>1, DisksFit, DurableKeeps
  <2>2. CASE At(p, "promoted") /\ Goto(p, "fail") /\ LocalOnly /\ UNCHANGED <<calls, lock, disk, checked, seen>>
    BY <1>1, <2>2, WalkKeeps
  <2> QED
    BY <1>5, <2>1, <2>2 DEF Commit
<1>6. CASE Finish(p)
  <2>1. disk' \in Disks
    BY <1>1, <1>6, DisksFit DEF Finish, Recovered
  <2> QED
    BY <1>1, <1>6, <2>1, WalkKeeps DEF Finish
<1> QED
  BY <1>2, <1>3, <1>4, <1>5, <1>6

\* The readback records what it saw.
LEMMA ReadBackKeeps ==
  ASSUME Sound, NEW p \in Companions, ReadBack(p)
  PROVE  IInv'
<1>1. disk \in Disks /\ checked \in [Companions -> BOOLEAN]
  BY StateOfSound DEF StateFits, Disks
<1>2. At(p, "readback") /\ LocalOnly /\ UNCHANGED <<calls, lock, disk, checked>>
  BY DEF ReadBack
<1>3. CASE IsInstalled
  <2>1. Goto(p, "verified") /\ seen' = seen \cup {cli[p].fence}
    BY <1>3 DEF ReadBack, IsInstalled
  <2> QED
    BY <1>1, <1>2, <2>1, WalkKeeps
<1>4. CASE ~IsInstalled
  <2>1. Goto(p, "fail") /\ seen' = seen
    BY <1>4 DEF ReadBack, IsInstalled
  <2> QED
    BY <1>1, <1>2, <2>1, WalkKeeps
<1> QED
  BY <1>3, <1>4

\* stop: the command is over but for the renewals that were asked for.
LEMMA StopKeeps ==
  ASSUME Sound, NEW p \in Companions, Stop(p)
  PROVE  IInv'
<1>1. ~At(p, "gone") /\ cli[p].at = "stop"
  BY DEF Stop, At
<1>2. PICK t, z : t = FALSE /\ z = TRUE
  OBVIOUS
<1>3. [cli[p] EXCEPT !.at = "leave", !.stopped = TRUE, !.timer = FALSE]
        = Cli("leave", cli[p].fence, cli[p].expires, cli[p].failed, cli[p].said, cli[p].queue, FALSE, TRUE)
  <2>1. CliFits(cli[p])
    BY <1>1, OneWorks
  <2> QED
    BY <2>1, StoppingIs, Zenon
<1>4. Turns(p, Cli("leave", cli[p].fence, cli[p].expires, cli[p].failed, cli[p].said, cli[p].queue, t, z))
  BY <1>2, <1>3, Zenon DEF Stop, Turns
<1>5. StateFits' /\ seen \subseteq seen' /\ UNCHANGED <<calls, op, lock>>
  BY StateOfSound DEF StateFits, LocalOnly, Stop
<1>6. "leave" \in Places /\ "stop" \notin Executing /\ "leave" \in Early /\ "leave" \notin ReadBackSeen /\ "leave" \notin Executing
  BY DEF Places, Early, Executing, ReadBackSeen
<1> HIDE DEF Cli, Turns
<1> QED
  BY <1>1, <1>4, <1>5, <1>6, GoKeeps

---------------------------------------------------------------------------
(* Renewals, from the asking to the answer.                                *)

\* A renewal that is asked for joins the queue.
LEMMA AskKeeps ==
  ASSUME Sound, NEW p \in Companions, ~At(p, "gone"), NEW by, NEW s, NEW at,
         Renew(p, by, s, at), LocalOnly, UNCHANGED <<lock, disk, checked, seen>>,
         [by |-> by, state |-> s] \in Asked,
         Len(cli[p].queue) <= 1,
         \A i \in 1 .. Len(cli[p].queue) :
            cli[p].queue[i].state = cli[p].said /\ ~(cli[p].queue[i].by = "timer" <=> by = "timer"),
         by = "timer" => s = cli[p].said /\ at = cli[p].at,
         by # "timer" => at = "wait" /\ cli[p].at \notin {"succeeded", "failed"},
         by \in {"read", "move", "promote"} => cli[p].said = "applying" /\ s = "applying",
         by \in {"readback", "report"} => s = "verifying",
         s # cli[p].said => cli[p].said = "applying",
         op.state = "claimed" => by \in {"timer", "read"},
         by = "report" => cli[p].fence \in seen
  PROVE  IInv'
<1>1. /\ lock = p /\ CliFits(cli[p]) /\ CliAgrees(p, cli[p])
  BY OneWorks
<1>2. PICK m : m = cli[p]
  OBVIOUS
<1>4. PICK e : e = [by |-> by, state |-> s]
  OBVIOUS
<1>5. PICK n : /\ Turns(p, n)
               /\ n = [at |-> n.at, fence |-> n.fence, expires |-> n.expires, failed |-> n.failed,
                       said |-> n.said, queue |-> n.queue, timer |-> n.timer, stopped |-> n.stopped]
               /\ n.at = at /\ n.fence = cli[p].fence /\ n.failed = cli[p].failed /\ n.said = cli[p].said
               /\ n.queue = Append(cli[p].queue, [by |-> by, state |-> s])
  BY <1>1, RenewTurns
<1>6. Turns(p, n)
  BY <1>5
<1>7. /\ n.at = at /\ n.fence = m.fence /\ n.failed = m.failed /\ n.said = m.said
      /\ n.queue = Append(m.queue, e)
      /\ n = [at |-> n.at, fence |-> n.fence, expires |-> n.expires, failed |-> n.failed,
              said |-> n.said, queue |-> n.queue, timer |-> n.timer, stopped |-> n.stopped]
  BY ONLY <1>2, <1>4, <1>5, Zenon
<1>8. e \in Asked /\ e.by = by /\ e.state = s
  BY <1>4
<1>9. m.queue \in Seq(Asked) /\ QueueFits(m)
  BY <1>1, <1>2 DEF CliFits, QueueFits
<1> HIDE DEF Cli, Turns, Renew
<1>10. QueueFits(n)
  BY <1>2, <1>7, <1>8, <1>9, AskedFits
<1>11. CliFits(n)
  <2>1. n.at \in Places /\ (n.at \in Executing => n.said = "applying")
    BY <1>1, <1>2, <1>7 DEF CliFits, Places, Early, Executing
  <2>2. n.fence \in 1 .. MaxClaims /\ n.said \in {"applying", "verifying"}
    BY <1>1, <1>2, <1>7 DEF CliFits
  <2> QED
    BY <1>7, <1>10, <2>1, <2>2 DEF CliFits
<1>12. ASSUME NEW i \in 1 .. Len(n.queue)
       PROVE  /\ op.state = "claimed" => n.queue[i].by \in {"timer", "read"}
              /\ n.queue[i].by = "report" => n.fence \in seen
  <2>1. PICK q : q = m.queue /\ q \in Seq(Asked)
    BY <1>9
  <2>2. /\ Len(q) \in Nat /\ Len(Append(q, e)) = Len(q) + 1
        /\ \A j \in 1 .. Len(q) : Append(q, e)[j] = q[j]
        /\ Append(q, e)[Len(q) + 1] = e
    BY <1>8, <2>1, Appending
  <2>3. n.queue = Append(q, e)
    BY <1>7, <2>1
  <2>4. CASE i = Len(q) + 1
    BY <1>2, <1>7, <1>8, <2>2, <2>3, <2>4
  <2>5. CASE i # Len(q) + 1
    <3>1. i \in 1 .. Len(q) /\ n.queue[i] = m.queue[i]
      BY <2>1, <2>2, <2>3, <2>5
    <3> QED
      BY <1>1, <1>2, <1>7, <2>1, <3>1 DEF CliAgrees
  <2> QED
    BY <2>4, <2>5
<1>13. CliAgrees(p, n)'
  BY <1>1, <1>2, <1>7, <1>12 DEF CliAgrees, Early, ReadBackSeen, LocalOnly
<1>14. CallsFit'
  <2>1. Carries(cli[p], n)
    BY <1>2, <1>7 DEF Carries
  <2>2. n.at # "gone"
    BY <1>11 DEF CliFits, Places, Early, Executing, ReadBackSeen
  <2>3. cli[p].queue # <<>> => n.queue # <<>> /\ Head(n.queue) = Head(cli[p].queue)
    <3>1. PICK q : q = m.queue /\ q \in Seq(Asked)
      BY <1>9
    <3>2. Append(q, e) # <<>> /\ (q # <<>> => Head(Append(q, e)) = Head(q))
      BY <1>8, <3>1, Appending, HeadStays
    <3> QED
      BY <1>2, <1>7, <3>1, <3>2
  <2>4. UNCHANGED <<calls, op>> /\ seen \subseteq seen'
    BY DEF Renew, LocalOnly
  <2> QED
    BY <1>6, <2>1, <2>2, <2>3, <2>4, CallsStay
<1>15. StateFits' /\ SuccessIsReadBack'
  BY StateOfSound DEF Sound, IInv, StateFits, LocalOnly, SuccessIsReadBack
<1> QED
  BY <1>6, <1>11, <1>13, <1>14, <1>15, TurnKeeps

\* A checkpoint: nothing of the command waits yet.
LEMMA CheckpointKeeps ==
  ASSUME Sound, NEW p \in Companions, NEW from, NEW s, NEW then, Checkpoint(p, from, s, then),
         <<from, s, then>> \in {<<"claimed", "applying", "read">>, <<"prepared", "applying", "move">>,
                                <<"moved", "applying", "promote">>, <<"executed", "verifying", "readback">>,
                                <<"verified", "verifying", "report">>}
  PROVE  IInv'
<1>1. /\ ~At(p, "gone") /\ cli[p].at = from /\ Renew(p, then, s, "wait")
      /\ LocalOnly /\ UNCHANGED <<lock, disk, checked, seen>>
  BY DEF Checkpoint, At
<1>2. CliFits(cli[p]) /\ CliAgrees(p, cli[p])
  BY <1>1, OneWorks
<1>3. [by |-> then, state |-> s] \in Asked
  BY DEF Asked
<1>4. /\ QueueFits(cli[p]) /\ Len(cli[p].queue) <= 2
      /\ \A i \in 1 .. Len(cli[p].queue) :
            cli[p].queue[i].by = "timer" /\ cli[p].queue[i].state = cli[p].said
  BY <1>1, <1>2 DEF CliFits, QueueFits
<1>5. Len(cli[p].queue) <= 1
  <2>1. PICK q : q = cli[p].queue /\ q \in Seq(Asked)
    BY <1>4 DEF QueueFits
  <2>2. Len(q) \in Nat /\ Len(q) <= 2
    BY <1>4, <2>1
  <2>3. ASSUME Len(q) = 2
        PROVE  FALSE
    <3>1. 1 \in 1 .. Len(cli[p].queue) /\ 2 \in 1 .. Len(cli[p].queue)
      BY <2>1, <2>3
    <3>2. cli[p].queue[1].by = "timer" /\ cli[p].queue[2].by = "timer"
      BY <1>4, <3>1
    <3>3. 1 = 2
      BY <1>4, <3>1, <3>2, Zenon DEF QueueFits
    <3> QED
      BY <3>3
  <2>4. \A k \in Nat : k <= 2 /\ k # 2 => k <= 1
    OBVIOUS
  <2> QED
    BY <2>1, <2>2, <2>3, <2>4, Zenon
<1>6. /\ from \in Executing => cli[p].said = "applying"
      /\ from \notin Early => op.state # "claimed"
      /\ from = "verified" => cli[p].fence \in seen
      /\ cli[p].said \in {"applying", "verifying"}
  BY <1>1, <1>2 DEF CliFits, CliAgrees, ReadBackSeen
<1>7. /\ then # "timer" /\ from \notin {"succeeded", "failed"} /\ s \in {"applying", "verifying"}
      /\ then \in {"read", "move", "promote"} => from \in Executing /\ s = "applying"
      /\ then \in {"readback", "report"} => s = "verifying"
      /\ then # "read" => from \notin Early
      /\ then = "report" => from = "verified"
  BY DEF Executing, Early
<1>8. \A i \in 1 .. Len(cli[p].queue) :
        cli[p].queue[i].state = cli[p].said /\ ~(cli[p].queue[i].by = "timer" <=> then = "timer")
  BY <1>4, <1>7
<1>9. s # cli[p].said => cli[p].said = "applying"
  BY <1>6, <1>7
<1> HIDE DEF Renew, Asked
<1> QED
  BY <1>1, <1>3, <1>5, <1>6, <1>7, <1>8, <1>9, AskKeeps

\* The timer asks again for what was sent last.
LEMMA TimerKeeps ==
  ASSUME Sound, NEW p \in Companions, TimerFires(p)
  PROVE  IInv'
<1>1. /\ ~At(p, "gone") /\ Renew(p, "timer", cli[p].said, cli[p].at)
      /\ LocalOnly /\ UNCHANGED <<lock, disk, checked, seen>>
      /\ cli[p].queue # <<>> => OnItsWay(p)
      /\ \A i \in DOMAIN cli[p].queue : cli[p].queue[i].by # "timer"
  BY DEF TimerFires
<1>2. CliFits(cli[p]) /\ QueueFits(cli[p]) /\ p # NoCompanion
  BY <1>1, OneWorks DEF CliFits
<1>3. PICK q : q = cli[p].queue /\ q \in Seq(Asked)
  BY <1>2 DEF QueueFits
<1>4. Len(q) \in Nat /\ Len(q) <= 2 /\ DOMAIN q = 1 .. Len(q)
  BY <1>2, <1>3 DEF QueueFits
<1>5. \A i \in 1 .. Len(q) : q[i].by # "timer"
  BY <1>1, <1>3, <1>4
<1>6. Len(q) <= 1
  <2>1. ASSUME Len(q) = 2
        PROVE  FALSE
    <3>1. 1 \in 1 .. Len(cli[p].queue) /\ 2 \in 1 .. Len(cli[p].queue)
      BY <1>3, <2>1
    <3>2. cli[p].queue[1].by # "timer" /\ cli[p].queue[2].by # "timer"
      BY <1>3, <1>5, <3>1
    <3>3. 1 = 2
      BY <1>2, <3>1, <3>2, Zenon DEF QueueFits
    <3> QED
      BY <3>3
  <2> QED
    BY <1>4, <2>1
<1>7. \A i \in 1 .. Len(q) : q[i].state = cli[p].said
  <2>1. SUFFICES ASSUME Len(q) = 1
                 PROVE  q[1].state = cli[p].said
    BY <1>4, <1>6
  <2>2. q # <<>> /\ Head(q) = q[1]
    BY <1>3, <2>1
  <2>3. PICK r \in Renewals : r.from = p
    BY <1>1, <1>3, <2>2 DEF OnItsWay
  <2>4. r \in calls /\ r.fence = op.fence /\ RenewalAgrees(r)
    BY <1>2, <2>3 DEF Sound, IInv, CallsFit, Renewals
  <2> QED
    BY <1>1, <1>3, <2>2, <2>3, <2>4 DEF RenewalAgrees
<1>8. cli[p].said \in {"applying", "verifying"}
  BY <1>2 DEF CliFits
<1>9. [by |-> "timer", state |-> cli[p].said] \in Asked
  BY <1>8 DEF Asked
<1>10. /\ Len(cli[p].queue) <= 1
       /\ \A i \in 1 .. Len(cli[p].queue) :
            cli[p].queue[i].state = cli[p].said /\ ~(cli[p].queue[i].by = "timer" <=> "timer" = "timer")
  BY <1>3, <1>5, <1>6, <1>7
<1> HIDE DEF Renew, Asked
<1> QED
  BY <1>1, <1>8, <1>9, <1>10, AskKeeps

\* A companion whose renewal failed.
LEMMA FailedFits ==
  ASSUME Sound, NEW p \in Companions, ~At(p, "gone"), NEW n,
         n = [at |-> n.at, fence |-> n.fence, expires |-> n.expires, failed |-> n.failed,
              said |-> n.said, queue |-> n.queue, timer |-> n.timer, stopped |-> n.stopped],
         n.fence = cli[p].fence, n.failed = TRUE, n.said = cli[p].said, n.queue = <<>>,
         n.at = IF cli[p].at = "wait" THEN "fail" ELSE cli[p].at
  PROVE  /\ CliFits(n) /\ n.at # "gone" /\ Carries(cli[p], n)
         /\ CliAgrees(p, n)
<1>1. CliFits(cli[p]) /\ CliAgrees(p, cli[p])
  BY OneWorks
<1>2. n.queue \in Seq(Asked) /\ Len(n.queue) = 0
  OBVIOUS
<1>3. QueueFits(n)
  BY <1>2 DEF QueueFits
<1>4. \/ n.at = "fail" /\ cli[p].at = "wait"
      \/ n.at = cli[p].at /\ cli[p].at # "wait"
  OBVIOUS
<1>5. n.at \in Places /\ (n.at \in Executing => cli[p].at \in Executing) /\ n.at # "gone"
  BY <1>1, <1>4 DEF CliFits, Places, Early, Executing, ReadBackSeen
<1>6. CliFits(n)
  BY <1>1, <1>3, <1>5 DEF CliFits
<1>7. CliAgrees(p, n)
  <2>1. /\ cli[p].at \in Early => n.at \in Early
        /\ n.at \in {"move", "promote"} => cli[p].at \in {"move", "promote"}
        /\ n.at \in ReadBackSeen => cli[p].at \in ReadBackSeen
    BY <1>4 DEF Early, ReadBackSeen
  <2> QED
    BY <1>1, <1>2, <2>1 DEF CliAgrees
<1>8. Carries(cli[p], n)
  BY <1>4 DEF Carries
<1> QED
  BY <1>5, <1>6, <1>7, <1>8

\* Without a renewal on its way there is none under the newest claim, unless one that
\* nobody waits for made its companion's lease fail.
LEMMA NoneOnItsWay ==
  ASSUME Sound, NEW p \in Companions, ~At(p, "gone"), ~OnItsWay(p), ~cli[p].failed
  PROVE  \A q \in Renewals : q.fence # op.fence
<1>1. SUFFICES ASSUME NEW q \in Renewals, q.fence = op.fence
               PROVE  FALSE
  OBVIOUS
<1>2. RenewalAgrees(q) /\ q \in calls /\ q \in Requests
  BY <1>1 DEF Sound, IInv, CallsFit, Renewals
<1>3. CASE q.from = NoCompanion
  BY <1>2, <1>3 DEF RenewalAgrees
<1>4. CASE q.from # NoCompanion
  <2>1. q.from \in Companions /\ ~At(q.from, "gone")
    BY <1>2, <1>4 DEF Requests, Sound, IInv, CallsFit
  <2>2. q.from = p
    BY <2>1, OneWorks
  <2> QED
    BY <1>1, <2>2 DEF OnItsWay
<1> QED
  BY <1>3, <1>4

\* A renewal is sent when the one before it was answered, and fails if the lease is
\* not fresh any more.
LEMMA SendRenewalKeeps ==
  ASSUME Sound, NEW p \in Companions, SendRenewal(p)
  PROVE  IInv'
<1>1. /\ ~At(p, "gone") /\ cli[p].queue # <<>> /\ ~OnItsWay(p)
      /\ LocalOnly /\ UNCHANGED <<lock, disk, checked, seen>>
  BY DEF SendRenewal
<1>2. /\ lock = p /\ CliFits(cli[p]) /\ CliAgrees(p, cli[p]) /\ p # NoCompanion
      /\ \A r \in Companions : r # p => At(r, "gone")
  BY <1>1, OneWorks
<1>3. StateFits' /\ SuccessIsReadBack'
  BY <1>1, StateOfSound DEF StateFits, LocalOnly, Sound, IInv, SuccessIsReadBack
<1>4. CASE ~IsFresh(p)
  <2>1. Failed(p) /\ UNCHANGED calls
    BY <1>4, Zenon DEF SendRenewal
  <2>2. PICK n : /\ Turns(p, n)
                 /\ n = [at |-> n.at, fence |-> n.fence, expires |-> n.expires, failed |-> n.failed,
                         said |-> n.said, queue |-> n.queue, timer |-> n.timer, stopped |-> n.stopped]
                 /\ n.fence = cli[p].fence /\ n.failed = TRUE /\ n.said = cli[p].said /\ n.queue = <<>>
                 /\ n.at = IF cli[p].at = "wait" THEN "fail" ELSE cli[p].at
    BY <1>2, <2>1, FailedTurns
  <2>3. CliFits(n) /\ n.at # "gone" /\ Carries(cli[p], n) /\ CliAgrees(p, n)
    BY <1>1, <2>2, FailedFits
  <2>4. CliAgrees(p, n)'
    BY <1>1, <2>3 DEF CliAgrees, LocalOnly
  <2>5. CallsFit'
    BY <1>1, <2>1, <2>2, <2>3, CallsStay DEF LocalOnly
  <2> QED
    BY <1>1, <1>3, <2>2, <2>3, <2>4, <2>5, TurnKeeps
<1>5. CASE IsFresh(p)
  <2>1. PICK m : m = cli[p]
    OBVIOUS
  <2>2. PICK s : s = Head(m.queue).state
    OBVIOUS
  <2>3. calls' = calls \cup {Call(p, s)} /\ Turns(p, [m EXCEPT !.said = s])
    BY <1>5, <2>1, <2>2, Zenon DEF SendRenewal, Turns
  <2>4. CliFits(m) /\ CliAgrees(p, m) /\ QueueFits(m) /\ m.queue # <<>> /\ ~m.failed
    BY <1>1, <1>2, <1>5, <2>1 DEF CliFits, IsFresh
  <2>5. PICK n : n = Cli(m.at, m.fence, m.expires, m.failed, s, m.queue, m.timer, m.stopped)
    OBVIOUS
  <2>6. Turns(p, n)
    BY <2>3, <2>4, <2>5, SendingIs, Zenon
  <2>7. /\ n.at = m.at /\ n.fence = m.fence /\ n.failed = m.failed /\ n.said = s /\ n.queue = m.queue
        /\ n = [at |-> n.at, fence |-> n.fence, expires |-> n.expires, failed |-> n.failed,
                said |-> n.said, queue |-> n.queue, timer |-> n.timer, stopped |-> n.stopped]
    BY ONLY <2>5 DEF Cli
  <2> HIDE DEF Cli, Turns
  <2>8. PICK q : q = m.queue /\ q \in Seq(Asked) /\ q # <<>>
    BY <2>4 DEF QueueFits
  <2>9. /\ Head(q) = q[1] /\ q[1] \in Asked /\ Len(q) \in Nat \ {0}
    BY <2>8, Tailing
  <2>10. /\ 1 \in 1 .. Len(m.queue) /\ s = m.queue[1].state /\ s \in {"applying", "verifying"}
         /\ Head(n.queue).state = s /\ n.queue # <<>>
    <3>1. s = q[1].state
      BY <2>2, <2>8, <2>9
    <3> QED
      BY <2>2, <2>7, <2>8, <2>9, <3>1 DEF Asked
  <2>11. ASSUME s = m.said
         PROVE  CliFits(n) /\ CliAgrees(p, n)
    <3>1. QueueFits(n)
      BY <2>4, <2>7, <2>11 DEF QueueFits
    <3>2. CliFits(n)
      BY <2>4, <2>7, <2>11, <3>1 DEF CliFits
    <3>3. CliAgrees(p, n)
      BY <2>4, <2>7, <2>11 DEF CliAgrees
    <3> QED
      BY <3>2, <3>3
  <2>12. ASSUME s # m.said
         PROVE  CliFits(n) /\ CliAgrees(p, n)
    <3>1. /\ m.said = "applying" /\ s = "verifying" /\ Len(m.queue) = 1
          /\ m.queue[1].by \in {"readback", "report"} /\ m.at = "wait"
      <4>1. m.queue[1] \in Asked
        BY <2>8, <2>9
      <4> QED
        BY <2>4, <2>10, <2>12, <4>1 DEF QueueFits, Asked
    <3>2. QueueFits(n)
      BY <2>4, <2>7, <2>10, <3>1 DEF QueueFits
    <3>3. CliFits(n)
      BY <2>4, <2>7, <2>10, <3>1, <3>2 DEF CliFits, Executing
    <3>4. op.state # "claimed" /\ op.state # "verifying"
      BY <2>4, <2>10, <3>1 DEF CliAgrees
    <3>5. CliAgrees(p, n)
      BY <2>4, <2>7, <3>4 DEF CliAgrees
    <3> QED
      BY <3>3, <3>5
  <2>13. CliFits(n) /\ CliAgrees(p, n)
    BY <2>11, <2>12
  <2>14. CliAgrees(p, n)'
    BY <1>1, <2>13 DEF CliAgrees, LocalOnly
  <2>15. CallsFit'
    <3>1. PICK new : new = Call(p, s)
      OBVIOUS
    <3>2. new.from = p /\ new.fence = m.fence /\ new.state = s /\ m.fence = op.fence
      BY <2>1, <2>4, <3>1 DEF Call, CliAgrees
    <3>3. new \in Requests
      BY <2>1, <2>4, <2>10, <3>1 DEF Call, Requests, CliFits
    <3>4. /\ cli'[p] = n /\ op' = op /\ calls' = calls \cup {new} /\ seen' = seen
          /\ \A r \in Companions : r # p => cli'[r] = cli[r]
      BY <1>1, <2>3, <2>6, <3>1, OnlyItTurns DEF LocalOnly
    <3>5. n.at # "gone"
      BY <1>1, <2>1, <2>7 DEF At
    <3>6. ASSUME NEW q1 \in calls
          PROVE  /\ q1.fence <= op.fence
                 /\ q1.from # NoCompanion => (~At(q1.from, "gone"))'
                 /\ q1.from # NoCompanion => q1.fence = op.fence
                 /\ q1.from # NoCompanion /\ q1.state \in {"succeeded", "failed"} => At(q1.from, q1.state)'
                 /\ q1.state = "succeeded" => q1.fence \in seen'
      <4>1. q1 \in Requests
        BY StateOfSound
      <4>2. q1.from # NoCompanion => q1.from \in Companions /\ cli'[q1.from].at = cli[q1.from].at
        BY <2>1, <2>7, <3>4, <4>1 DEF Requests
      <4>3. CallsFit
        BY DEF Sound, IInv
      <4> QED
        BY <3>4, <4>2, <4>3 DEF CallsFit, At
    <3>7. /\ new.fence <= op.fence /\ (~At(new.from, "gone"))' /\ new.fence = op.fence
          /\ new.state \notin {"succeeded", "failed"}
      <4>1. op.fence \in Nat
        BY StateOfSound DEF StateFits, Sound, CompanionAssumption
      <4> QED
        BY <2>10, <3>2, <3>4, <3>5, <4>1 DEF At
    <3>8. \A r \in Renewals' : r.fence = op'.fence => r = new
      <4>1. \A r \in Renewals : r.fence # op.fence
        BY <1>1, <2>1, <2>4, NoneOnItsWay
      <4> QED
        BY <3>4, <4>1 DEF Renewals
    <3>9. RenewalAgrees(new)'
      <4>1. /\ new.state = "verifying" => op.state # "claimed"
            /\ new.state = "applying" => op.state # "verifying"
        BY <2>7, <2>13, <3>2 DEF CliAgrees
      <4>2. \A r \in Companions : (~At(r, "gone"))' => r = p
        BY <1>2, <3>4 DEF At
      <4>3. new.from # NoCompanion
        BY <1>2, <3>2
      <4> QED
        BY <2>7, <2>10, <3>2, <3>4, <3>8, <4>1, <4>2, <4>3 DEF RenewalAgrees
    <3>10. calls' \subseteq Requests
      BY <3>3, <3>4, StateOfSound
    <3>11. \A q1 \in calls' : q1 \in calls \/ q1 = new
      BY <3>4
    <3> QED
      BY <3>4, <3>6, <3>7, <3>8, <3>9, <3>10, <3>11 DEF CallsFit
  <2> QED
    BY <1>1, <1>3, <2>6, <2>13, <2>14, <2>15, TurnKeeps
<1> QED
  BY <1>4, <1>5

---------------------------------------------------------------------------
(* The server's answers.                                                   *)

\* A step that turns no companion.
LEMMA StillKeeps ==
  ASSUME Sound, UNCHANGED cli, StateFits', CallsFit', SuccessIsReadBack',
         \A p \in Companions : ~At(p, "gone") => CliAgrees(p, cli[p])'
  PROVE  IInv'
<1>1. \A p \in Companions : ~At(p, "gone") => CliFits(cli[p]) /\ Len(cli[p].queue) <= 2
  BY DEF Sound, IInv, CliFits, QueueFits
<1>2. \A p \in Companions : At(p, "gone")' <=> At(p, "gone")
  BY DEF At
<1>3. TypeOK'
  <2>1. \A p \in Companions : At(p, "gone")' \/ Len(cli'[p].queue) <= 2
    BY <1>1, <1>2
  <2> QED
    BY <2>1 DEF TypeOK, StateFits, CallsFit
<1>4. \A p \in Companions : (~At(p, "gone"))' => CliFits(cli'[p]) /\ CliAgrees(p, cli[p])'
  BY <1>1, <1>2
<1>5. cli' = [p \in Companions |-> cli'[p]]
  BY DEF Sound, IInv
<1> QED
  BY <1>3, <1>4, <1>5 DEF IInv

\* A request that is answered is gone, and the others stay as they fit.
LEMMA LessCalls ==
  ASSUME Sound, NEW q \in calls, calls' = calls \ {q}, seen' = seen, op'.fence = op.fence,
         \A p \in Companions : At(p, "gone")' => At(p, "gone"),
         \A r \in calls \ {q} :
            r.from # NoCompanion /\ r.state \in {"succeeded", "failed"} => At(r.from, r.state)',
         \A r \in Renewals \ {q} : r.fence = op.fence => RenewalAgrees(r)'
  PROVE  CallsFit'
<1>1. CallsFit /\ calls \subseteq Requests
  BY StateOfSound DEF Sound, IInv
<1>2. Renewals' = Renewals \ {q}
  BY DEF Renewals
<1>3. ASSUME NEW r \in calls \ {q}
      PROVE  /\ r.fence <= op.fence
             /\ r.from # NoCompanion => (~At(r.from, "gone"))'
             /\ r.from # NoCompanion => r.fence = op.fence
             /\ r.state = "succeeded" => r.fence \in seen
  <2>1. r.from \in Companions \/ r.from = NoCompanion
    BY <1>1 DEF Requests
  <2> QED
    BY <1>1, <2>1 DEF CallsFit
<1>4. \A r \in calls' : r \in calls \ {q}
  OBVIOUS
<1>5. calls' \subseteq Requests
  BY <1>1
<1> QED
  BY <1>2, <1>3, <1>4, <1>5 DEF CallsFit

\* What the answer to a renewal leaves of the others: under the newest claim there is
\* no other.
LEMMA OnlyRenewal ==
  ASSUME Sound, NEW q \in Renewals, q.fence = op.fence
  PROVE  RenewalAgrees(q) /\ \A r \in Renewals \ {q} : r.fence # op.fence
BY DEF Sound, IInv, CallsFit, RenewalAgrees

\* The row of the operation after a renewal that is granted.
Advances(q) == op' = [op EXCEPT !.state = q.state, !.expires = now + LeaseTime]

\* It is in the state that was asked for, under the same claim.
LEMMA AdvanceIs ==
  ASSUME Sound, NEW q \in Renewals, Renewable(q), Advances(q)
  PROVE  /\ op'.state = q.state /\ op'.fence = op.fence /\ q.state \in {"applying", "verifying"}
         /\ q.fence = op.fence /\ op'.expires = now + LeaseTime
         /\ op' \in [state : Active \cup {"queued", "succeeded", "failed"}, fence : 0..MaxClaims,
                     expires : 0..MaxTime + LeaseTime]
<1>1. PICK s, f, e : /\ op = [state |-> s, fence |-> f, expires |-> e]
                     /\ f \in 0 .. MaxClaims
  BY StateOfSound DEF StateFits
<1>2. now + LeaseTime \in 0 .. MaxTime + LeaseTime
  BY StateOfSound DEF StateFits, Sound, CompanionAssumption
<1>3. op' = [state |-> q.state, fence |-> f, expires |-> now + LeaseTime]
  <2>1. PICK x : x = [op EXCEPT !.state = q.state]
    OBVIOUS
  <2>2. x = [state |-> q.state, fence |-> f, expires |-> e]
    BY <1>1, <2>1
  <2>3. op' = [x EXCEPT !.expires = now + LeaseTime]
    BY <2>1, Zenon DEF Advances
  <2> QED
    BY <2>2, <2>3
<1>4. q.state \in {"applying", "verifying"} /\ q.fence = op.fence
  BY DEF Renewals, Renewable, Current
<1> HIDE DEF Advances
<1> QED
  BY <1>1, <1>2, <1>3, <1>4 DEF Active

\* A renewal nobody waits for.
LEMMA ServeOrphanKeeps ==
  ASSUME Sound, NEW q \in calls, q.from = NoCompanion, ServeRenewal(q)
  PROVE  IInv'
<1>1. /\ q \in Renewals /\ calls' = calls \ {q} /\ UNCHANGED cli
      /\ UNCHANGED <<now, withdrawn, lock, disk, seen, stops, edits>>
  BY Zenon DEF ServeRenewal
<1>2. \A p \in Companions : ~At(p, "gone") => CliAgrees(p, cli[p])
  BY OneWorks
<1>3. CallsFit /\ q \in Requests
  BY StateOfSound DEF Sound, IInv
<1>4. \A r \in calls \ {q} :
        r.from # NoCompanion /\ r.state \in {"succeeded", "failed"} => At(r.from, r.state)'
  BY <1>1, <1>3 DEF CallsFit, At
<1>5. \A p \in Companions : At(p, "gone")' => At(p, "gone")
  BY <1>1 DEF At
<1>6. CASE ~Renewable(q)
  <2>1. UNCHANGED <<op, checked>>
    BY <1>6, Zenon DEF ServeRenewal
  <2>2. \A r \in Renewals \ {q} : r.fence = op.fence => RenewalAgrees(r)'
    <3>1. ASSUME NEW r \in Renewals \ {q}, r.fence = op.fence
          PROVE  RenewalAgrees(r)'
      <4>1. RenewalAgrees(r) /\ Renewals' \subseteq Renewals
        BY <1>1, <1>3, <3>1 DEF CallsFit, Renewals
      <4> QED
        BY <1>1, <2>1, <4>1 DEF RenewalAgrees, At
    <3> QED
      BY <3>1
  <2>3. CallsFit'
    BY <1>1, <1>4, <1>5, <2>1, <2>2, LessCalls
  <2>4. StateFits' /\ SuccessIsReadBack'
    BY <1>1, <2>1, StateOfSound DEF StateFits, SuccessIsReadBack, Sound, IInv
  <2>5. \A p \in Companions : ~At(p, "gone") => CliAgrees(p, cli[p])'
    BY <1>1, <1>2, <2>1 DEF CliAgrees
  <2> QED
    BY <1>1, <2>3, <2>4, <2>5, StillKeeps
<1>7. CASE Renewable(q)
  <2>1. op' = [op EXCEPT !.state = q.state, !.expires = now + LeaseTime] /\ checked' = checked
    BY <1>7, Zenon DEF ServeRenewal
  <2>5. /\ op'.state = q.state /\ op'.fence = op.fence /\ q.state \in {"applying", "verifying"}
        /\ q.fence = op.fence
        /\ op' \in [state : Active \cup {"queued", "succeeded", "failed"}, fence : 0..MaxClaims,
                    expires : 0..MaxTime + LeaseTime]
    BY <1>1, <1>7, <2>1, AdvanceIs DEF Advances
  <2>6. RenewalAgrees(q) /\ \A r \in Renewals \ {q} : r.fence # op.fence
    BY <1>1, <2>5, OnlyRenewal
  <2>7. CallsFit'
    BY <1>1, <1>4, <1>5, <2>5, <2>6, LessCalls
  <2>8. StateFits'
    BY <1>1, <2>1, <2>5, StateOfSound DEF StateFits
  <2>9. SuccessIsReadBack'
    BY <2>5 DEF SuccessIsReadBack
  <2>10. \A p \in Companions : ~At(p, "gone") => CliAgrees(p, cli[p])'
    <3>1. ASSUME NEW p \in Companions, ~At(p, "gone")
          PROVE  CliAgrees(p, cli[p])'
      <4>1. PICK m : m = cli[p]
        OBVIOUS
      <4>2. q.state = m.said /\ CliAgrees(p, m)
        BY <1>2, <2>6, <3>1, <4>1 DEF RenewalAgrees
      <4>3. CliAgrees(p, m)'
        BY <1>1, <2>1, <2>5, <4>2 DEF CliAgrees
      <4> QED
        BY <1>1, <4>1, <4>3
    <3> QED
      BY <3>1
  <2> QED
    BY <1>1, <2>7, <2>8, <2>9, <2>10, StillKeeps
<1> QED
  BY <1>6, <1>7

\* A renewal its companion waits for: it goes on, or its lease fails.
LEMMA ServeRenewalKeeps ==
  ASSUME Sound, NEW q \in calls, ServeRenewal(q)
  PROVE  IInv'
<1>1. CASE q.from = NoCompanion
  BY <1>1, ServeOrphanKeeps
<1>2. CASE q.from # NoCompanion
  <2>1. PICK p \in Companions : p = q.from
    BY <1>2, StateOfSound DEF Requests
  <2>2. CallsFit
    BY DEF Sound, IInv
  <2>3. /\ q \in Renewals /\ calls' = calls \ {q}
        /\ UNCHANGED <<now, withdrawn, lock, disk, seen, stops, edits>>
        /\ ~At(p, "gone") /\ q.fence = op.fence
    BY <1>2, <2>1, <2>2, Zenon DEF ServeRenewal, CallsFit
  <2>4. /\ RenewalAgrees(q) /\ \A r \in Renewals \ {q} : r.fence # op.fence
    BY <2>3, OnlyRenewal
  <2>5. /\ lock = p /\ CliFits(cli[p]) /\ CliAgrees(p, cli[p]) /\ p # NoCompanion
        /\ \A r \in Companions : r # p => At(r, "gone")
    BY <2>3, OneWorks
  <2>6. q.state = cli[p].said /\ cli[p].queue # <<>> /\ Head(cli[p].queue).state = cli[p].said
    BY <2>1, <2>3, <2>4 DEF RenewalAgrees
  <2>7. ASSUME NEW n, Turns(p, n), Carries(cli[p], n), n.at # "gone", op'.fence = op.fence
        PROVE  CallsFit'
    <3>1. cli'[p] = n /\ \A r \in Companions : r # p => cli'[r] = cli[r]
      BY <2>7, OnlyItTurns
    <3>2. \A r \in Companions : At(r, "gone")' => At(r, "gone")
      BY <2>7, <3>1 DEF At
    <3>3. ASSUME NEW r \in calls \ {q}, r.from # NoCompanion, r.state \in {"succeeded", "failed"}
          PROVE  At(r.from, r.state)'
      <4>1. At(r.from, r.state) /\ r.from \in Companions
        BY <2>2, <3>3 DEF CallsFit, Requests
      <4> QED
        BY <2>7, <3>1, <3>3, <4>1 DEF At, Carries
    <3>4. \A r \in Renewals \ {q} : r.fence = op.fence => RenewalAgrees(r)'
      BY <2>4
    <3>5. \A r \in calls \ {q} :
            r.from # NoCompanion /\ r.state \in {"succeeded", "failed"} => At(r.from, r.state)'
      BY <3>3
    <3> QED
      BY <2>3, <2>7, <3>2, <3>4, <3>5, LessCalls
  <2>8. CASE ~Renewable(q)
    <3>1. Failed(p) /\ UNCHANGED <<op, checked>>
      BY <1>2, <2>1, <2>8, Zenon DEF ServeRenewal
    <3>2. PICK n : /\ Turns(p, n)
                   /\ n = [at |-> n.at, fence |-> n.fence, expires |-> n.expires, failed |-> n.failed,
                           said |-> n.said, queue |-> n.queue, timer |-> n.timer, stopped |-> n.stopped]
                   /\ n.fence = cli[p].fence /\ n.failed = TRUE /\ n.said = cli[p].said /\ n.queue = <<>>
                   /\ n.at = IF cli[p].at = "wait" THEN "fail" ELSE cli[p].at
      BY <2>5, <3>1, FailedTurns
    <3>3. CliFits(n) /\ n.at # "gone" /\ Carries(cli[p], n) /\ CliAgrees(p, n)
      BY <2>3, <3>2, FailedFits
    <3>4. CliAgrees(p, n)'
      BY <2>3, <3>1, <3>3 DEF CliAgrees
    <3>5. CallsFit'
      BY <2>7, <3>1, <3>2, <3>3
    <3>6. StateFits' /\ SuccessIsReadBack'
      BY <2>3, <3>1, StateOfSound DEF StateFits, SuccessIsReadBack, Sound, IInv
    <3> QED
      BY <2>3, <3>2, <3>3, <3>4, <3>5, <3>6, TurnKeeps
  <2>9. CASE Renewable(q)
    <3>1. Advances(q) /\ checked' = [checked EXCEPT ![p] = TRUE] /\ Renewed(p)
      BY <1>2, <2>1, <2>6, <2>9, Zenon DEF ServeRenewal, Advances
    <3>2. PICK n : /\ Turns(p, n)
                   /\ n = [at |-> n.at, fence |-> n.fence, expires |-> n.expires, failed |-> n.failed,
                           said |-> n.said, queue |-> n.queue, timer |-> n.timer, stopped |-> n.stopped]
                   /\ n.fence = cli[p].fence /\ n.failed = cli[p].failed /\ n.said = cli[p].said
                   /\ n.queue = Tail(cli[p].queue)
                   /\ n.at = IF Head(cli[p].queue).by = "timer" THEN cli[p].at ELSE Head(cli[p].queue).by
      BY <2>5, <3>1, RenewedTurns
    <3>3. PICK m : m = cli[p]
      OBVIOUS
    <3>4. CliFits(m) /\ QueueFits(m) /\ CliAgrees(p, m)
      BY <2>5, <3>3 DEF CliFits
    <3>5. /\ QueueFits(n)
          /\ Head(m.queue) = m.queue[1] /\ 1 \in 1 .. Len(m.queue) /\ m.queue[1] \in Asked
          /\ \A i \in 1 .. Len(n.queue) : i + 1 \in 1 .. Len(m.queue) /\ n.queue[i] = m.queue[i + 1]
      BY <2>6, <3>2, <3>3, <3>4, GrantedFits
    <3>6. \/ m.queue[1].by = "timer" /\ n.at = m.at
          \/ /\ m.queue[1].by # "timer" /\ m.at = "wait" /\ n.at = m.queue[1].by
             /\ n.at \in {"read", "move", "promote", "readback", "report"}
             /\ n.at \in {"read", "move", "promote"} => m.said = "applying"
             /\ n.at = "report" => m.fence \in seen
      BY <3>2, <3>3, <3>4, <3>5 DEF QueueFits, Asked, CliAgrees
    <3>7. CliFits(n)
      <4>1. n.at \in Places /\ (n.at \in Executing => n.said = "applying")
        BY <3>2, <3>3, <3>4, <3>6 DEF CliFits, Places, Executing, Early, ReadBackSeen
      <4>2. n.fence \in 1 .. MaxClaims /\ n.said \in {"applying", "verifying"}
        BY <3>2, <3>3, <3>4 DEF CliFits
      <4> QED
        BY <3>2, <3>5, <4>1, <4>2 DEF CliFits
    <3>8. /\ op'.state = q.state /\ op'.fence = op.fence /\ q.state \in {"applying", "verifying"}
          /\ op' \in [state : Active \cup {"queued", "succeeded", "failed"}, fence : 0..MaxClaims,
                      expires : 0..MaxTime + LeaseTime]
      BY <2>3, <2>9, <3>1, AdvanceIs
    <3>9. checked'[p] /\ checked' \in [Companions -> BOOLEAN]
      BY <3>1, StateOfSound DEF StateFits
    <3>10. CliAgrees(p, n)'
      <4>1. lock' = p /\ n.fence = op'.fence
        BY <2>3, <2>5, <3>2, <3>3, <3>4, <3>8 DEF CliAgrees
      <4>2. (op'.state = "verifying" => n.said = "verifying") /\ op'.state # "claimed"
        BY <2>6, <3>2, <3>8
      <4>3. n.at \in ReadBackSeen => n.fence \in seen
        BY <3>2, <3>3, <3>4, <3>6 DEF CliAgrees, ReadBackSeen
      <4>4. \A i \in 1 .. Len(n.queue) : n.queue[i].by = "report" => n.fence \in seen
        BY <3>2, <3>3, <3>4, <3>5 DEF CliAgrees
      <4> QED
        BY <2>3, <3>9, <4>1, <4>2, <4>3, <4>4 DEF CliAgrees
    <3>11. n.at # "gone" /\ Carries(cli[p], n)
      BY <3>2, <3>3, <3>6, <3>7 DEF Carries, CliFits, Places, Early, Executing, ReadBackSeen
    <3>12. CallsFit'
      BY <2>7, <3>2, <3>8, <3>11
    <3>13. StateFits' /\ SuccessIsReadBack'
      BY <2>3, <3>8, <3>9, StateOfSound DEF StateFits, SuccessIsReadBack
    <3> QED
      BY <2>3, <3>2, <3>7, <3>10, <3>12, <3>13, TurnKeeps
  <2> QED
    BY <2>8, <2>9
<1> QED
  BY <1>1, <1>2

---------------------------------------------------------------------------
(* Receipts.                                                               *)

\* A receipt that was answered, or that nobody answered.
LEMMA AnsweredTurns ==
  ASSUME Sound, NEW p \in Companions, NEW s \in {"succeeded", "failed"}, At(p, s), NEW accepted,
         Answered(p, s, accepted)
  PROVE  \E n : /\ Turns(p, n) /\ CliFits(n) /\ n.at \in {"fail", "stop"}
                /\ n.said = cli[p].said /\ n.failed = cli[p].failed /\ n.queue = cli[p].queue
                /\ n.fence = cli[p].fence
<1>1. ~At(p, "gone") /\ cli[p].at = s
  BY DEF At
<1>2. CliFits(cli[p])
  BY <1>1, OneWorks
<1>3. PICK m : m = cli[p]
  OBVIOUS
<1>4. PICK at : at = IF s = "succeeded" /\ ~accepted THEN "fail" ELSE "stop"
  OBVIOUS
<1>5. at \in {"fail", "stop"}
  BY <1>4, Zenon
<1>6. PICK n : n = Cli(at, m.fence, m.expires, m.failed, m.said, m.queue, m.timer, m.stopped)
  OBVIOUS
<1>7. Turns(p, [m EXCEPT !.at = at])
  BY <1>3, <1>4, Zenon DEF Answered, Turns
<1>8. CliFits(m) /\ m.at # "wait"
  BY <1>1, <1>2, <1>3
<1>9. Turns(p, n)
  BY <1>6, <1>7, <1>8, GoingIs, Zenon
<1>10. at \in Places /\ at \notin Executing
  BY <1>5 DEF Places, Early, Executing
<1>11. n.at = at /\ n.said = m.said /\ n.failed = m.failed /\ n.queue = m.queue /\ n.fence = m.fence
  BY ONLY <1>6 DEF Cli
<1>12. CliFits(n)
  BY <1>6, <1>8, <1>10, GoFits
<1> HIDE DEF Cli, Turns
<1> QED
  BY <1>3, <1>5, <1>9, <1>11, <1>12

\* There is one receipt of a companion at most.
LEMMA OneReceipt ==
  ASSUME Sound, NEW q \in calls, NEW r \in calls, q.from # NoCompanion, r.from = q.from,
         q.state \in {"succeeded", "failed"}, r.state \in {"succeeded", "failed"}
  PROVE  r = q
<1>1. CallsFit /\ q \in Requests /\ r \in Requests
  BY StateOfSound DEF Sound, IInv
<1>2. At(q.from, q.state) /\ At(q.from, r.state) /\ q.fence = op.fence /\ r.fence = op.fence
  BY <1>1 DEF CallsFit
<1>3. r.state = q.state
  BY <1>2 DEF At
<1>4. /\ q = [from |-> q.from, fence |-> q.fence, state |-> q.state]
      /\ r = [from |-> r.from, fence |-> r.fence, state |-> r.state]
  BY <1>1 DEF Requests
<1> QED
  BY <1>2, <1>3, <1>4

\* The row of the operation after a receipt.
Settles(q) == op' = IF Completable(q) THEN [op EXCEPT !.state = q.state] ELSE op

\* It is as it was, or over.
LEMMA SettlingIs ==
  ASSUME Sound, NEW q \in calls, q.state \in {"succeeded", "failed"}, Settles(q)
  PROVE  /\ op'.fence = op.fence
         /\ op' \in [state : Active \cup {"queued", "succeeded", "failed"}, fence : 0..MaxClaims,
                     expires : 0..MaxTime + LeaseTime]
         /\ op'.state = op.state \/ op'.state \in {"succeeded", "failed"}
         /\ op'.state = "succeeded" => op'.fence \in seen
<1>1. op \in [state : Active \cup {"queued", "succeeded", "failed"}, fence : 0..MaxClaims,
              expires : 0..MaxTime + LeaseTime]
  BY StateOfSound DEF StateFits
<1>2. op.state = "succeeded" => op.fence \in seen
  BY DEF Sound, IInv, SuccessIsReadBack
<1>3. q.state = "succeeded" => q.fence \in seen
  BY DEF Sound, IInv, CallsFit
<1>4. CASE ~Completable(q)
  <2>1. op' = op
    BY <1>4, Zenon DEF Settles
  <2> QED
    BY <1>1, <1>2, <2>1
<1>5. CASE Completable(q)
  <2>1. op' = [op EXCEPT !.state = q.state]
    BY <1>5, Zenon DEF Settles
  <2>2. q.fence = op.fence
    BY <1>5 DEF Completable, Current
  <2>3. PICK s, f, e : /\ op = [state |-> s, fence |-> f, expires |-> e]
                       /\ f \in 0 .. MaxClaims /\ e \in 0 .. MaxTime + LeaseTime
    BY <1>1
  <2>4. op' = [state |-> q.state, fence |-> f, expires |-> e]
    BY <2>1, <2>3
  <2> QED
    BY <1>3, <2>2, <2>3, <2>4 DEF Active
<1> QED
  BY <1>4, <1>5

\* The receipt of a companion, or one that nobody waits for, settles the operation if
\* it is the newest and may.
LEMMA ServeReceiptKeeps ==
  ASSUME Sound, NEW q \in calls, ServeReceipt(q)
  PROVE  IInv'
<1>1. /\ q.state \in {"succeeded", "failed"} /\ calls' = calls \ {q} /\ Settles(q)
      /\ UNCHANGED <<now, withdrawn, lock, disk, checked, seen, stops, edits>>
  BY DEF ServeReceipt, Settles
<1>2. /\ op'.fence = op.fence
      /\ op' \in [state : Active \cup {"queued", "succeeded", "failed"}, fence : 0..MaxClaims,
                  expires : 0..MaxTime + LeaseTime]
      /\ op'.state = op.state \/ op'.state \in {"succeeded", "failed"}
      /\ op'.state = "succeeded" => op'.fence \in seen
  BY <1>1, SettlingIs
<1>3. StateFits' /\ SuccessIsReadBack'
  BY <1>1, <1>2, StateOfSound DEF StateFits, SuccessIsReadBack
<1>4. CallsFit /\ q \in Requests /\ Renewals' = Renewals
  BY <1>1, StateOfSound DEF Sound, IInv, Renewals
<1>5. ASSUME NEW r \in Renewals, r.fence = op.fence,
             \A p \in Companions : At(p, "gone")' <=> At(p, "gone"),
             \A p \in Companions : ~At(p, "gone") =>
               cli'[p].said = cli[p].said /\ cli'[p].failed = cli[p].failed /\ cli'[p].queue = cli[p].queue
      PROVE  RenewalAgrees(r)'
  <2>1. RenewalAgrees(r)
    BY <1>4, <1>5 DEF CallsFit
  <2>2. \A p \in Companions : (~At(p, "gone"))' =>
          /\ r.state = cli'[p].said
          /\ r.from = p => cli'[p].queue # <<>> /\ Head(cli'[p].queue).state = cli'[p].said
          /\ r.from = NoCompanion => cli'[p].failed
    BY <1>5, <2>1 DEF RenewalAgrees
  <2>3. (r.state = "verifying" => op'.state # "claimed") /\ (r.state = "applying" => op'.state # "verifying")
    BY <1>2, <2>1 DEF RenewalAgrees
  <2>4. \A other \in Renewals' : other.fence = op'.fence => other = r
    BY <1>2, <1>4, <2>1 DEF RenewalAgrees
  <2> QED
    BY <2>2, <2>3, <2>4 DEF RenewalAgrees
<1>6. CASE q.from = NoCompanion
  <2>1. UNCHANGED cli
    BY <1>6, Zenon DEF ServeReceipt
  <2>2. \A r \in Renewals \ {q} : r.fence = op.fence => RenewalAgrees(r)'
    BY <1>5, <2>1 DEF At
  <2>3. \A r \in calls \ {q} :
          r.from # NoCompanion /\ r.state \in {"succeeded", "failed"} => At(r.from, r.state)'
    BY <1>4, <2>1 DEF CallsFit, At
  <2>4. CallsFit'
    BY <1>1, <1>2, <2>1, <2>2, <2>3, LessCalls DEF At
  <2>5. \A p \in Companions : ~At(p, "gone") => CliAgrees(p, cli[p])'
    <3>1. ASSUME NEW p \in Companions, ~At(p, "gone")
          PROVE  CliAgrees(p, cli[p])'
      <4>1. CliAgrees(p, cli[p])
        BY <3>1, OneWorks
      <4> QED
        BY <1>1, <1>2, <2>1, <4>1 DEF CliAgrees
    <3> QED
      BY <3>1
  <2> QED
    BY <1>3, <2>1, <2>4, <2>5, StillKeeps
<1>7. CASE q.from # NoCompanion
  <2>1. PICK p \in Companions : p = q.from
    BY <1>4, <1>7 DEF Requests
  <2>2. At(p, q.state) /\ ~At(p, "gone")
    BY <1>1, <1>4, <1>7, <2>1 DEF CallsFit
  <2>3. Answered(p, q.state, Completable(q))
    BY <1>7, <2>1, Zenon DEF ServeReceipt
  <2>4. PICK n : /\ Turns(p, n) /\ CliFits(n) /\ n.at \in {"fail", "stop"}
                 /\ n.said = cli[p].said /\ n.failed = cli[p].failed /\ n.queue = cli[p].queue
                 /\ n.fence = cli[p].fence
    BY <1>1, <2>2, <2>3, AnsweredTurns
  <2>5. cli'[p] = n /\ \A r \in Companions : r # p => cli'[r] = cli[r]
    BY <2>4, OnlyItTurns
  <2>6. \A r \in Companions : At(r, "gone")' <=> At(r, "gone")
    BY <2>2, <2>4, <2>5 DEF At
  <2>7. \A r \in Renewals \ {q} : r.fence = op.fence => RenewalAgrees(r)'
    BY <1>5, <2>4, <2>5, <2>6
  <2>8. ASSUME NEW r \in calls \ {q}, r.from # NoCompanion, r.state \in {"succeeded", "failed"}
        PROVE  At(r.from, r.state)'
    <3>1. r.from # p
      BY <1>1, <1>7, <2>1, <2>8, OneReceipt
    <3>2. At(r.from, r.state) /\ r.from \in Companions
      BY <1>4, <2>8, StateOfSound DEF CallsFit, Requests
    <3> QED
      BY <2>5, <3>1, <3>2 DEF At
  <2>9. CallsFit'
    <3>1. \A r \in calls \ {q} :
            r.from # NoCompanion /\ r.state \in {"succeeded", "failed"} => At(r.from, r.state)'
      BY <2>8
    <3> QED
      BY <1>1, <1>2, <2>6, <2>7, <3>1, LessCalls
  <2>10. CliAgrees(p, n)'
    <3>1. CliAgrees(p, cli[p])
      BY <2>2, OneWorks
    <3> QED
      BY <1>1, <1>2, <2>4, <3>1 DEF CliAgrees, Early, ReadBackSeen
  <2> QED
    BY <1>3, <2>2, <2>4, <2>9, <2>10, TurnKeeps
<1> QED
  BY <1>6, <1>7

\* A receipt is sent.
LEMMA SendReceiptKeeps ==
  ASSUME Sound, NEW p \in Companions, NEW from, NEW s, SendReceipt(p, from, s),
         <<from, s>> \in {<<"report", "succeeded">>, <<"fail", "failed">>}
  PROVE  IInv'
<1>1. /\ ~At(p, "gone") /\ cli[p].at = from /\ Goto(p, s)
      /\ LocalOnly /\ UNCHANGED <<lock, disk, checked, seen>>
  BY DEF SendReceipt, At
<1>2. /\ lock = p /\ CliFits(cli[p]) /\ CliAgrees(p, cli[p]) /\ p # NoCompanion
      /\ \A r \in Companions : r # p => At(r, "gone")
  BY <1>1, OneWorks
<1>3. PICK m : m = cli[p]
  OBVIOUS
<1>4. PICK n : n = Cli(s, m.fence, m.expires, m.failed, m.said, m.queue, m.timer, m.stopped)
  OBVIOUS
<1>5. Turns(p, n)
  <2>1. Turns(p, Cli(s, cli[p].fence, cli[p].expires, cli[p].failed, cli[p].said, cli[p].queue,
                     cli[p].timer, cli[p].stopped))
    BY <1>1, GotoTurns
  <2> QED
    BY <1>3, <1>4, <2>1
<1>6. n.at = s /\ n.said = m.said /\ n.failed = m.failed /\ n.queue = m.queue /\ n.fence = m.fence
  BY ONLY <1>4 DEF Cli
<1>7. /\ s \in Places /\ s \notin Executing /\ from # "wait" /\ s # "gone"
      /\ from \notin {"succeeded", "failed"} /\ s \in {"succeeded", "failed"}
  BY DEF Places, Early, Executing, ReadBackSeen
<1>8. CliFits(n)
  BY <1>1, <1>2, <1>3, <1>4, <1>7, GoFits
<1> HIDE DEF Cli, Turns
<1>9. CliAgrees(p, n)'
  BY <1>1, <1>2, <1>3, <1>6, <1>7 DEF CliAgrees, Early, ReadBackSeen, LocalOnly
<1>10. PICK new : new = Call(p, s)
  OBVIOUS
<1>11. /\ new.from = p /\ new.fence = m.fence /\ new.state = s /\ m.fence = op.fence /\ new \in Requests
       /\ s = "succeeded" => m.fence \in seen
  <2>1. m.fence \in 1 .. MaxClaims
    BY <1>2, <1>3 DEF CliFits
  <2> QED
    BY <1>1, <1>2, <1>3, <1>7, <1>10, <2>1 DEF Call, Requests, CliAgrees, ReadBackSeen
<1>12. /\ cli'[p] = n /\ op' = op /\ calls' = calls \cup {new} /\ seen' = seen
       /\ \A r \in Companions : r # p => cli'[r] = cli[r]
  BY <1>1, <1>5, <1>10, OnlyItTurns DEF LocalOnly, SendReceipt
<1>13. CallsFit /\ calls \subseteq Requests /\ Renewals' = Renewals
  BY <1>7, <1>11, <1>12, StateOfSound DEF Sound, IInv, Renewals
<1>14. ASSUME NEW q \in calls
       PROVE  /\ q.fence <= op.fence
              /\ q.from # NoCompanion => (~At(q.from, "gone"))'
              /\ q.from # NoCompanion => q.fence = op.fence
              /\ q.from # NoCompanion /\ q.state \in {"succeeded", "failed"} => At(q.from, q.state)'
              /\ q.state = "succeeded" => q.fence \in seen
  <2>1. q.from # NoCompanion => q.from \in Companions
    BY <1>13 DEF Requests
  <2>2. q.from = p => q.state \notin {"succeeded", "failed"}
    BY <1>1, <1>2, <1>7, <1>13 DEF CallsFit, At
  <2> QED
    BY <1>6, <1>7, <1>12, <1>13, <2>1, <2>2 DEF CallsFit, At
<1>15. /\ new.fence <= op.fence /\ (~At(new.from, "gone"))' /\ new.fence = op.fence
       /\ At(new.from, new.state)' /\ (new.state = "succeeded" => new.fence \in seen)
  <2>1. op.fence \in Nat
    BY StateOfSound DEF StateFits, Sound, CompanionAssumption
  <2> QED
    BY <1>6, <1>7, <1>11, <1>12, <2>1 DEF At
<1>16. ASSUME NEW q \in Renewals, q.fence = op.fence
       PROVE  RenewalAgrees(q)'
  <2>1. RenewalAgrees(q)
    BY <1>13, <1>16 DEF CallsFit
  <2>2. \A r \in Companions : (~At(r, "gone"))' => r = p
    BY <1>2, <1>12 DEF At
  <2>3. /\ q.state = n.said
        /\ q.from = p => n.queue # <<>> /\ Head(n.queue).state = n.said
        /\ q.from = NoCompanion => n.failed
    BY <1>1, <1>3, <1>6, <2>1 DEF RenewalAgrees
  <2> QED
    BY <1>12, <1>13, <2>1, <2>2, <2>3 DEF RenewalAgrees
<1>17. CallsFit'
  <2>1. \A q \in calls' : q \in calls \/ q = new
    BY <1>12
  <2>2. calls' \subseteq Requests
    BY <1>11, <1>12, <1>13
  <2> QED
    BY <1>12, <1>13, <1>14, <1>15, <1>16, <2>1, <2>2 DEF CallsFit
<1>18. StateFits' /\ SuccessIsReadBack'
  BY <1>1, StateOfSound DEF StateFits, LocalOnly, Sound, IInv, SuccessIsReadBack
<1> QED
  BY <1>1, <1>5, <1>8, <1>9, <1>17, <1>18, TurnKeeps

---------------------------------------------------------------------------
(* What goes wrong, and who comes next.                                    *)

\* A request that nobody waits for any more.
LEMMA OrphanIs ==
  ASSUME Sound, NEW q \in calls
  PROVE  /\ [q EXCEPT !.from = NoCompanion].from = NoCompanion
         /\ [q EXCEPT !.from = NoCompanion].fence = q.fence
         /\ [q EXCEPT !.from = NoCompanion].state = q.state
         /\ [q EXCEPT !.from = NoCompanion] \in Requests
<1>1. q \in Requests
  BY StateOfSound
<1>2. PICK a, f, s : /\ q = [from |-> a, fence |-> f, state |-> s]
                     /\ f \in 1..MaxClaims /\ s \in {"applying", "verifying", "succeeded", "failed"}
  BY <1>1 DEF Requests
<1>3. [q EXCEPT !.from = NoCompanion] = [from |-> NoCompanion, fence |-> f, state |-> s]
  BY <1>2
<1>4. q.fence = f /\ q.state = s
  BY <1>2
<1> QED
  BY <1>2, <1>3, <1>4 DEF Requests

\* The answer of a request is lost: its companion fails, and the request may come later.
LEMMA LoseAnswerKeeps ==
  ASSUME Sound, NEW q \in calls, LoseAnswer(q)
  PROVE  IInv'
<1>1. /\ q.from # NoCompanion /\ stops < MaxStops /\ stops' = stops + 1
      /\ UNCHANGED <<now, op, withdrawn, lock, disk, checked, seen, edits>>
  BY DEF LoseAnswer
<1>2. CallsFit /\ calls \subseteq Requests
  BY StateOfSound DEF Sound, IInv
<1>3. PICK p \in Companions : p = q.from
  BY <1>1, <1>2 DEF Requests
<1>4. ~At(p, "gone") /\ q.fence = op.fence
  BY <1>1, <1>2, <1>3 DEF CallsFit
<1>5. /\ lock = p /\ CliFits(cli[p]) /\ CliAgrees(p, cli[p]) /\ p # NoCompanion
      /\ \A r \in Companions : r # p => At(r, "gone")
  BY <1>4, OneWorks
<1>6. PICK o : o = [q EXCEPT !.from = NoCompanion]
  OBVIOUS
<1>7. calls' = (calls \ {q}) \cup {o} /\ o.from = NoCompanion /\ o.fence = q.fence /\ o.state = q.state /\ o \in Requests
  BY <1>6, OrphanIs DEF LoseAnswer, Orphaned
<1>8. StateFits' /\ SuccessIsReadBack'
  BY <1>1, StateOfSound DEF StateFits, Sound, IInv, SuccessIsReadBack, CompanionAssumption
<1>9. /\ Renewals \ {q} \subseteq Renewals'
      /\ \A r \in Renewals' : r \in Renewals \ {q} \/ (r = o /\ q \in Renewals)
  BY <1>7 DEF Renewals
<1>10. ASSUME NEW n, Turns(p, n), CliFits(n), CliAgrees(p, n), n.said = cli[p].said,
              q \in Renewals => n.failed /\ Carries(cli[p], n),
              q \notin Renewals =>
                /\ q.state \in {"succeeded", "failed"} /\ n.failed = cli[p].failed
                /\ n.queue = cli[p].queue
       PROVE  IInv'
  <2>1. cli'[p] = n /\ \A r \in Companions : r # p => cli'[r] = cli[r]
    BY <1>10, OnlyItTurns
  <2>2. n.at # "gone"
    BY <1>10 DEF CliFits, Places, Early, Executing, ReadBackSeen
  <2>3. \A r \in Companions : At(r, "gone")' <=> At(r, "gone")
    BY <1>4, <2>1, <2>2 DEF At
  <2>4. ASSUME NEW r \in calls \ {q}
        PROVE  /\ r.fence <= op.fence
               /\ r.from # NoCompanion => (~At(r.from, "gone"))'
               /\ r.from # NoCompanion => r.fence = op.fence
               /\ r.from # NoCompanion /\ r.state \in {"succeeded", "failed"} => At(r.from, r.state)'
               /\ r.state = "succeeded" => r.fence \in seen
    <3>1. r.from # NoCompanion => r.from \in Companions
      BY <1>2 DEF Requests
    <3>2. ASSUME r.from # NoCompanion, r.state \in {"succeeded", "failed"}
          PROVE  At(r.from, r.state)'
      <4>1. At(r.from, r.state) /\ r.from \in Companions
        BY <1>2, <3>1, <3>2 DEF CallsFit
      <4>2. CASE r.from # p
        BY <2>1, <4>1, <4>2 DEF At
      <4>3. CASE r.from = p
        <5>1. q \in Renewals
          BY <1>1, <1>3, <1>10, <3>2, <4>3, OneReceipt
        <5> QED
          BY <1>10, <2>1, <3>2, <4>1, <4>3, <5>1 DEF At, Carries
      <4> QED
        BY <4>2, <4>3
    <3> QED
      BY <1>2, <2>3, <3>1, <3>2 DEF CallsFit
  <2>5. /\ o.fence <= op.fence /\ (o.state = "succeeded" => o.fence \in seen)
    BY <1>2, <1>7 DEF CallsFit
  <2>6. ASSUME NEW r \in Renewals', r.fence = op.fence
        PROVE  RenewalAgrees(r)'
    <3>1. CASE q \in Renewals
      <4>1. RenewalAgrees(q) /\ \A x \in Renewals \ {q} : x.fence # op.fence
        BY <1>4, <3>1, OnlyRenewal
      <4>2. r = o /\ \A x \in Renewals' : x.fence = op.fence => x = o
        BY <1>9, <2>6, <4>1
      <4>3. r.state = n.said
        BY <1>4, <1>7, <1>10, <4>1, <4>2 DEF RenewalAgrees
      <4>4. (r.state = "verifying" => op.state # "claimed") /\ (r.state = "applying" => op.state # "verifying")
        BY <1>7, <4>1, <4>2 DEF RenewalAgrees
      <4>5. \A x \in Companions : (~At(x, "gone"))' => x = p
        BY <1>5, <2>3
      <4> QED
        BY <1>1, <1>5, <1>7, <1>10, <2>1, <3>1, <4>2, <4>3, <4>4, <4>5 DEF RenewalAgrees
    <3>2. CASE q \notin Renewals
      <4>1. r \in Renewals /\ RenewalAgrees(r)
        BY <1>2, <1>9, <2>6, <3>2 DEF CallsFit
      <4>2. \A x \in Companions : (~At(x, "gone"))' => x = p
        BY <1>5, <2>3
      <4>3. /\ r.state = n.said
            /\ r.from = p => n.queue # <<>> /\ Head(n.queue).state = n.said
            /\ r.from = NoCompanion => n.failed
        BY <1>4, <1>10, <3>2, <4>1 DEF RenewalAgrees
      <4>4. \A x \in Renewals' : x.fence = op.fence => x = r
        BY <1>9, <3>2, <4>1 DEF RenewalAgrees
      <4>5. (r.state = "verifying" => op.state # "claimed") /\ (r.state = "applying" => op.state # "verifying")
        BY <4>1 DEF RenewalAgrees
      <4> QED
        BY <1>1, <2>1, <4>2, <4>3, <4>4, <4>5 DEF RenewalAgrees
    <3> QED
      BY <3>1, <3>2
  <2>7. CallsFit'
    <3>1. \A r \in calls' : r \in calls \ {q} \/ r = o
      BY <1>7
    <3>2. calls' \subseteq Requests
      BY <1>2, <1>7
    <3> QED
      BY <1>1, <1>7, <2>4, <2>5, <2>6, <3>1, <3>2 DEF CallsFit
  <2>8. CliAgrees(p, n)'
    BY <1>1, <1>10 DEF CliAgrees
  <2> QED
    BY <1>4, <1>8, <1>10, <2>7, <2>8, TurnKeeps
<1>11. CASE q.state \in {"succeeded", "failed"}
  <2>1. At(p, q.state) /\ q \notin Renewals
    BY <1>1, <1>2, <1>3, <1>11 DEF CallsFit, Renewals
  <2>2. PICK no : no = FALSE
    OBVIOUS
  <2>3. Answered(p, q.state, no)
    BY <1>3, <1>11, <2>2, Zenon DEF LoseAnswer
  <2>4. PICK n : /\ Turns(p, n) /\ CliFits(n) /\ n.at \in {"fail", "stop"}
                 /\ n.said = cli[p].said /\ n.failed = cli[p].failed /\ n.queue = cli[p].queue
                 /\ n.fence = cli[p].fence
    BY <1>11, <2>1, <2>3, AnsweredTurns
  <2>5. CliAgrees(p, n)
    BY <1>5, <2>4 DEF CliAgrees, Early, ReadBackSeen
  <2> QED
    BY <1>10, <1>11, <2>1, <2>4, <2>5
<1>12. CASE q.state \notin {"succeeded", "failed"}
  <2>1. q \in Renewals
    BY <1>2, <1>12 DEF Renewals, Requests
  <2>2. Failed(p)
    BY <1>3, <1>12, Zenon DEF LoseAnswer
  <2>3. PICK n : /\ Turns(p, n)
                 /\ n = [at |-> n.at, fence |-> n.fence, expires |-> n.expires, failed |-> n.failed,
                         said |-> n.said, queue |-> n.queue, timer |-> n.timer, stopped |-> n.stopped]
                 /\ n.fence = cli[p].fence /\ n.failed = TRUE /\ n.said = cli[p].said /\ n.queue = <<>>
                 /\ n.at = IF cli[p].at = "wait" THEN "fail" ELSE cli[p].at
    BY <1>5, <2>2, FailedTurns
  <2>4. CliFits(n) /\ n.at # "gone" /\ Carries(cli[p], n) /\ CliAgrees(p, n)
    BY <1>4, <2>3, FailedFits
  <2> QED
    BY <1>10, <2>1, <2>3, <2>4
<1> QED
  BY <1>11, <1>12

\* The companion at work goes: nobody is left, and nobody waits for a request.
LEMMA GoneKeeps ==
  ASSUME Sound, NEW p \in Companions, ~At(p, "gone"), Turns(p, Gone), lock' = NoCompanion,
         UNCHANGED <<op, seen>>, StateFits',
         \A r \in calls' : /\ r \in Requests /\ r.from = NoCompanion
                           /\ \E q \in calls : r.fence = q.fence /\ r.state = q.state
  PROVE  IInv'
<1>1. /\ cli'[p] = Gone
      /\ \A r \in Companions : r # p => cli'[r] = cli[r]
      /\ cli' = [r \in Companions |-> cli'[r]]
  BY OnlyItTurns
<1>2. \A r \in Companions : At(r, "gone")'
  BY <1>1, OneWorks DEF At, Gone
<1>3. CallsFit
  BY DEF Sound, IInv
<1>4. ASSUME NEW r \in Renewals', r.fence = op.fence
      PROVE  RenewalAgrees(r)'
  <2>1. PICK q \in calls : r.fence = q.fence /\ r.state = q.state
    BY DEF Renewals
  <2>2. q \in Renewals /\ q.fence = op.fence /\ RenewalAgrees(q)
    BY <1>3, <1>4, <2>1 DEF Renewals, CallsFit
  <2>3. ASSUME NEW o \in Renewals', o.fence = op.fence
        PROVE  o = r
    <3>1. PICK x \in calls : o.fence = x.fence /\ o.state = x.state
      BY DEF Renewals
    <3>2. x \in Renewals /\ x.fence = op.fence
      BY <2>3, <3>1 DEF Renewals
    <3>3. x = q
      BY <2>2, <3>2 DEF RenewalAgrees
    <3>4. o.fence = r.fence /\ o.state = r.state /\ o.from = NoCompanion /\ r.from = NoCompanion
      BY <2>1, <3>1, <3>3 DEF Renewals
    <3>5. /\ o = [from |-> o.from, fence |-> o.fence, state |-> o.state]
          /\ r = [from |-> r.from, fence |-> r.fence, state |-> r.state]
      BY DEF Renewals, Requests
    <3> QED
      BY <3>4, <3>5
  <2> QED
    BY <1>2, <2>1, <2>2, <2>3 DEF RenewalAgrees
<1>5. CallsFit'
  <2>1. ASSUME NEW r \in calls'
        PROVE  r \in Requests /\ r.from = NoCompanion /\ r.fence <= op.fence
               /\ (r.state = "succeeded" => r.fence \in seen)
    <3>1. PICK q \in calls : r.fence = q.fence /\ r.state = q.state
      OBVIOUS
    <3> QED
      BY <1>3, <3>1 DEF CallsFit
  <2> QED
    BY <1>4, <2>1 DEF CallsFit
<1>6. TypeOK'
  BY <1>2, <1>5 DEF TypeOK, StateFits, CallsFit
<1>7. SuccessIsReadBack'
  BY DEF SuccessIsReadBack, Sound, IInv
<1> QED
  BY <1>1, <1>2, <1>5, <1>6, <1>7 DEF IInv

\* A companion leaves when its receipt was answered and no renewal is asked for.
LEMMA LeaveKeeps ==
  ASSUME Sound, NEW p \in Companions, Leave(p)
  PROVE  IInv'
<1>1. /\ ~At(p, "gone") /\ cli[p].at = "leave" /\ ~OnItsWay(p) /\ Turns(p, Gone) /\ lock' = NoCompanion
      /\ LocalOnly /\ UNCHANGED <<calls, disk, checked, seen>>
  BY DEF Leave, At, Turns
<1>2. StateFits'
  BY <1>1, StateOfSound DEF StateFits, LocalOnly
<1>3. ASSUME NEW r \in calls
      PROVE  r \in Requests /\ r.from = NoCompanion
  <2>1. r \in Requests /\ CallsFit
    BY StateOfSound DEF Sound, IInv
  <2>2. ASSUME r.from # NoCompanion
        PROVE  FALSE
    <3>1. r.from \in Companions /\ ~At(r.from, "gone")
      BY <2>1, <2>2 DEF Requests, CallsFit
    <3>2. r.from = p
      BY <1>1, <3>1, OneWorks
    <3>3. r \notin Renewals
      BY <1>1, <3>2 DEF OnItsWay
    <3>4. r.state \in {"succeeded", "failed"}
      BY <2>1, <3>3 DEF Renewals, Requests
    <3> QED
      BY <1>1, <2>1, <2>2, <3>2, <3>4 DEF CallsFit, At
  <2> QED
    BY <2>1, <2>2
<1> QED
  BY <1>1, <1>2, <1>3, GoneKeeps DEF LocalOnly

\* A companion dies: the lock is taken from it, and its request may come later.
LEMMA DieKeeps ==
  ASSUME Sound, NEW p \in Companions, Die(p)
  PROVE  IInv'
<1>1. /\ ~At(p, "gone") /\ stops < MaxStops /\ stops' = stops + 1 /\ Turns(p, Gone)
      /\ calls' = {IF q.from = p THEN [q EXCEPT !.from = NoCompanion] ELSE q : q \in calls}
      /\ UNCHANGED <<now, op, withdrawn, disk, checked, seen, edits>>
  BY DEF Die, Turns
<1>2. lock = p /\ \A r \in Companions : r # p => At(r, "gone")
  BY <1>1, OneWorks
<1>3. lock' = NoCompanion
  BY <1>2, Zenon DEF Die
<1>4. StateFits'
  BY <1>1, <1>3, StateOfSound DEF StateFits, Sound, CompanionAssumption
<1>5. ASSUME NEW r \in calls'
      PROVE  /\ r \in Requests /\ r.from = NoCompanion
             /\ \E q \in calls : r.fence = q.fence /\ r.state = q.state
  <2>1. PICK q \in calls : r = IF q.from = p THEN [q EXCEPT !.from = NoCompanion] ELSE q
    BY <1>1
  <2>2. q \in Requests /\ CallsFit
    BY StateOfSound DEF Sound, IInv
  <2>3. CASE q.from = p
    <3>1. r = [q EXCEPT !.from = NoCompanion]
      BY <2>1, <2>3, Zenon
    <3> QED
      BY <3>1, OrphanIs
  <2>4. CASE q.from # p
    <3>1. r = q
      BY <2>1, <2>4, Zenon
    <3>2. q.from # NoCompanion => q.from \in Companions /\ ~At(q.from, "gone")
      BY <2>2 DEF CallsFit, Requests
    <3>3. q.from = NoCompanion
      BY <1>2, <2>4, <3>2
    <3> QED
      BY <2>2, <3>1, <3>3
  <2> QED
    BY <2>3, <2>4
<1> QED
  BY <1>1, <1>3, <1>4, <1>5, GoneKeeps

\* A claim: every request on its way is of an older one.
LEMMA ClaimKeeps ==
  ASSUME Sound, NEW p \in Companions, Claim(p)
  PROVE  IInv'
<1>1. /\ At(p, "gone") /\ lock = NoCompanion /\ op.fence < MaxClaims /\ lock' = p
      /\ op' = [state |-> "claimed", fence |-> op.fence + 1, expires |-> now + LeaseTime]
      /\ checked' = [checked EXCEPT ![p] = FALSE]
      /\ UNCHANGED <<now, withdrawn, calls, disk, seen, stops, edits>>
  BY DEF Claim, IsFree
<1>2. PICK n : n = Cli("claimed", op.fence + 1, now + LeaseTime, FALSE, "applying", <<>>, FALSE, FALSE)
  OBVIOUS
<1>3. Turns(p, n)
  BY <1>2, Zenon DEF Claim, Turns, Cli
<1>4. /\ n.at = "claimed" /\ n.fence = op.fence + 1 /\ n.said = "applying" /\ n.queue = <<>>
      /\ n = [at |-> n.at, fence |-> n.fence, expires |-> n.expires, failed |-> n.failed,
              said |-> n.said, queue |-> n.queue, timer |-> n.timer, stopped |-> n.stopped]
  BY ONLY <1>2 DEF Cli
<1> HIDE DEF Cli, Turns
<1>5. \A r \in Companions : At(r, "gone")
  <2>1. ASSUME NEW r \in Companions, ~At(r, "gone")
        PROVE  FALSE
    BY <1>1, <2>1, OneWorks
  <2> QED
    BY <2>1
<1>6. /\ cli'[p] = n
      /\ \A r \in Companions : r # p => cli'[r] = cli[r]
      /\ cli' = [r \in Companions |-> cli'[r]]
  BY <1>3, OnlyItTurns
<1>7. /\ op.fence \in Nat /\ MaxClaims \in Nat /\ op.fence + 1 \in 1 .. MaxClaims
      /\ now + LeaseTime \in 0 .. MaxTime + LeaseTime
  BY <1>1, StateOfSound DEF StateFits, Sound, CompanionAssumption
<1>8. StateFits'
  BY <1>1, <1>7, StateOfSound DEF StateFits, Active
<1>9. n.queue \in Seq(Asked) /\ Len(n.queue) = 0
  BY <1>4
<1>10. CliFits(n)
  <2>1. QueueFits(n)
    BY <1>9 DEF QueueFits
  <2> QED
    BY <1>4, <1>7, <2>1 DEF CliFits, Places, Early, Executing
<1>11. op'.fence = op.fence + 1 /\ op'.state = "claimed"
  BY <1>1
<1>12. CliAgrees(p, n)'
  BY <1>1, <1>4, <1>9, <1>11 DEF CliAgrees, Early, ReadBackSeen
<1>13. ASSUME NEW q \in calls
       PROVE  q \in Requests /\ q.from = NoCompanion /\ q.fence < op'.fence
              /\ (q.state = "succeeded" => q.fence \in seen)
  <2>1. q \in Requests /\ CallsFit
    BY StateOfSound DEF Sound, IInv
  <2>2. q.from = NoCompanion
    BY <1>5, <2>1 DEF CallsFit, Requests
  <2>3. q.fence <= op.fence /\ q.fence \in Nat
    BY <2>1 DEF CallsFit, Requests
  <2> QED
    BY <1>7, <1>11, <2>1, <2>2, <2>3 DEF CallsFit
<1>14. CallsFit'
  <2>1. \A q \in calls' : q \in calls /\ q.fence < op'.fence
    BY <1>1, <1>13
  <2>2. \A q \in calls' : q.fence <= op'.fence /\ q.fence # op'.fence
    BY <1>7, <1>11, <1>13, <2>1 DEF Requests
  <2> QED
    BY <1>1, <1>13, <2>1, <2>2 DEF CallsFit, Renewals
<1>15. \A r \in Companions : r # p => At(r, "gone")'
  BY <1>5, <1>6 DEF At
<1>16. TypeOK'
  <2>1. Len(cli'[p].queue) <= 2
    BY <1>6, <1>9
  <2> QED
    BY <1>8, <1>14, <1>15, <2>1 DEF TypeOK, StateFits, CallsFit
<1>17. \A r \in Companions : (~At(r, "gone"))' => CliFits(cli'[r]) /\ CliAgrees(r, cli[r])'
  <2>1. CliAgrees(p, cli[p])'
    BY <1>6, <1>12 DEF CliAgrees
  <2> QED
    BY <1>6, <1>10, <1>15, <2>1
<1>18. SuccessIsReadBack'
  BY <1>11 DEF SuccessIsReadBack
<1> QED
  BY <1>6, <1>14, <1>16, <1>17, <1>18 DEF IInv

\* The world around: consent, the user, the clock.
LEMMA WorldKeeps ==
  ASSUME Sound, Withdraw \/ Edit \/ UserCommand \/ Tick
  PROVE  IInv'
<1>1. UNCHANGED <<op, calls, lock, cli, checked, seen, stops>>
  BY DEF Withdraw, Edit, UserCommand, Tick
<1>2. disk' \in Disks
  <2>1. disk \in Disks
    BY StateOfSound DEF StateFits, Disks
  <2>2. CASE Withdraw \/ Tick
    BY <2>1, <2>2 DEF Withdraw, Tick
  <2>3. CASE Edit
    BY <2>1, <2>3, DisksFit DEF Edit
  <2>4. CASE UserCommand
    <3>1. PICK d : d = Recovered
      OBVIOUS
    <3>2. d \in Disks
      BY <2>1, <3>1, DisksFit
    <3>3. d.tree = d.registry /\ disk' = [d EXCEPT !.tree = 3 - d.tree, !.registry = 3 - d.registry]
      BY <2>4, <3>1 DEF UserCommand
    <3>4. PICK t, r, j : /\ d = [tree |-> t, registry |-> r, journal |-> j]
                         /\ r \in 1 .. 2 /\ t = r
                         /\ j \in {"none", "prepared", "previous-staged", "installed", "registry-committed"}
      BY <3>2, <3>3 DEF Disks
    <3>5. PICK x : x = [d EXCEPT !.tree = 3 - d.tree]
      OBVIOUS
    <3>6. x = [tree |-> 3 - t, registry |-> r, journal |-> j] /\ d.registry = r
      BY <3>4, <3>5
    <3>7. disk' = [x EXCEPT !.registry = 3 - d.registry]
      BY ONLY <3>3, <3>5, Zenon
    <3>8. disk' = [tree |-> 3 - t, registry |-> 3 - r, journal |-> j]
      BY <3>6, <3>7
    <3>9. 3 - t \in 0 .. 3 /\ 3 - r \in 1 .. 2
      BY <3>4
    <3> QED
      BY <3>4, <3>8, <3>9 DEF Disks
  <2> QED
    BY <2>2, <2>3, <2>4
<1>3. now' \in 0 .. MaxTime /\ withdrawn' \in BOOLEAN /\ edits' \in 0 .. MaxEdits
  <2>1. now \in 0 .. MaxTime /\ withdrawn \in BOOLEAN /\ edits \in 0 .. MaxEdits
        /\ MaxTime \in Nat /\ MaxEdits \in Nat
    BY StateOfSound DEF StateFits, Sound, CompanionAssumption
  <2>2. /\ now' = now \/ (now < MaxTime /\ now' = now + 1)
        /\ withdrawn' = withdrawn \/ withdrawn' = TRUE
        /\ edits' = edits \/ (edits < MaxEdits /\ edits' = edits + 1)
    BY DEF Withdraw, Edit, UserCommand, Tick
  <2>3. now' \in 0 .. MaxTime
    BY <2>1, <2>2
  <2>4. withdrawn' \in BOOLEAN
    BY <2>1, <2>2, Zenon
  <2>5. edits' \in 0 .. MaxEdits
    BY <2>1, <2>2
  <2> QED
    BY <2>3, <2>4, <2>5
<1>4. StateFits'
  BY <1>1, <1>2, <1>3, StateOfSound DEF StateFits, Disks
<1>5. CallsFit'
  <2>1. CallsFit
    BY DEF Sound, IInv
  <2> QED
    BY <1>1, <2>1 DEF CallsFit, RenewalAgrees, Renewals, At, Requests
<1>6. SuccessIsReadBack'
  BY <1>1 DEF Sound, IInv, SuccessIsReadBack
<1>7. \A p \in Companions : ~At(p, "gone") => CliAgrees(p, cli[p])'
  <2>1. \A p \in Companions : ~At(p, "gone") => CliAgrees(p, cli[p])
    BY OneWorks
  <2> QED
    BY <1>1, <2>1 DEF CliAgrees
<1> QED
  BY <1>1, <1>4, <1>5, <1>6, <1>7, StillKeeps

---------------------------------------------------------------------------
(* Every step.                                                             *)

\* The invariant holds at the start.
LEMMA StartsSound ==
  ASSUME CompanionAssumption, Init
  PROVE  IInv
<1>1. \A p \in Companions : At(p, "gone")
  BY DEF Init, At, Gone
<1>2. TypeOK
  <2>1. /\ 0 \in 0 .. MaxTime /\ 0 \in 0 .. MaxClaims /\ 0 \in 0 .. MaxTime + LeaseTime
        /\ 0 \in 0 .. MaxStops /\ 0 \in 0 .. MaxEdits
    BY DEF CompanionAssumption
  <2>2. op \in [state : Active \cup {"queued", "succeeded", "failed"}, fence : 0..MaxClaims,
                expires : 0..MaxTime + LeaseTime]
    BY <2>1 DEF Init
  <2>3. disk \in Disks
    BY DEF Init, Disks
  <2>4. checked \in [Companions -> BOOLEAN]
    BY DEF Init
  <2> QED
    BY <1>1, <2>1, <2>2, <2>3, <2>4 DEF Init, TypeOK, Disks
<1>3. CallsFit
  BY DEF Init, CallsFit, Renewals
<1>4. SuccessIsReadBack
  BY DEF Init, SuccessIsReadBack
<1>5. cli = [p \in Companions |-> cli[p]]
  BY DEF Init
<1> QED
  BY <1>1, <1>2, <1>3, <1>4, <1>5 DEF IInv

\* The steps of one companion keep it.
LEMMA WorkKeeps ==
  ASSUME Sound, NEW p \in Companions, Work(p)
  PROVE  IInv'
<1>1. CASE Claim(p)
  BY <1>1, ClaimKeeps
<1>2. CASE Plan(p)
  BY <1>2, PlanKeeps
<1>3. CASE Prepare(p) \/ MoveAside(p) \/ Promote(p) \/ Commit(p) \/ Finish(p)
  BY <1>3, TransactionKeeps
<1>4. CASE ReadBack(p)
  BY <1>4, ReadBackKeeps
<1>5. CASE Stop(p)
  BY <1>5, StopKeeps
<1>6. CASE Leave(p)
  BY <1>6, LeaveKeeps
<1>7. CASE CheckPromotion(p) \/ Checkpoint(p, "claimed", "applying", "read")
           \/ Checkpoint(p, "prepared", "applying", "move")
           \/ Checkpoint(p, "executed", "verifying", "readback")
           \/ Checkpoint(p, "verified", "verifying", "report")
  BY <1>7, CheckpointKeeps DEF CheckPromotion
<1>8. CASE SendReceipt(p, "report", "succeeded") \/ SendReceipt(p, "fail", "failed")
  BY <1>8, SendReceiptKeeps
<1> QED
  BY <1>1, <1>2, <1>3, <1>4, <1>5, <1>6, <1>7, <1>8 DEF Work

\* A step that changes nothing keeps it.
LEMMA StutterKeeps ==
  ASSUME Sound, UNCHANGED vars
  PROVE  IInv'
BY DEF Sound, IInv, vars, TypeOK, CliAgrees, CallsFit, RenewalAgrees, Renewals, At, SuccessIsReadBack

\* What is about to be moved is moved under the newest claim, which was checked.
LEMMA MovesAreChecked ==
  ASSUME Sound
  PROVE  MovesUnderNewestClaimStep
<1>1. SUFFICES ASSUME NEW p \in Companions, At(p, "move") \/ At(p, "promote")
               PROVE  cli[p].fence = op.fence /\ checked[p]
  BY DEF MovesUnderNewestClaimStep
<1>2. ~At(p, "gone") /\ cli[p].at \in {"move", "promote"}
  BY <1>1 DEF At
<1> QED
  BY <1>2, OneWorks DEF CliAgrees

\* A renewal that is served under the newest claim of a target that accepts claims is
\* one the server grants.
LEMMA RenewalsInOrder ==
  ASSUME Sound, [Next]_vars
  PROVE  RenewalsAreOrderedStep
<1>1. SUFFICES ASSUME NEW q \in Renewals, Current(q), ~withdrawn, q \notin calls',
                      [q EXCEPT !.from = NoCompanion] \notin calls'
               PROVE  op'.state = q.state /\ op'.expires = now + LeaseTime
  BY DEF RenewalsAreOrderedStep
<1>2. q \in calls /\ q.state \in {"applying", "verifying"} /\ op.state \in Active /\ op.fence = q.fence
  BY <1>1 DEF Renewals, Current
<1>3. CASE ServeRenewal(q)
  <2>1. RenewalAgrees(q)
    BY <1>2, OnlyRenewal
  <2>2. op.state \in AdvanceFrom(q.state)
    <3>1. (q.state = "verifying" => op.state # "claimed") /\ (q.state = "applying" => op.state # "verifying")
      BY <2>1 DEF RenewalAgrees
    <3>2. CASE q.state = "applying"
      BY <1>2, <3>1, <3>2 DEF AdvanceFrom, Active
    <3>3. CASE q.state = "verifying"
      BY <1>2, <3>1, <3>3 DEF AdvanceFrom, Active
    <3> QED
      BY <1>2, <3>2, <3>3
  <2>3. Renewable(q)
    BY <1>1, <2>2 DEF Renewable
  <2>4. Advances(q)
    BY <1>3, <2>3, Zenon DEF ServeRenewal, Advances
  <2> QED
    BY <2>3, <2>4, AdvanceIs
<1>4. ASSUME NEW r \in calls, ServeRenewal(r) \/ ServeReceipt(r), r # q
      PROVE  FALSE
  <2>1. calls' = calls \ {r}
    BY <1>4 DEF ServeRenewal, ServeReceipt
  <2> QED
    BY <1>1, <1>2, <1>4, <2>1
<1>5. ASSUME ServeReceipt(q)
      PROVE  FALSE
  BY <1>2, <1>5 DEF ServeReceipt
<1>6. ASSUME NEW r \in calls, LoseAnswer(r)
      PROVE  FALSE
  <2>1. calls' = (calls \ {r}) \cup {[r EXCEPT !.from = NoCompanion]}
    BY <1>6 DEF LoseAnswer, Orphaned
  <2>2. CASE r = q
    BY <1>1, <2>1, <2>2
  <2>3. CASE r # q
    <3>1. q \in calls'
      BY <1>2, <2>1, <2>3, Zenon
    <3> QED
      BY <1>1, <3>1
  <2> QED
    BY <2>2, <2>3
<1>7. ASSUME NEW p \in Companions, Die(p)
      PROVE  FALSE
  <2>1. calls' = {IF r.from = p THEN [r EXCEPT !.from = NoCompanion] ELSE r : r \in calls}
    BY <1>7 DEF Die
  <2>2. PICK x : x = IF q.from = p THEN [q EXCEPT !.from = NoCompanion] ELSE q
    OBVIOUS
  <2>3. x \in calls'
    BY <1>2, <2>1, <2>2, Zenon
  <2>4. x = q \/ x = [q EXCEPT !.from = NoCompanion]
    BY <2>2, Zenon
  <2> QED
    BY <1>1, <2>3, <2>4, Zenon
<1>8. ASSUME calls \subseteq calls'
      PROVE  FALSE
  BY <1>1, <1>2, <1>8
<1>9. ASSUME NEW p \in Companions, Work(p)
      PROVE  calls \subseteq calls'
  BY <1>9 DEF Work, Claim, Plan, Prepare, Durable, MoveAside, CheckPromotion, Promote, Commit, Finish,
              ReadBack, Stop, Leave, Checkpoint, Renew, SendReceipt
<1>10. ASSUME NEW p \in Companions, TimerFires(p) \/ SendRenewal(p)
       PROVE  calls \subseteq calls'
  <2>1. CASE TimerFires(p)
    BY <2>1 DEF TimerFires, Renew
  <2>2. CASE SendRenewal(p)
    <3>1. CASE IsFresh(p)
      BY <2>2, <3>1, Zenon DEF SendRenewal
    <3>2. CASE ~IsFresh(p)
      BY <2>2, <3>2, Zenon DEF SendRenewal
    <3> QED
      BY <3>1, <3>2
  <2> QED
    BY <1>10, <2>1, <2>2
<1>11. ASSUME Withdraw \/ Edit \/ UserCommand \/ Tick \/ UNCHANGED vars
       PROVE  calls \subseteq calls'
  BY <1>11 DEF Withdraw, Edit, UserCommand, Tick, vars
<1>12. \/ \E p \in Companions : Work(p) \/ TimerFires(p) \/ SendRenewal(p) \/ Die(p)
       \/ \E r \in calls : ServeRenewal(r) \/ ServeReceipt(r) \/ LoseAnswer(r)
       \/ Withdraw \/ Edit \/ UserCommand \/ Tick \/ UNCHANGED vars
  BY DEF Next
<1> QED
  BY <1>3, <1>4, <1>5, <1>6, <1>7, <1>8, <1>9, <1>10, <1>11, <1>12

\* Every step keeps the invariant, moves trees under a checked claim, and keeps the
\* renewals in order.
LEMMA NextKeeps ==
  ASSUME Sound, [Next]_vars
  PROVE  IInv' /\ MovesUnderNewestClaimStep /\ RenewalsAreOrderedStep
<1>1. ASSUME NEW p \in Companions, Work(p) \/ TimerFires(p) \/ SendRenewal(p) \/ Die(p)
      PROVE  IInv'
  BY <1>1, WorkKeeps, TimerKeeps, SendRenewalKeeps, DieKeeps
<1>2. ASSUME NEW q \in calls, ServeRenewal(q) \/ ServeReceipt(q) \/ LoseAnswer(q)
      PROVE  IInv'
  BY <1>2, ServeRenewalKeeps, ServeReceiptKeeps, LoseAnswerKeeps
<1>3. ASSUME Withdraw \/ Edit \/ UserCommand \/ Tick
      PROVE  IInv'
  BY <1>3, WorldKeeps
<1>4. ASSUME UNCHANGED vars
      PROVE  IInv'
  BY <1>4, StutterKeeps
<1>5. IInv'
  BY <1>1, <1>2, <1>3, <1>4 DEF Next
<1> QED
  BY <1>5, MovesAreChecked, RenewalsInOrder

\* The invariant holds of companions at work, for any number of them and any bounds.
THEOREM CompanionInvariant ==
  ASSUME CompanionAssumption
  PROVE  Spec => []IInv
<1>1. Init => IInv
  BY StartsSound
<1>2. IInv /\ [Next]_vars => IInv'
  BY NextKeeps DEF Sound
<1> QED
  BY <1>1, <1>2, PTL DEF Spec

\* The variables keep their types, and no queue is longer than two renewals.
THEOREM CompanionTypes ==
  ASSUME CompanionAssumption
  PROVE  Spec => []TypeOK
<1>1. IInv => TypeOK
  BY DEF IInv
<1> QED
  BY <1>1, CompanionInvariant, PTL

\* An operation that succeeded was read back under its last claim, whichever requests
\* were late, lost or doubled, and whoever died (executeTargetOperation, complete).
THEOREM CompanionReadsBack ==
  ASSUME CompanionAssumption
  PROVE  Spec => []SuccessIsReadBack
<1>1. IInv => SuccessIsReadBack
  BY DEF IInv
<1> QED
  BY <1>1, CompanionInvariant, PTL

\* A companion moves a tree only under the newest claim, checked since its last durable
\* step (withInstallRootLock, checkpointInstallPromotion).
THEOREM CompanionMovesUnderItsClaim ==
  ASSUME CompanionAssumption
  PROVE  Spec => [][MovesUnderNewestClaimStep]_vars
<1>1. IInv /\ [Next]_vars => [MovesUnderNewestClaimStep]_vars
  BY NextKeeps DEF Sound
<1> QED
  BY <1>1, CompanionInvariant, PTL DEF Spec

\* A renewal that is served while its claim is current is granted: the timer and the
\* command never overtake each other (CompanionLease.pending).
THEOREM CompanionRenewsInOrder ==
  ASSUME CompanionAssumption
  PROVE  Spec => [][RenewalsAreOrderedStep]_vars
<1>1. IInv /\ [Next]_vars => [RenewalsAreOrderedStep]_vars
  BY NextKeeps DEF Sound
<1> QED
  BY <1>1, CompanionInvariant, PTL DEF Spec

=============================================================================
