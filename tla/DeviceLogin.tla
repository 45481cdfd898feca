------------------------------ MODULE DeviceLogin ------------------------------
(***************************************************************************)
(* Login of the CLI through a browser (apps/api/src/auth/device-login;     *)
(* apps/cli/src/device-login.ts, logoutCommand in cli.ts).  A process of   *)
(* the CLI asks for a code, keeps it in the keyring of the account, waits  *)
(* and polls; somebody signed in decides in the browser; a poll redeems    *)
(* the decision once.  Processes are interrupted and die and others resume *)
(* what the keyring holds; polls they gave up still reach the server.      *)
(* Not modelled: scopes that differ between attempts, a corrupt or locked  *)
(* keyring, the selected API address, audit; one user decides, and the     *)
(* lock of the keyring entry (InstallRootLock) is free when its holder is  *)
(* gone.                                                                   *)
(***************************************************************************)
EXTENDS Naturals, FiniteSets

CONSTANTS
  Procs,        \* processes of the CLI
  None,         \* no checkpoint, no credential, nobody
  Codes,        \* requests this instance makes: 1 .. n
  MaxRows,      \* DEVICE_LOGIN_MAX_REQUESTS
  Lifetime,     \* DEVICE_LOGIN_TTL_MS, in ticks
  Interval,     \* the first interval between polls
  MaxInterval,  \* the interval no slow_down exceeds
  MfaWindow,    \* DEVICE_LOGIN_MFA_MS
  MaxTime,      \* when the clock stops
  MaxCalls,     \* polls on their way at a time
  MaxStops      \* interruptions and deaths

VARIABLES
  now,
  rows,        \* device_login_requests
  made,        \* codes handed out so far
  approver,    \* the deciding user: usable session, need and stamp of MFA
  tokens,      \* api_tokens that were issued, per code and time
  polls,       \* polls on their way or at work
  saved,       \* the checkpoint in the keyring
  credential,  \* the stored token: the code it came from
  lock,        \* who works on the keyring entry
  cli,         \* what each process is doing
  paced,       \* per code, the time before which no poll may be sent again
  stops        \* interruptions and deaths so far

vars == <<now, rows, made, approver, tokens, polls, saved, credential, lock, cli, paced, stops>>

server == <<rows, made, tokens>>
Idle == [at |-> "idle"]

---------------------------------------------------------------------------
(* The server                                                              *)

\* deviceRequiresMfa and freshDeviceMfa.
Fresh(stamp, t) == stamp > 0 /\ stamp <= t /\ t < stamp + MfaWindow
MayDecide(t) == approver.needsMfa => Fresh(approver.stamp, t)

\* The store's create: old rows go, the rest count against the limit.
Live(t) == {c \in DOMAIN rows : rows[c].expires > t}
Admits == Cardinality(Live(now)) < MaxRows
NewRow == [status |-> "pending", expires |-> now + Lifetime, interval |-> Interval,
           polled |-> 0, user |-> None, stamp |-> 0]
CreateRequest(c) ==
  /\ rows' = [d \in Live(now) \cup {c} |-> IF d = c THEN NewRow ELSE rows[d]]
  /\ made' = made \cup {c}
  /\ UNCHANGED tokens

\* The store's decide: account, session and request are locked.
Decide(c, status) ==
  /\ c \in Live(now) /\ rows[c].status = "pending"
  /\ approver.usable
  /\ status = "approved" => MayDecide(now)
  /\ rows' = [rows EXCEPT ![c].status = status, ![c].user = "user",
                ![c].stamp = IF Fresh(approver.stamp, now) THEN approver.stamp ELSE 0]
  /\ UNCHANGED <<now, made, approver, tokens, polls, saved, credential, lock, cli, paced, stops>>

\* What the deciding user's account, session and request still permit.
Stands(c) == approver.usable /\ (approver.needsMfa => Fresh(rows[c].stamp, now))

\* poll's first read tells whom to lock.
ReadUser(q) ==
  /\ q.read = "no"
  /\ polls' = (polls \ {q}) \cup
       {[q EXCEPT !.read = IF q.code \in DOMAIN rows THEN rows[q.code].user ELSE None]}
  /\ UNCHANGED <<now, server, approver, saved, credential, lock, cli, paced, stops>>

TooEarly(c) == rows[c].polled > 0 /\ now < rows[c].polled + rows[c].interval
Slower(c) == IF rows[c].interval < MaxInterval THEN rows[c].interval + 1 ELSE MaxInterval

\* Faulty: an approval the first read has not seen is judged without its user.
AlwaysKnown(q) == FALSE

\* The request was approved after the first read.
NotKnownTo(q) == rows[q.code].status = "approved" /\ rows[q.code].user # q.read

\* The locked row decides; an approval made after the first read has to wait,
\* for the account is locked before the request.
Answer(q) ==
  LET c == q.code
  IN  IF c \notin DOMAIN rows THEN "invalid"
      ELSE IF NotKnownTo(q) THEN "pending"
      ELSE IF rows[c].status = "consumed" THEN "invalid"
      ELSE IF c \notin Live(now) THEN "expired"
      ELSE IF rows[c].status = "denied" THEN "denied"
      ELSE IF TooEarly(c) THEN "slow_down"
      ELSE IF rows[c].status = "pending" THEN "pending"
      ELSE IF q.read = None \/ ~Stands(c) THEN "denied"
      ELSE "authorized"

\* The answers that are written down.
Noted(q, answer) ==
  \/ answer \in {"slow_down", "authorized"}
  \/ answer = "denied" /\ rows[q.code].status # "denied"
  \/ answer = "pending" /\ rows[q.code].status = "pending"

\* The row after the answer, with its next status.
RowWith(q, answer, status) ==
  IF Noted(q, answer)
    THEN [rows[q.code] EXCEPT !.polled = now, !.status = status,
            !.interval = IF answer = "slow_down" THEN Slower(q.code) ELSE @]
    ELSE rows[q.code]

\* Faulty: the row stays approved.
RowAfterUnconsumed(q, answer) ==
  RowWith(q, answer, IF answer = "denied" THEN "denied" ELSE rows[q.code].status)

RowAfter(q, answer) ==
  RowWith(q, answer, IF answer = "authorized" THEN "consumed"
                     ELSE IF answer = "denied" THEN "denied" ELSE rows[q.code].status)

---------------------------------------------------------------------------
(* The processes of the CLI                                                *)

\* A process leaves; what it sent is nobody's any more.
Leave(p) ==
  /\ cli' = [cli EXCEPT ![p] = Idle]
  /\ lock' = IF lock = p THEN None ELSE lock
Orphaned(p) == {IF q.from = p THEN [q EXCEPT !.from = None] ELSE q : q \in polls}

\* A work whose next poll is an interval away.
Paced(work, at, interval) ==
  [work EXCEPT !.at = at, !.interval = interval, !.next = now + interval]

Moves(p, at) == cli' = [cli EXCEPT ![p].at = at]

\* What the keyring keeps of a process's request; nothing with --no-resume.
Checkpoint(p) ==
  saved' = IF cli[p].keep THEN [code |-> cli'[p].code, expires |-> cli'[p].expires,
                                interval |-> cli'[p].interval, next |-> cli'[p].next]
           ELSE saved

\* browserDeviceLogin under the lock: it resumes what is saved, or asks for a code.
Begin(p, keep) ==
  /\ cli[p] = Idle /\ lock = None
  /\ ~keep => saved = None
  /\ lock' = p
  /\ cli' = [cli EXCEPT ![p] =
       IF saved = None THEN [at |-> "start", keep |-> keep]
       ELSE [at |-> IF saved.expires <= now THEN "clear" ELSE "wait", keep |-> TRUE, code |-> saved.code,
             expires |-> saved.expires, interval |-> saved.interval, next |-> saved.next]]
  /\ UNCHANGED <<now, server, approver, tokens, polls, saved, credential, paced, stops>>

\* The code is persisted before anybody sees it.
Start(p, c) ==
  /\ cli[p].at = "start"
  /\ c \in Codes \ made /\ \A d \in Codes \ made : c <= d
  /\ now + Lifetime <= MaxTime
  /\ IF Admits
       THEN /\ CreateRequest(c)
            /\ cli' = [cli EXCEPT ![p] = [at |-> "save", keep |-> cli[p].keep, code |-> c, expires |-> now + Lifetime,
                                          interval |-> Interval, next |-> now + Interval]]
            /\ UNCHANGED lock
       ELSE Leave(p) /\ UNCHANGED server
  /\ UNCHANGED <<now, approver, polls, saved, credential, paced, stops>>

Save(p) ==
  /\ cli[p].at = "save"
  /\ Moves(p, "wait")
  /\ Checkpoint(p)
  /\ UNCHANGED <<now, server, approver, polls, credential, lock, paced, stops>>

\* Faulty: the poll is put off in memory only.
PutOffInMemory(p) ==
  /\ cli' = [cli EXCEPT ![p] = Paced(cli[p], "send", cli[p].interval)]
  /\ UNCHANGED saved

\* The next poll is put off before this one is sent, in the keyring, too.
PutOff(p) ==
  /\ cli' = [cli EXCEPT ![p] = Paced(cli[p], "send", cli[p].interval)]
  /\ Checkpoint(p)

PreparePoll(p) ==
  /\ cli[p].at = "wait"
  /\ cli[p].next <= now /\ now < cli[p].expires
  /\ PutOff(p)
  /\ paced' = [paced EXCEPT ![cli[p].code] = now + cli[p].interval]
  /\ UNCHANGED <<now, server, approver, polls, credential, lock, stops>>

SendPoll(p) ==
  /\ cli[p].at = "send" /\ Cardinality(polls) < MaxCalls
  /\ polls' = polls \cup {[from |-> p, code |-> cli[p].code, read |-> "no"]}
  /\ Moves(p, "poll")
  /\ UNCHANGED <<now, server, approver, saved, credential, lock, paced, stops>>

\* What a process does with an answer: it waits on, stores the token, or drops
\* the checkpoint of a request that is over.
Receive(p, answer, interval) ==
  /\ IF answer \in {"pending", "slow_down"}
       THEN /\ cli' = [cli EXCEPT ![p] = Paced(cli[p], "wait", interval)]
            /\ Checkpoint(p)
       ELSE /\ Moves(p, IF answer = "authorized" THEN "store" ELSE "clear")
            /\ UNCHANGED saved

\* The store's poll, and its answer on the way to whoever still waits for it.
ServePoll(q) ==
  /\ q.read # "no"
  /\ LET c == q.code
         a == Answer(q)
     IN  /\ rows' = IF c \in DOMAIN rows THEN [rows EXCEPT ![c] = RowAfter(q, a)] ELSE rows
         /\ tokens' = IF a = "authorized" THEN tokens \cup {[code |-> c, at |-> now]} ELSE tokens
         /\ IF q.from = None THEN UNCHANGED <<saved, cli>>
            ELSE Receive(q.from, a, IF a \in {"pending", "slow_down"} THEN rows'[c].interval ELSE 0)
  /\ polls' = polls \ {q}
  /\ UNCHANGED <<now, made, approver, credential, lock, paced, stops>>

\* tokenStore.set; a failure is told and not tried again.
StoreToken(p) ==
  /\ cli[p].at = "store"
  /\ credential' \in {credential, cli[p].code}
  /\ Moves(p, "clear")
  /\ UNCHANGED <<now, server, approver, polls, saved, lock, paced, stops>>

\* clearPending, and the end of the command.
ClearPending(p) ==
  /\ cli[p].at = "clear"
  /\ saved' = IF cli[p].keep THEN None ELSE saved
  /\ Leave(p)
  /\ UNCHANGED <<now, server, approver, polls, credential, paced, stops>>

\* The deadline passes while a process waits, for its time or for an answer.
GiveUp(p) ==
  /\ cli[p].at \in {"wait", "send", "poll"} /\ cli[p].expires <= now
  /\ polls' = Orphaned(p)
  /\ Moves(p, "clear")
  /\ UNCHANGED <<now, server, approver, saved, credential, lock, paced, stops>>

\* An interruption, an error of the network or a death, at any point; a request
\* that was on its way arrives all the same.
Stop(p) ==
  /\ cli[p] # Idle /\ stops < MaxStops
  /\ stops' = stops + 1
  /\ polls' = Orphaned(p)
  /\ Leave(p)
  /\ UNCHANGED <<now, server, approver, saved, credential, paced>>

\* logoutCommand drops the checkpoint, then the credential; an API token is not
\* revoked on the server.
Logout(p) ==
  /\ cli[p] = Idle /\ lock = None
  /\ lock' = p
  /\ saved' = None
  /\ cli' = [cli EXCEPT ![p] = [at |-> "logout"]]
  /\ UNCHANGED <<now, server, approver, polls, credential, paced, stops>>

DropCredential(p) ==
  /\ cli[p].at = "logout"
  /\ credential' = None
  /\ Leave(p)
  /\ UNCHANGED <<now, server, approver, polls, saved, paced, stops>>

---------------------------------------------------------------------------
\* The session of the user ends, or the account is suspended; roles are added.
Revoked ==
  /\ approver.usable
  /\ approver' = [approver EXCEPT !.usable = FALSE]
  /\ UNCHANGED <<now, server, polls, saved, credential, lock, cli, paced, stops>>

Promoted ==
  /\ ~approver.needsMfa
  /\ approver' = [approver EXCEPT !.needsMfa = TRUE]
  /\ UNCHANGED <<now, server, polls, saved, credential, lock, cli, paced, stops>>

Tick ==
  /\ now < MaxTime
  /\ now' = now + 1
  /\ UNCHANGED <<server, approver, polls, saved, credential, lock, cli, paced, stops>>

Init ==
  /\ now = 1
  /\ rows = [c \in {} |-> NewRow]
  /\ made = {}
  /\ approver \in [usable : {TRUE}, needsMfa : BOOLEAN, stamp : {0, 1}]
  /\ tokens = {}
  /\ polls = {}
  /\ saved = None /\ credential = None /\ lock = None
  /\ cli = [p \in Procs |-> Idle]
  /\ paced = [c \in Codes |-> 0]
  /\ stops = 0

Step(p) ==
  \/ \E c \in Codes : Start(p, c)
  \/ Save(p) \/ PreparePoll(p) \/ SendPoll(p) \/ StoreToken(p) \/ ClearPending(p) \/ GiveUp(p)
  \/ DropCredential(p)

Next ==
  \/ \E p \in Procs : \/ \E keep \in BOOLEAN : Begin(p, keep)
                      \/ Step(p) \/ Stop(p) \/ Logout(p)
  \/ \E c \in Codes, status \in {"approved", "denied"} : Decide(c, status)
  \/ \E q \in polls : ReadUser(q) \/ ServePoll(q)
  \/ Revoked \/ Promoted \/ Tick

Spec == Init /\ [][Next]_vars

---------------------------------------------------------------------------
Statuses == {"pending", "approved", "denied", "consumed"}
Intervals == Interval .. MaxInterval

\* What the keyring keeps of a request, and what a process knows of it.
Requests == [code : made, expires : Nat, interval : Intervals, next : Nat]
Works == [at : {"save", "wait", "send", "poll", "store", "clear"}, keep : BOOLEAN, code : made,
          expires : Nat, interval : Intervals, next : Nat]

TypeOK ==
  /\ now \in Nat
  /\ DOMAIN rows \subseteq made /\ made \subseteq Codes
  /\ rows \in [DOMAIN rows -> [status : Statuses, expires : Nat, interval : Intervals,
                               polled : Nat, user : {None, "user"}, stamp : Nat]]
  /\ approver \in [usable : BOOLEAN, needsMfa : BOOLEAN, stamp : {0, 1}]
  /\ tokens \subseteq [code : made, at : Nat]
  /\ polls \subseteq [from : Procs \cup {None}, code : made, read : {"no", None, "user"}]
  /\ saved \in {None} \cup Requests
  /\ credential \in {None} \cup {t.code : t \in tokens}
  /\ lock \in {None} \cup Procs
  /\ cli \in [Procs -> {Idle} \cup [at : {"start"}, keep : BOOLEAN] \cup Works
                       \cup [at : {"logout"}]]
  /\ paced \in [Codes -> Nat]
  /\ \A p \in Procs : (cli[p] # Idle) <=> (lock = p)

\* A request is redeemed at most once, in its lifetime, whoever polls for it and
\* however often; a redeemed request is consumed for everybody else.
OneTokenPerRequest ==
  /\ \A t, u \in tokens : t.code = u.code => t = u
  /\ \A t \in tokens : t.code \in DOMAIN rows => rows[t.code].status = "consumed" /\ t.at < rows[t.code].expires

ApprovalsAreHonouredStep ==
  \A c \in DOMAIN rows \cap DOMAIN rows' :
    rows[c].status = "approved" /\ rows'[c].status # "approved" =>
      rows'[c].status = IF Stands(c) THEN "consumed" ELSE "denied"

\* An approved request is redeemed while the approver's session, account and MFA
\* stand, and is denied once they do not: a poll that raced with the approval
\* does not turn it into a denial.
ApprovalsAreHonoured == [][ApprovalsAreHonouredStep]_vars

PollsArePacedStep ==
  \A p \in Procs : cli[p].at = "wait" /\ cli'[p].at = "send" => paced[cli[p].code] <= now

\* However often a login is interrupted and resumed, two polls of one request
\* are the interval apart.
PollsArePaced == [][PollsArePacedStep]_vars

\* An approved request knows its user.
ApprovalsHaveUsers ==
  \A c \in DOMAIN rows : rows[c].status = "approved" => rows[c].user = "user"

\* A process stores a token that was issued for its request.
StoredAreIssued ==
  \A p \in Procs : cli[p].at = "store" => \E t \in tokens : t.code = cli[p].code

\* A poll on its way for a process is the one it waits for.
PollsAreWaitedFor ==
  /\ \A q \in polls :
       q.from # None => cli[q.from].at = "poll" /\ cli[q.from].code = q.code
  /\ \A q, r \in polls : q.from # None /\ q.from = r.from => q = r

\* Of a request, as a process or the keyring has it: its next poll is not before its
\* time, at most an interval from now, and that interval no longer than the server's.
IsPaced(r) ==
  /\ paced[r.code] <= r.next /\ r.next <= now + r.interval
  /\ r.code \in DOMAIN rows => r.interval <= rows[r.code].interval

PacesAreKept ==
  /\ \A p \in Procs : cli[p].at \in {"save", "wait", "send", "poll"} => IsPaced(cli[p])
  /\ saved # None => IsPaced(saved)
  /\ \A p \in Procs :
       cli[p].at \in {"start", "save", "wait", "send", "poll"} /\ ~cli[p].keep => saved = None
  /\ \A c \in Codes \ made : paced[c] = 0

\* What is true of device logins whatever comes next.
IInv ==
  /\ TypeOK /\ OneTokenPerRequest /\ ApprovalsHaveUsers /\ StoredAreIssued
  /\ PollsAreWaitedFor /\ PacesAreKept
================================================================================
