---------------------------- MODULE AuthorDrafts ----------------------------
(***************************************************************************)
(* One author's draft: its saved revisions and their submission            *)
(* (apps/api/src/drafts/service.ts, postgres-store.ts).  A save names the  *)
(* revision it was made from.  A submission reads the draft, creates the   *)
(* submission in a transaction of its own (Submissions, Create), to which  *)
(* the draft contributes the two halves of submissionBinding, and answers  *)
(* with the receipt stored beside the revision; a repetition of the        *)
(* request is answered with the same receipt.                              *)
(***************************************************************************)
EXTENDS Naturals, Sequences

CONSTANTS
  Contents,     \* package contents the author may save
  VersionOf,    \* the version each content declares in its manifest
  MaxRevision,  \* revisions a draft may have (100 in the code)
  Calls         \* concurrent requests of the author

VARIABLES
  head,         \* current_revision of the draft
  revisions,    \* per revision saved, its content and receipt
  submissions,  \* contents submitted, in order; the position is the identifier
  call          \* what each request is doing

vars == <<head, revisions, submissions, call>>

NoReceipt == 0
Idle == [at |-> "idle"]
Answers == {"saved", "created", "replayed", "conflict", "exists", "unknown", "limit"}

Revision == [content : Contents, receipt : Nat]

TypeOK ==
  /\ head \in 1 .. MaxRevision
  /\ revisions \in Seq(Revision) /\ Len(revisions) \in 1 .. MaxRevision
  /\ submissions \in Seq(Contents)
  /\ \A c \in Calls :
       \/ call[c] = Idle
       \/ call[c] \in [at : {"saving", "creating", "replaying"} \cup Answers,
                       expected : 1 .. MaxRevision, content : Contents]

\* The draft was created with one revision; its author has not submitted yet.
Init ==
  /\ head = 1
  /\ revisions \in {<<[content |-> x, receipt |-> NoReceipt]>> : x \in Contents}
  /\ submissions = <<>>
  /\ call = [c \in Calls |-> Idle]

At(c, place) == call' = [call EXCEPT ![c].at = place]
Ended(c) == call[c] # Idle /\ call[c].at \in Answers

---------------------------------------------------------------------------
\* The author edits a copy of the current revision, or of one seen earlier.
Edit(c) ==
  \E expected \in 1 .. head, x \in Contents :
    /\ call[c] = Idle
    /\ call' = [call EXCEPT ![c] = [at |-> "saving", expected |-> expected, content |-> x]]
    /\ UNCHANGED <<head, revisions, submissions>>

\* Faulty: the head is not compared.
SaveAnyway(c) ==
  /\ call[c] # Idle /\ call[c].at = "saving" /\ call[c].expected < MaxRevision
  /\ revisions' = [i \in 1 .. call[c].expected + 1 |->
       IF i <= call[c].expected THEN revisions[i]
       ELSE [content |-> call[c].content, receipt |-> NoReceipt]]
  /\ head' = call[c].expected + 1
  /\ At(c, "saved") /\ UNCHANGED submissions

\* The locked head must still be the revision the edit was made from.
Save(c) ==
  /\ call[c] # Idle /\ call[c].at = "saving"
  /\ \/ head # call[c].expected /\ At(c, "conflict") /\ UNCHANGED <<head, revisions>>
     \/ head = call[c].expected /\ head = MaxRevision
          /\ At(c, "limit") /\ UNCHANGED <<head, revisions>>
     \/ /\ head = call[c].expected /\ head < MaxRevision
        /\ revisions' = Append(revisions, [content |-> call[c].content, receipt |-> NoReceipt])
        /\ head' = head + 1
        /\ At(c, "saved")
  /\ UNCHANGED submissions

---------------------------------------------------------------------------
\* submit reads the draft: a conflict, a receipt to replay, or files to submit.
StartSubmit(c) ==
  \E expected \in 1 .. head :
    /\ call[c] = Idle
    /\ call' = [call EXCEPT ![c] =
         [at |-> IF head # expected THEN "conflict"
                 ELSE IF revisions[expected].receipt # NoReceipt THEN "replayed" ELSE "creating",
          expected |-> expected, content |-> revisions[expected].content]]
    /\ UNCHANGED <<head, revisions, submissions>>

VersionExists(x) == \E i \in DOMAIN submissions : VersionOf[submissions[i]] = VersionOf[x]

\* The answer to a commit may be lost.
Created(c) ==
  /\ submissions' = Append(submissions, call[c].content)
  /\ At(c, "created") \/ At(c, "unknown")

\* Faulty: looks for the version before the receipt.
CreateVersionFirst(c) ==
  /\ call[c] # Idle /\ call[c].at = "creating"
  /\ \/ VersionExists(call[c].content) /\ At(c, "exists") /\ UNCHANGED <<submissions, revisions>>
     \/ ~VersionExists(call[c].content) /\ head # call[c].expected
          /\ At(c, "conflict") /\ UNCHANGED <<submissions, revisions>>
     \/ /\ ~VersionExists(call[c].content) /\ head = call[c].expected
        /\ Created(c)
        /\ revisions' = [revisions EXCEPT ![head].receipt = Len(submissions) + 1]
  /\ UNCHANGED head

\* Faulty: the receipt goes to the current revision, whichever that is.
CreateUnlocked(c) ==
  /\ call[c] # Idle /\ call[c].at = "creating" /\ ~VersionExists(call[c].content)
  /\ Created(c)
  /\ revisions' = [revisions EXCEPT ![head].receipt = Len(submissions) + 1]
  /\ UNCHANGED head

\* createSubmission: beforeVersionInsert compares the head and looks for a
\* receipt, the version must be new, afterVersionInsert stores the receipt.
CreateSubmission(c) ==
  /\ call[c] # Idle /\ call[c].at = "creating"
  /\ LET mine == revisions[call[c].expected] IN
     \/ head # call[c].expected /\ At(c, "conflict") /\ UNCHANGED <<submissions, revisions>>
     \/ /\ head = call[c].expected /\ mine.receipt # NoReceipt
        /\ At(c, "replaying") /\ UNCHANGED <<submissions, revisions>>
     \/ /\ head = call[c].expected /\ mine.receipt = NoReceipt /\ VersionExists(mine.content)
        /\ At(c, "exists") /\ UNCHANGED <<submissions, revisions>>
     \/ /\ head = call[c].expected /\ mine.receipt = NoReceipt /\ ~VersionExists(mine.content)
        /\ Created(c)
        /\ revisions' = [revisions EXCEPT ![call[c].expected].receipt = Len(submissions) + 1]
  /\ UNCHANGED head

\* DRAFT_ALREADY_SUBMITTED: the revision is read again, for its receipt.
Replay(c) ==
  /\ call[c] # Idle /\ call[c].at = "replaying"
  /\ IF revisions[call[c].expected].receipt # NoReceipt THEN At(c, "replayed") ELSE At(c, "conflict")
  /\ UNCHANGED <<head, revisions, submissions>>

\* The author sends another request.
Again(c) ==
  /\ Ended(c)
  /\ call' = [call EXCEPT ![c] = Idle]
  /\ UNCHANGED <<head, revisions, submissions>>

Next ==
  \E c \in Calls :
    Edit(c) \/ Save(c) \/ StartSubmit(c) \/ CreateSubmission(c) \/ Replay(c) \/ Again(c)

Spec == Init /\ [][Next]_vars

---------------------------------------------------------------------------
\* Each submission belongs to one revision, whose receipt names it and whose
\* content it is, however often the author sends the request.
ReceiptsAreTrue ==
  /\ \A i \in DOMAIN submissions :
       \E r \in DOMAIN revisions : revisions[r].receipt = i
  /\ \A r \in DOMAIN revisions :
       revisions[r].receipt # NoReceipt =>
         /\ submissions[revisions[r].receipt] = revisions[r].content
         /\ \A q \in DOMAIN revisions :
              revisions[q].receipt = revisions[r].receipt => q = r

\* A request that repeats a submission that succeeded is answered with it; it
\* is not told that the version exists.
RepetitionIsReplayed ==
  \A c \in Calls : Ended(c) /\ call[c].at = "exists" =>
    revisions[call[c].expected].receipt = NoReceipt

\* Why it is so: a request that submits has the content of its revision, and a
\* version that exists stays.
RequestsAreOfRevisions ==
  \A c \in Calls : call[c] # Idle =>
    /\ call[c].expected <= head
    /\ call[c].at \in {"creating", "exists"} => call[c].content = revisions[call[c].expected].content
    /\ call[c].at = "exists" => VersionExists(call[c].content)

IInv ==
  /\ TypeOK /\ head = Len(revisions) /\ DOMAIN call = Calls
  /\ ReceiptsAreTrue /\ RepetitionIsReplayed /\ RequestsAreOfRevisions
  /\ \A r \in DOMAIN revisions : revisions[r].receipt <= Len(submissions)

HistoryIsKeptStep ==
   /\ Len(revisions') >= Len(revisions) /\ head' = Len(revisions')
   /\ \A r \in DOMAIN revisions :
        /\ revisions'[r].content = revisions[r].content
        /\ revisions[r].receipt # NoReceipt => revisions'[r].receipt = revisions[r].receipt

\* Saved revisions are history: they are neither changed nor lost, and their
\* receipts stay.  Two edits of the same revision cannot both be saved.
HistoryIsKept == [][HistoryIsKeptStep]_vars
=============================================================================
