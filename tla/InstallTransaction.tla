------------------------ MODULE InstallTransaction ------------------------
(***************************************************************************)
(* Installation, update and rollback of one skill under an installation    *)
(* root (apps/cli/src/cli.ts).  A command journals what it is about to do, *)
(* renames the active tree aside, renames the staged tree into its place,  *)
(* writes the registry and removes the journal.  Every command that reads  *)
(* the registry first recovers what an earlier one left behind.            *)
(*                                                                         *)
(* One action is one durable effect, with the checks right before it.  A   *)
(* command may stop between any two of them, in recovery too: a crash and  *)
(* a call that throws leave the same disk.  The lock of the root, module   *)
(* InstallRootLock, gives it to one command at a time.  A tree is the      *)
(* bytes it holds, and equal digests are equal bytes.  The user may change *)
(* the active tree, never the private copies.                              *)
(*                                                                         *)
(* Operators marked "Faulty" stand for plausible bugs and are not part of  *)
(* the model.                                                              *)
(***************************************************************************)
EXTENDS Integers, SequencesExt

CONSTANTS
  Versions,      \* released versions of the skill
  BytesOf,       \* the bytes of each version's package
  MaxTx,         \* bound on the transactions journaled
  MaxStops,      \* bound on the commands that stop halfway
  MaxEdits,      \* bound on the changes the user makes to the active tree
  Reinstalls,    \* TRUE if the user installs the version already installed
  Absent,        \* no such tree
  Edited,        \* bytes of the user's own
  Partial,       \* what is left of a tree removed halfway
  NotInstalled,  \* no entry of the skill in the registry
  NoJournal      \* no file in the transactions directory

VARIABLES
  active,    \* the tree at the skill's place under the root
  stage,     \* the journaled transaction's tree in the staging directory
  snaps,     \* the trees in the history directory, by transaction
  journal,   \* the journal on disk
  registry,  \* the skill's entry in installed.json
  managed,   \* TRUE once the root belongs to an enrolled workspace
  pc,        \* where the command holding the root is, "idle" if none does
  after,     \* where recovery goes on: "ready", or "idle" after a checkpoint
  txs, stops, edits  \* what MaxTx, MaxStops and MaxEdits bound

vars == <<active, stage, snaps, journal, registry, managed, pc, after, txs,
          stops, edits>>
trees == <<active, stage, snaps>>

Packages == {BytesOf[v] : v \in Versions}
Trees == Packages \cup {Absent, Edited, Partial}
TxIds == 1 .. MaxTx

\* An entry of history: the version and where its tree is.
Snapshots == [version : Versions, id : TxIds]
Entries == [version : Versions, history : Seq(Snapshots)]
Journals == [id : TxIds, operation : {"install", "rollback"},
             state : {"prepared", "previous-staged", "installed", "registry-committed"},
             target : Versions, previous : Entries \cup {NotInstalled},
             source : 0 .. MaxTx]

Points == {"idle", "ready", "prepared", "moved", "noted", "promoted", "installed",
           "written", "recover", "clear", "putback", "reset", "resetspare", "spare",
           "snapshot", "source", "journal"}

TypeOK ==
  /\ active \in Trees /\ stage \in Trees /\ snaps \in [TxIds -> Trees]
  /\ journal = NoJournal \/ journal \in Journals
  /\ registry = NotInstalled \/ registry \in Entries
  /\ managed \in BOOLEAN /\ pc \in Points /\ after \in {"ready", "idle"}
  /\ txs \in 0 .. MaxTx /\ stops \in 0 .. MaxStops /\ edits \in 0 .. MaxEdits

Init ==
  /\ active = Absent /\ stage = Absent
  /\ snaps = [t \in TxIds |-> Absent]
  /\ journal = NoJournal /\ registry = NotInstalled /\ managed = FALSE
  /\ pc = "idle" /\ after = "ready"
  /\ txs = 0 /\ stops = 0 /\ edits = 0

At(p) == pc = p
Go(p) == pc' = p
Reach(p, q) == At(p) /\ Go(q)

\* The journal's previous tree and its target, as bytes; a snapshot is planned
\* for every previous entry.
Previous == IF journal.previous = NotInstalled THEN Absent
            ELSE BytesOf[journal.previous.version]
Target == BytesOf[journal.target]
Updating == journal.previous # NotInstalled
Aside == IF Updating THEN snaps[journal.id] ELSE Absent

\* A recursive removal of t, up to the next point where it may stop.
Shrunk(t) == IF t \notin {Absent, Partial} THEN Partial ELSE Absent

-----------------------------------------------------------------------------
(* A command: it takes the root and recovers before it does anything else. *)

Begin ==
  /\ Reach("idle", "recover") /\ after' = "ready"
  /\ UNCHANGED <<managed, trees, journal, registry, txs, stops, edits>>

\* It only reads, or what it checks before it journals does not hold.
Leave ==
  /\ Reach("ready", "idle")
  /\ UNCHANGED <<managed, trees, journal, registry, after, txs, stops, edits>>

\* writeNewPackageTree and the first journal: the plan of one transaction.
Prepare(operation, version, bytes, source) ==
  /\ Reach("ready", "prepared") /\ txs < MaxTx
  /\ txs' = txs + 1
  /\ stage' = bytes
  /\ journal' = [id |-> txs + 1, operation |-> operation, state |-> "prepared",
                 target |-> version, previous |-> registry, source |-> source]
  /\ UNCHANGED <<managed, active, snaps, registry, after, stops, edits>>

\* Faulty: takes any active tree for the recorded one.
FaultyNoDrift(entry) == (entry = NotInstalled) = (active = Absent)

\* assertInstalledBytes, and its counterpart for a first installation.
NoDrift(entry) ==
  active = IF entry = NotInstalled THEN Absent ELSE BytesOf[entry.version]

Eligible(v) ==
  registry # NotInstalled =>
    v > registry.version \/ (v = registry.version /\ Reinstalls)

PrepareInstall(v) ==
  NoDrift(registry) /\ Eligible(v) /\ Prepare("install", v, BytesOf[v], 0)

PrepareRollback ==
  /\ registry # NotInstalled /\ registry.history # <<>>
  /\ NoDrift(registry)
  /\ LET s == Last(registry.history) IN
     /\ snaps[s.id] = BytesOf[s.version]
     /\ Prepare("rollback", s.version, snaps[s.id], s.id)

\* Faulty: an update removes the tree it replaces.
FaultyMoveAside ==
  /\ At("prepared") /\ NoDrift(journal.previous)
  /\ Go(IF Updating THEN "moved" ELSE "noted")
  /\ active' = Absent
  /\ UNCHANGED <<managed, stage, snaps, journal, registry, after, txs, stops, edits>>

\* rename(outputRoot, snapshotPath); a first installation has nothing to move.
MoveAside ==
  /\ At("prepared") /\ NoDrift(journal.previous)
  /\ IF Updating
     THEN Go("moved") /\ snaps' = [snaps EXCEPT ![journal.id] = active] /\ active' = Absent
     ELSE Go("noted") /\ UNCHANGED <<active, snaps>>
  /\ UNCHANGED <<managed, stage, journal, registry, after, txs, stops, edits>>

Note(state, p, q) ==
  /\ Reach(p, q)
  /\ journal' = [journal EXCEPT !.state = state]
  /\ UNCHANGED <<managed, trees, registry, after, txs, stops, edits>>

NoteMoved == Note("previous-staged", "moved", "noted")

\* checkpointInstallPromotion: a companion whose claim is gone recovers at
\* once and fails.
CheckpointFails ==
  /\ managed
  /\ Reach("noted", "recover") /\ after' = "idle"
  /\ UNCHANGED <<managed, trees, journal, registry, txs, stops, edits>>

\* rename(stageRoot, outputRoot)
Promote ==
  /\ Reach("noted", "promoted") /\ active = Absent
  /\ active' = stage /\ stage' = Absent
  /\ UNCHANGED <<managed, snaps, journal, registry, after, txs, stops, edits>>

NoteInstalled == Note("installed", "promoted", "installed")

\* What history keeps of the previous entry.
Snapshot == [version |-> journal.previous.version, id |-> journal.id]

\* Faulty: keeps the whole entry where its snapshot belongs.
FaultyCandidate ==
  [version |-> journal.target,
   history |-> IF Updating THEN Append(journal.previous.history, journal.previous) ELSE <<>>]

\* Faulty: a rollback keeps the snapshot it takes in history.
FaultyRollbackCandidate ==
  [version |-> journal.target,
   history |-> IF journal.operation = "rollback" THEN journal.previous.history
               ELSE IF Updating THEN Append(journal.previous.history, Snapshot) ELSE <<>>]

\* What the registry says once the transaction is through.
Candidate ==
  [version |-> journal.target,
   history |-> IF journal.operation = "rollback" THEN Front(journal.previous.history)
               ELSE IF Updating THEN Append(journal.previous.history, Snapshot) ELSE <<>>]

\* The promoted tree is read back, then the registry is written.
Commit ==
  /\ Reach("installed", "written") /\ active = Target
  /\ registry' = Candidate
  /\ UNCHANGED <<managed, trees, journal, after, txs, stops, edits>>

\* Where the removals begin.
Rest == IF journal.operation = "rollback" THEN "snapshot" ELSE "journal"

NoteCommitted ==
  /\ At("written") /\ Go(Rest) /\ after' = "idle"
  /\ journal' = [journal EXCEPT !.state = "registry-committed"]
  /\ UNCHANGED <<managed, trees, registry, txs, stops, edits>>


-----------------------------------------------------------------------------
(* recoverInstallTransactions, for a journal of this skill. *)

\* Faulty: goes by the journal, which is written after the registry.
FaultyCandidateCommitted == journal.state = "registry-committed" /\ active = Target

\* The registry names the target, and the target's bytes are in place.
CandidateCommitted ==
  registry # NotInstalled /\ registry.version = journal.target /\ active = Target

PreviousAtOutput == Updating /\ active = Previous

\* Faulty: insists on the snapshot of an update.
FaultyRefused ==
  /\ ~CandidateCommitted
  /\ \/ active \notin {Absent, Previous, Target}
     \/ Aside # Absent /\ ~PreviousAtOutput /\ managed
     \/ Aside # Absent /\ Aside # Previous
     \/ Aside = Absent /\ Updating /\ journal.state # "prepared"

Refused ==
  /\ ~CandidateCommitted
  /\ \/ active \notin {Absent, Previous, Target}
     \/ Aside # Absent /\ ~PreviousAtOutput /\ managed
     \/ Aside # Absent /\ Aside # Previous
     \/ Aside = Absent /\ Updating /\ ~PreviousAtOutput

NothingToRecover ==
  /\ Reach("recover", after) /\ journal = NoJournal
  /\ UNCHANGED <<managed, trees, journal, registry, after, txs, stops, edits>>

Refuse ==
  /\ Reach("recover", "idle") /\ journal # NoJournal /\ Refused
  /\ UNCHANGED <<managed, trees, journal, registry, after, txs, stops, edits>>

KeepCandidate ==
  /\ At("recover") /\ journal # NoJournal /\ CandidateCommitted
  /\ Go(Rest)
  /\ stage' = Absent
  /\ UNCHANGED <<managed, active, snaps, journal, registry, after, txs, stops, edits>>

\* The previous tree has stayed, or an earlier recovery has put it back.
KeepPrevious ==
  /\ Reach("recover", "resetspare")
  /\ journal # NoJournal /\ ~CandidateCommitted /\ ~Refused /\ PreviousAtOutput
  /\ UNCHANGED <<managed, trees, journal, registry, after, txs, stops, edits>>

\* Faulty: trusts the journal, written after the tree is promoted.
FaultyRemoveCandidate ==
  /\ At("recover") /\ journal # NoJournal
  /\ ~CandidateCommitted /\ ~Refused /\ ~PreviousAtOutput
  /\ active' = IF journal.state = "prepared" THEN active ELSE Shrunk(active)
  /\ Go("putback")
  /\ UNCHANGED <<managed, stage, snaps, journal, registry, after, txs, stops, edits>>

\* rm(outputRoot), which holds the candidate if it is there at all.
RemoveCandidate ==
  /\ At("recover") /\ journal # NoJournal
  /\ ~CandidateCommitted /\ ~Refused /\ ~PreviousAtOutput
  /\ active' = Shrunk(active)
  /\ Go(IF active' = Absent THEN "putback" ELSE "clear")
  /\ UNCHANGED <<managed, stage, snaps, journal, registry, after, txs, stops, edits>>

ClearRest ==
  /\ Reach("clear", "putback")
  /\ active' = Absent
  /\ UNCHANGED <<managed, stage, snaps, journal, registry, after, txs, stops, edits>>

\* Faulty: goes forward with the staged candidate where it can.
FaultyPutBack ==
  /\ Reach("putback", "reset") /\ (Updating => active = Absent)
  /\ IF Updating
     THEN active' = (IF stage # Absent THEN stage ELSE Aside) /\ UNCHANGED snaps
     ELSE UNCHANGED <<active, snaps>>
  /\ UNCHANGED <<managed, stage, journal, registry, after, txs, stops, edits>>

\* rename(snapshotPath, outputRoot), if there was a previous tree.
PutBack ==
  /\ Reach("putback", "reset") /\ (Updating => active = Absent)
  /\ IF Updating
     THEN active' = Aside /\ snaps' = [snaps EXCEPT ![journal.id] = Absent]
     ELSE UNCHANGED <<active, snaps>>
  /\ UNCHANGED <<managed, stage, journal, registry, after, txs, stops, edits>>

\* The registry gets the previous entry before the journal goes.
ResetRegistry ==
  /\ \/ Reach("reset", "journal")
     \/ Reach("resetspare", "spare")
  /\ stage' = Absent
  /\ registry' = journal.previous
  /\ UNCHANGED <<managed, active, snaps, journal, after, txs, stops, edits>>

-----------------------------------------------------------------------------
(* The removals at the end, of a command and of recovery alike. *)

Drop(p, id, q) ==
  /\ At(p)
  /\ snaps' = IF id \in TxIds THEN [snaps EXCEPT ![id] = Shrunk(@)] ELSE snaps
  /\ Go(IF snaps' = snaps \/ snaps'[id] = Absent THEN q ELSE p)
  /\ UNCHANGED <<managed, active, stage, journal, registry, after, txs, stops, edits>>

DropSpare == Drop("spare", IF Updating THEN journal.id ELSE 0, "journal")
DropSnapshot == Drop("snapshot", journal.id, "source")
DropSource == Drop("source", journal.source, "journal")

DropJournal ==
  /\ At("journal")
  /\ Go(after)
  /\ journal' = NoJournal
  /\ UNCHANGED <<managed, trees, registry, after, txs, stops, edits>>

-----------------------------------------------------------------------------
(* What stops a command, and what the user does. *)

\* A crash, or a call that fails: the network, the workspace, the release.
Stop ==
  /\ pc # "idle" /\ Go("idle") /\ stops < MaxStops
  /\ stops' = stops + 1
  /\ UNCHANGED <<managed, trees, journal, registry, after, txs, edits>>

\* The command's own checks fail, or a rename finds files in its way.
Throw ==
  /\ \/ At("prepared") /\ ~NoDrift(journal.previous)
     \/ At("noted") /\ active # Absent
     \/ At("installed") /\ active # Target
     \/ At("putback") /\ Updating /\ active # Absent
  /\ Go("idle")
  /\ UNCHANGED <<managed, trees, journal, registry, after, txs, stops, edits>>

\* The user changes, removes or restores the active tree, before or after a
\* check and what it guards but not in between.
UserEdits ==
  /\ edits < MaxEdits /\ active # Partial
  /\ edits' = edits + 1
  /\ active' \in (Packages \cup {Edited, Absent}) \ {active}
  /\ UNCHANGED <<managed, stage, snaps, journal, registry, pc, after, txs, stops>>

\* codex enroll takes the root and writes the binding; it does not recover.
Enroll ==
  /\ At("idle") /\ managed' = TRUE
  /\ UNCHANGED <<trees, journal, registry, pc, after, txs, stops, edits>>

Recovery ==
  \/ NothingToRecover \/ Refuse \/ KeepCandidate \/ KeepPrevious
  \/ RemoveCandidate \/ ClearRest \/ PutBack \/ ResetRegistry
Transaction ==
  \/ \E v \in Versions : PrepareInstall(v)
  \/ PrepareRollback \/ MoveAside \/ NoteMoved \/ CheckpointFails \/ Promote
  \/ NoteInstalled \/ Commit \/ NoteCommitted
Removals == DropSpare \/ DropSnapshot \/ DropSource \/ DropJournal
Command == Begin \/ Leave \/ Recovery \/ Transaction \/ Removals \/ Throw

Next == Command \/ Stop \/ UserEdits \/ Enroll

Spec == Init /\ [][Next]_vars

\* A command that runs keeps running, and the user runs another one.
FairSpec == Spec /\ WF_vars(Command)

-----------------------------------------------------------------------------
(* Properties. *)

Settled == pc \in {"idle", "ready"} /\ journal = NoJournal

\* Outside a transaction the active tree is the one the registry names, and
\* there is none if it names none: readInstallRegistry recovers before any
\* reader looks, wherever the last command stopped.
TreeMatchesRegistry ==
  Settled /\ edits = 0 =>
    active = IF registry = NotInstalled THEN Absent ELSE BytesOf[registry.version]

\* Every rollback the registry offers outside a transaction is there to be
\* taken, with the bytes of its version: no sequence of steps, stops and
\* recoveries removes a tree that history still points at.
HistoryIsBacked ==
  Settled /\ edits = 0 /\ registry # NotInstalled =>
    \A i \in 1 .. Len(registry.history) :
      LET s == registry.history[i] IN
      snaps[s.id] = BytesOf[s.version]

\* Recovery of files the user has not touched needs no operator outside of a
\* managed workspace: it never reaches one of the branches that throw, so
\* repeating it converges on the previous bytes ("Repeating recovery after
\* interruption then converges on the same previous bytes").
RecoveryConverges ==
  At("recover") /\ journal # NoJournal /\ edits = 0 /\ ~managed => ~Refused

\* It does converge where no recursive removal has stopped halfway.
Torn == Partial \in {active, Aside}
RecoveryConvergesUnlessTorn ==
  journal # NoJournal /\ ~Torn => RecoveryConverges

CommitIsFinalStep ==
  edits = 0 /\ journal # NoJournal /\ registry # registry' =>
     registry = journal.previous

\* Once the registry names the candidate, recovery keeps it: nothing turns a
\* committed transaction back.
CommitIsFinal == [][CommitIsFinalStep]_vars

\* Until the registry names the candidate the previous bytes are on the disk,
\* in place or put aside: neither a step that fails nor a recovery that stops
\* halfway loses them, in a managed workspace either.
PreviousIsKept ==
  journal # NoJournal /\ Updating /\ edits = 0 /\ ~CandidateCommitted =>
    Previous \in {active, Aside}

RecoveryNeverPromotesStep ==
  At("putback") /\ active' # active /\ edits' = edits =>
     ~managed /\ active' = Previous

\* Recovery never promotes the staged candidate; of the trees it may put in
\* place there is only the previous one, and in a managed workspace none.
RecoveryNeverPromotes == [][RecoveryNeverPromotesStep]_vars

EditsSurviveStep ==
  active = Edited /\ edits' = edits => active' = Edited

\* What the user has written over the active tree is never moved or removed
\* by a command: only the user changes it.
EditsSurvive == [][EditsSurviveStep]_vars

\* Why it is so.  The versions and snapshots of an entry's history grow, the snapshots
\* up to one of the transactions so far;
InOrder(entry, last) ==
  entry # NotInstalled =>
    /\ \A i \in 1 .. Len(entry.history) :
         entry.history[i].version < entry.version /\ entry.history[i].id <= last
    /\ \A i, k \in 1 .. Len(entry.history) : i < k =>
         /\ entry.history[i].version < entry.history[k].version
         /\ entry.history[i].id < entry.history[k].id

\* so the version tells on which side of a transaction the registry is.
PlanIsSound ==
  IF journal = NoJournal THEN InOrder(registry, txs)
  ELSE /\ journal.id = txs /\ InOrder(journal.previous, txs - 1)
       /\ registry \in {journal.previous, Candidate}
       /\ journal.operation = "install" =>
            journal.source = 0 /\ (Updating => journal.target > journal.previous.version)
       /\ journal.operation = "rollback" =>
            /\ Updating /\ journal.previous.history # <<>>
            /\ Last(journal.previous.history) = [version |-> journal.target, id |-> journal.source]

\* Where a command is tells how far it has got, whatever the user edits;
PointsFit ==
  /\ pc = "ready" => journal = NoJournal
  /\ pc \notin {"idle", "ready", "recover"} => journal # NoJournal
  /\ pc \in {"prepared", "moved", "noted", "promoted", "installed"} => registry = journal.previous
  /\ pc \in {"written", "snapshot", "source"} => registry = Candidate
  /\ pc \in {"snapshot", "source"} => journal.operation = "rollback"
  /\ pc \in {"prepared", "moved", "noted"} => stage = Target
  /\ pc = "clear" => active = Partial
  /\ pc \in {"clear", "putback"} /\ Updating => ~managed /\ Aside = Previous
  /\ \A t \in TxIds : t > txs => snaps[t] = Absent

\* while he does not, the trees are where each step leaves them;
TreesFit ==
  /\ pc = "prepared" => active = Previous /\ Aside = Absent
  /\ pc \in {"moved", "noted", "putback"} => active = Absent
  /\ pc \in {"promoted", "installed"} => active = Target
  /\ pc \in {"moved", "noted", "promoted", "installed"} /\ Updating => Aside = Previous
  /\ pc \in {"clear", "putback", "reset", "resetspare", "spare"} => registry = journal.previous
  /\ pc \in {"reset", "resetspare", "spare"} => active = Previous
  /\ pc = "journal" /\ registry = journal.previous => active = Previous

\* and a stop leaves the previous trees or the candidate, with all of history.
BothSidesHold ==
  /\ registry # NotInstalled =>
       \A i \in 1 .. Len(registry.history) :
         snaps[registry.history[i].id] = BytesOf[registry.history[i].version]
  /\ journal = NoJournal =>
       active = IF registry = NotInstalled THEN Absent ELSE BytesOf[registry.version]
  /\ journal # NoJournal /\ registry = Candidate => active = Target
  /\ journal # NoJournal /\ registry = journal.previous =>
       \/ Updating /\ active = Previous /\ Aside \in {Absent, Partial, Previous}
       \/ (Updating => Aside = Previous) /\ active \in {Absent, Partial, Target}

\* What is true of an installation whatever comes next.
IInv == TypeOK /\ PlanIsSound /\ PointsFit /\ (edits = 0 => TreesFit /\ BothSidesHold)

Journaled == journal # NoJournal
Resolved == journal = NoJournal \/ Torn \/ managed \/ edits > 0

\* A transaction that stopped is recovered by the commands that follow and the
\* root is free of it again, unless that takes an operator.
TransactionsResolve == Journaled ~> Resolved

=============================================================================
