--------------------------- MODULE LibraryAdoptions ---------------------------
(***************************************************************************)
(* Adoption of releases by the entries of several libraries, for one skill *)
(* and one target that installs it.  adopt() and createBinding() decide in *)
(* the service and write in a transaction of their own; in between,        *)
(* releases are withdrawn, other curators adopt, and entries are removed.  *)
(***************************************************************************)
EXTENDS Naturals, Sequences, FiniteSets

CONSTANTS Entries, Versions,
          MaxAdoptions, \* adoption rows
          MaxBindings   \* binding rows per entry

None == "none"

VARIABLES current,    \* current_adoption_id of each entry, 0 for none
          active,     \* entries that are not removed
          adoptions,  \* rows [entry, version, prior]
          release,    \* releases: pending, available, withdrawn
          bindings,   \* per entry, the rows in order: [status, pin]
          adopting,   \* per entry, an adopt() between its checks and its write
          binding     \* per entry, a createBinding() between its checks and its write
vars == <<current, active, adoptions, release, bindings, adopting, binding>>

NoAdopt == [version |-> None, expected |-> 0]
NoBind == [on |-> FALSE, detach |-> {}]

Init == /\ current = [e \in Entries |-> 0] /\ active = Entries
        /\ adoptions = <<>> /\ release = [v \in Versions |-> "pending"]
        /\ bindings = [e \in Entries |-> <<>>]
        /\ adopting = [e \in Entries |-> NoAdopt]
        /\ binding = [e \in Entries |-> NoBind]

-----------------------------------------------------------------------------
\* Publication and withdrawal are the business of the submissions.
Publish(v) == /\ release[v] = "pending"
              /\ release' = [release EXCEPT ![v] = "available"]
              /\ UNCHANGED <<current, active, adoptions, bindings, adopting, binding>>
Withdraw(v) == /\ release[v] = "available"
               /\ release' = [release EXCEPT ![v] = "withdrawn"]
               /\ UNCHANGED <<current, active, adoptions, bindings, adopting, binding>>

VersionOf(e) == IF current[e] = 0 THEN None ELSE adoptions[current[e]].version
Bound(e) == {b \in DOMAIN bindings[e] : bindings[e][b].status # "detached"}

\* adopt: the release as the actor reads it, and the adoption that the actor
\* means to replace, as the actor saw it.
BeginAdopt(e, v) ==
  /\ adopting[e] = NoAdopt /\ e \in active /\ release[v] = "available"
  /\ adopting' = [adopting EXCEPT ![e] = [version |-> v, expected |-> current[e]]]
  /\ UNCHANGED <<current, active, adoptions, release, bindings, binding>>

\* The transaction looks at the release and at the entry again.
AdoptableOnce(e) == TRUE
Adoptable(e) == release[adopting[e].version] = "available"
UnchangedAtLeast(e) == current[e] >= adopting[e].expected
Unchanged(e) == current[e] = adopting[e].expected
AdoptAs(e, v, prior) ==
  /\ Len(adoptions) < MaxAdoptions
  /\ adoptions' = Append(adoptions, [entry |-> e, version |-> v, prior |-> prior])
  /\ current' = [current EXCEPT ![e] = Len(adoptions) + 1]
Adopt(e) ==
  /\ adopting[e] # NoAdopt
  /\ adopting' = [adopting EXCEPT ![e] = NoAdopt]
  /\ IF e \in active /\ Adoptable(e) /\ Unchanged(e)
     THEN AdoptAs(e, adopting[e].version, adopting[e].expected)
     ELSE UNCHANGED <<current, adoptions>>
  /\ UNCHANGED <<active, release, bindings, binding>>

\* Another curator, whose call does not wait between its checks and its write.
AdoptAtOnce(e, v) ==
  /\ e \in active /\ release[v] = "available"
  /\ AdoptAs(e, v, current[e])
  /\ UNCHANGED <<active, release, bindings, adopting, binding>>

-----------------------------------------------------------------------------
\* What a binding selects: the current adoption while everything is in place.
Effective(e) == IF e \in active /\ current[e] # 0 /\ release[VersionOf(e)] = "available"
                THEN VersionOf(e) ELSE None
Selected(f, b) == IF bindings[f][b].status = "active" /\ Effective(f) # None THEN Effective(f)
                  ELSE bindings[f][b].pin
Conflicting(e) == {f \in Entries \ {e} : \E b \in Bound(f) : Selected(f, b) # VersionOf(e)}

BeginBind(e, replace) ==
  /\ binding[e] = NoBind /\ e \in active
  /\ Conflicting(e) # {} => replace
  /\ binding' = [binding EXCEPT ![e] = [on |-> TRUE, detach |-> Conflicting(e)]]
  /\ UNCHANGED <<current, active, adoptions, release, bindings, adopting>>

Detached(rows) == [b \in DOMAIN rows |-> [rows[b] EXCEPT !.status = "detached"]]

\* createBinding: under the lock of the target and the skill, and nothing else.
CreateBinding(e) ==
  /\ binding[e].on
  /\ binding' = [binding EXCEPT ![e] = NoBind]
  /\ LET rows == [f \in Entries |-> IF f \in binding[e].detach THEN Detached(bindings[f]) ELSE bindings[f]]
     IN IF Bound(e) # {} THEN bindings' = rows
        ELSE /\ Len(rows[e]) < MaxBindings
             /\ bindings' = [rows EXCEPT ![e] = Append(@, [status |-> "active", pin |-> None])]
  /\ UNCHANGED <<current, active, adoptions, release, adopting>>

DetachBinding(e) ==
  /\ Bound(e) # {}
  /\ bindings' = [bindings EXCEPT ![e] = Detached(@)]
  /\ UNCHANGED <<current, active, adoptions, release, adopting, binding>>

\* removeEntryInTransaction: active bindings keep the last adopted version.
KeptLoosely(e, row) == IF row.status # "active" THEN row
                       ELSE [status |-> "curation-unavailable", pin |-> row.pin]
Kept(e, row) == IF row.status # "active" THEN row
                ELSE [status |-> "curation-unavailable", pin |-> IF VersionOf(e) # None THEN VersionOf(e) ELSE row.pin]
RemoveEntry(e) ==
  /\ e \in active
  /\ active' = active \ {e}
  /\ bindings' = [bindings EXCEPT ![e] = [b \in DOMAIN bindings[e] |-> Kept(e, bindings[e][b])]]
  /\ UNCHANGED <<current, adoptions, release, adopting, binding>>

Next == \/ \E v \in Versions : Publish(v) \/ Withdraw(v)
        \/ \E e \in Entries : \/ \E v \in Versions : BeginAdopt(e, v) \/ AdoptAtOnce(e, v)
                              \/ Adopt(e)
                              \/ \E r \in BOOLEAN : BeginBind(e, r)
                              \/ CreateBinding(e) \/ DetachBinding(e) \/ RemoveEntry(e)

Spec == Init /\ [][Next]_vars

-----------------------------------------------------------------------------
TypeOK == /\ active \subseteq Entries
          /\ adoptions \in Seq([entry : Entries, version : Versions, prior : 0..MaxAdoptions])
          /\ current \in [Entries -> 0..Len(adoptions)]
          /\ bindings \in [Entries -> Seq([status : {"active", "curation-unavailable", "detached"},
                                            pin : Versions \cup {None}])]

\* Each entry's adoptions are one chain: two curators never both replace the
\* same adoption, so the history tells what was current when.
AdoptionsFormAChain ==
  \A a, b \in DOMAIN adoptions :
    (a # b /\ adoptions[a].entry = adoptions[b].entry) => adoptions[a].prior # adoptions[b].prior

OnlyAvailableIsAdoptedStep ==
  \A a \in DOMAIN adoptions' \ DOMAIN adoptions : release[adoptions'[a].version] = "available"

\* A release that was withdrawn while the curator decided is not adopted.
OnlyAvailableIsAdopted == [][OnlyAvailableIsAdoptedStep]_vars

\* When curation is lost, a binding keeps the version adopted last, whatever
\* the order of the adoptions, bindings and the removal before.
LostCurationKeepsThePin ==
  \A e \in Entries : \A b \in DOMAIN bindings[e] :
    bindings[e][b].status = "curation-unavailable" => bindings[e][b].pin = VersionOf(e)

\* The bindings of a removed entry all keep a pin (api-contract: "Bindings keep
\* their last adopted pin").
RemovedEntriesKeepPins ==
  \A e \in Entries \ active : VersionOf(e) # None => \A b \in Bound(e) : bindings[e][b].pin = VersionOf(e)

-----------------------------------------------------------------------------
(* Why they hold: an invariant that every step keeps.                      *)

\* An adoption replaces an older one, and the last one of an entry is its
\* current one: what a later one replaces, none before has replaced.
AdoptionsGoOn ==
  /\ \A a \in DOMAIN adoptions : adoptions[a].prior < a /\ a <= current[adoptions[a].entry]
  /\ \A e \in Entries : current[e] # 0 => adoptions[current[e]].entry = e

\* A binding follows its entry until curation is lost, and has no pin before.
PinsFit ==
  \A e \in Entries : \A b \in DOMAIN bindings[e] :
    /\ bindings[e][b].status = "active" => bindings[e][b].pin = None
    /\ bindings[e][b].status = "curation-unavailable" => e \notin active /\ bindings[e][b].pin = VersionOf(e)

\* Calls under way.
CallsFit ==
  /\ Len(adoptions) <= MaxAdoptions
  /\ adopting \in [Entries -> [version : Versions \cup {None}, expected : 0..MaxAdoptions]]
  /\ binding \in [Entries -> [on : BOOLEAN, detach : SUBSET Entries]]
  /\ \A e \in Entries : adopting[e] # NoAdopt => adopting[e].version \in Versions

IInv == TypeOK /\ CallsFit /\ AdoptionsGoOn /\ AdoptionsFormAChain /\ PinsFit
=============================================================================
