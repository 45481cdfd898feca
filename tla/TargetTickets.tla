-------------------------- MODULE TargetTickets --------------------------
(***************************************************************************)
(* What a target promises to the parties that want to change it: one of    *)
(* them holds it at a time, it is free between two holders, and every new  *)
(* holder draws the next ticket.  The queue of companions and the sync     *)
(* leases implement it together (TargetOperations).                        *)
(***************************************************************************)
EXTENDS Integers

CONSTANTS Parties, Nobody

VARIABLES holder, ticket

vars == <<holder, ticket>>

Init == holder = Nobody /\ ticket = 0

\* A party may take the target only while it is free.
Take(p) == holder = Nobody /\ holder' = p /\ ticket' = ticket + 1

\* The holder settles, is settled by somebody else, or its time runs out.
Leave == holder # Nobody /\ holder' = Nobody /\ ticket' = ticket

Next == Leave \/ \E p \in Parties : Take(p)

Spec == Init /\ [][Next]_vars
===========================================================================
