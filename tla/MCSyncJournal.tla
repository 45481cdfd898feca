--------------------------- MODULE MCSyncJournal ---------------------------
EXTENDS SyncJournal

\* One run: every operation, duplicates included, on a plan of two steps.
OnePlan == <<2>>
OneBudget == <<[approve |-> 1, apply |-> 2, recover |-> 1, rollback |-> 2]>>

=============================================================================
