-------------------------- MODULE MCEmailDelegation --------------------------
\* Instances of EmailDelegation for TLC.
EXTENDS EmailDelegation, TLC

\* The ids of the subtasks, and the recipients in the order of the query.
MCSubtask == Parent \X (1..NumSubtasks)
MCRecipient == 1..Max(Yielded)

\* Chunk lists are ordered: only workers are interchangeable.
WorkerSymmetry == Permutations(Worker)
=============================================================================
