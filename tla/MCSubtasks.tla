----------------------------- MODULE MCSubtasks -----------------------------
\* Instances of Subtasks for TLC.
EXTENDS Subtasks, TLC

\* Recipients are not permuted: Last chooses among them.
Symmetry == Permutations(Subtask) \cup Permutations(Worker)
=============================================================================
