\* One delivery of the parent, whose query yields the three recipients that
\* were counted, or none, or two, or four.
SPECIFICATION DelegationSpec
CONSTANTS
  Parent = {p1}
  Counted = 3
  PerTask = 2
  Yielded = {0, 2, 3, 4}
  Subtask <- MCSubtask
  Recipient <- MCRecipient
  Worker = {w1, w2}
  MaxRetries = 0
  RetryCap = 0
  MaxDbTries = 1
  MaxRedeliver = 0
SYMMETRY WorkerSymmetry
INVARIANT DelegationTypeOK
INVARIANT SubtasksAreKnown
INVARIANT NoEarlySuccess
 
 
\* The system stops once every subtask is over or its token is lost.
CHECK_DEADLOCK FALSE
