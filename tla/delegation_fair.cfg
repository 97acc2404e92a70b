\* A scheduled parent and workers: the task ends as SUCCESS or FAILURE.
SPECIFICATION FairDelegation
CONSTANTS
  Parent = {p1}
  Counted = 2
  PerTask = 1
  Yielded = {2}
  Subtask <- MCSubtask
  Recipient <- MCRecipient
  Worker = {w1, w2}
  MaxRetries = 1
  RetryCap = 0
  MaxDbTries = 1
  MaxRedeliver = 0
PROPERTY TaskSettles
\* The system stops once every subtask is over or its token is lost.
CHECK_DEADLOCK FALSE
