\* A second delivery of the parent after the task was a SUCCESS.
SPECIFICATION DelegationSpec
CONSTANTS
  Parent = {p1, p2}
  Counted = 1
  PerTask = 1
  Yielded = {1}
  Subtask <- MCSubtask
  Recipient <- MCRecipient
  Worker = {w1}
  MaxRetries = 1
  RetryCap = 0
  MaxDbTries = 1
  MaxRedeliver = 0
INVARIANT MarkedAsBefore
\* The system stops once every subtask is over or its token is lost.
CHECK_DEADLOCK FALSE
