\* Closing the connection may raise: a subtask is counted as over twice.
SPECIFICATION SpecClose
CONSTANTS
  Subtask = {s1, s2}
  Recipient = {r1}
  Worker = {w1, w2}
  MaxRetries = 1
  RetryCap = 1
  MaxDbTries = 1
  MaxRedeliver = 0
SYMMETRY Symmetry
INVARIANT SuccessMeansAllDone
\* The system stops once every subtask is over or its token is lost.
CHECK_DEADLOCK FALSE
