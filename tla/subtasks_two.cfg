\* Two subtasks that finish in any order: what the row says of them together,
\* and that they keep the promise of BulkEmail.
SPECIFICATION Spec
CONSTANTS
  Subtask = {s1, s2}
  Recipient = {r1}
  Worker = {w1, w2}
  MaxRetries = 1
  RetryCap = 1
  MaxDbTries = 2
  MaxRedeliver = 0
INVARIANT SuccessMeansAllDone
INVARIANT CountersMatchStatuses
INVARIANT OutputAddsUpFinished
INVARIANT IInv
PROPERTY DoneIsFinal
PROPERTY KeepsPromise
\* The system stops once every subtask is over or its token is lost.
CHECK_DEADLOCK FALSE
