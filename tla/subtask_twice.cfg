\* A message is delivered twice and the lock lasts: one worker at a time.
SPECIFICATION SpecTwice
CONSTANTS
  Subtask = {s1}
  Recipient = {r1, r2}
  Worker = {w1, w2}
  MaxRetries = 1
  RetryCap = 1
  MaxDbTries = 2
  MaxRedeliver = 1
INVARIANT OneWorkerPerSubtask
\* The system stops once every subtask is over or its token is lost.
CHECK_DEADLOCK FALSE
