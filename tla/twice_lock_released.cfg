\* Each recursive update deletes the lock, which another worker may have taken.
SPECIFICATION SpecTwiceDb
CONSTANTS
  Subtask = {s1}
  Recipient = {r1}
  Worker = {w1, w2, w3}
  MaxRetries = 1
  RetryCap = 1
  MaxDbTries = 2
  MaxRedeliver = 1
INVARIANT OneWorkerPerSubtask
\* The system stops once every subtask is over or its token is lost.
CHECK_DEADLOCK FALSE
