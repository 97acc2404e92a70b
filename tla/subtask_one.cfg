\* One subtask with several recipients and retries of both kinds.
SPECIFICATION Spec
CONSTANTS
  Subtask = {s1}
  Recipient = {r1, r2, r3}
  Worker = {w1, w2}
  MaxRetries = 2
  RetryCap = 2
  MaxDbTries = 2
  MaxRedeliver = 0
INVARIANT TypeOK
INVARIANT NoDuplicateMail
INVARIANT ReportIsTruthful
INVARIANT RetriesWithinTheirKind
 
PROPERTY RetriesNeverRegress
\* The system stops once every subtask is over or its token is lost.
CHECK_DEADLOCK FALSE
