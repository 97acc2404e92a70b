---------------------------- MODULE LedgerProofs ----------------------------
(***************************************************************************)
(* What TLAPS proves of the numbers that Subtasks carries along, for any   *)
(* number of subtasks, recipients, workers, retries and database failures: *)
(* the status in a message, with a worker and in the row accounts for the  *)
(* mails that were sent, the retries of each kind stay within their        *)
(* maximum and the report adds up the finished subtasks.                   *)
(*                                                                         *)
(* TLC has checked the invariant, LedgerInv, with the constants of         *)
(* subtask_one.cfg.                                                        *)
(***************************************************************************)
EXTENDS SubtasksProofs, FiniteSums

-----------------------------------------------------------------------------
(* What a subtask carries along: the ledger of its recipients and retries. *)

\* The recipients of a subtask who have been mailed.
Mailed(s) == {r \in Recipient : sent[s][r] > 0}

\* The counters of a subtask that is not over: the mails are those it has
\* counted, and every recipient is counted or still on its list.
Accounts(st, list, s) ==
  /\ st.succeeded = Cardinality(Mailed(s))
  /\ st.attempted + st.skipped + Cardinality(list) = Cardinality(Recipient)

\* What ReportIsTruthful says of a status in which the subtask is over.
Truthful(st, s) ==
  /\ st.succeeded = Cardinality(Mailed(s))
  /\ st.attempted + st.skipped >= Cardinality(Recipient)
  /\ st.state = "SUCCESS" => st.attempted + st.skipped = Cardinality(Recipient)

\* The retries that a message knows of are those that celery counts, and
\* each kind is within its maximum.
Counts(st, retries) ==
  /\ retries = get_retry_count(st)
  /\ st.retried_withmax <= MaxRetries
  /\ st.retried_nomax <= RetryCap

\* A retry is pending: it is counted, the kind it is not of is within its
\* maximum.
CountsOneMore(st, retries, limit) ==
  /\ retries + 1 = get_retry_count(st)
  /\ limit = "withmax" => st.retried_nomax <= RetryCap
  /\ limit = "nomax" => st.retried_withmax <= MaxRetries

\* The row knows of no retry that the holder of the token does not know of.
UpToDate(st, s) == get_retry_count(entry.status[s]) <= get_retry_count(st)

\* Where a worker has no retry pending and its subtask is not over.
AtWork == {"check", "lock", "filter", "open", "send"}

\* The ledger of a message.
MessageLedger(m) ==
  /\ UpToDate(m.status, m.sub)
  /\ Accounts(m.status, m.to_list, m.sub)
  /\ Counts(m.status, m.retries)

\* The ledger of a worker, while it has the right to work on its subtask.
WorkerLedger(wk) ==
  HoldsToken(wk) =>
    /\ UpToDate(wk.status, wk.sub)
    /\ IF Done(wk.status) THEN Truthful(wk.status, wk.sub)
       ELSE /\ Accounts(wk.status, wk.to_list, wk.sub)
            /\ Cardinality(wk.to_list) <= wk.num_to_send
            /\ IF wk.pc \in AtWork THEN Counts(wk.status, wk.retries)
               ELSE CountsOneMore(wk.status, wk.retries, wk.limit)

\* The inductive invariant: the ledgers of the messages, of the workers and
\* of the row agree with the mails.
LedgerInv ==
  /\ \A m \in queue : MessageLedger(m)
  /\ \A w \in Worker : WorkerLedger(worker[w])
  /\ \A s \in Subtask : Done(entry.status[s]) => Truthful(entry.status[s], s)

-----------------------------------------------------------------------------
(* What increment() adds, by the arguments it is called with.              *)

\* The retries of one kind or the other that a status has counted.
SameRetries(i, st) ==
  /\ i.retried_nomax = st.retried_nomax
  /\ i.retried_withmax = st.retried_withmax
  /\ get_retry_count(i) = get_retry_count(st)

\* Emails that failed are attempted, and nothing else.
LEMMA CountsFailed ==
  ASSUME NEW st \in Status, NEW n \in Nat, NEW newState \in SubtaskState
  PROVE  LET i == Increment(st, Failed(n), newState) IN
           /\ i \in Status
           /\ i.state = newState
           /\ i.attempted = st.attempted + n
           /\ i.succeeded = st.succeeded
           /\ i.skipped = st.skipped
           /\ SameRetries(i, st)
BY DEF Increment, Failed, Nothing, Status, get_retry_count, SameRetries

\* Emails that were sent are attempted and succeeded.
LEMMA CountsSucceeded ==
  ASSUME NEW st \in Status, NEW n \in Nat, NEW newState \in SubtaskState
  PROVE  LET i == Increment(st, Succeeded(n), newState) IN
           /\ i \in Status
           /\ i.state = newState
           /\ i.attempted = st.attempted + n
           /\ i.succeeded = st.succeeded + n
           /\ i.skipped = st.skipped
           /\ SameRetries(i, st)
BY DEF Increment, Succeeded, Nothing, Status, get_retry_count, SameRetries

\* Optouts are skipped, and not attempted.
LEMMA CountsSkipped ==
  ASSUME NEW st \in Status, NEW n \in Nat, NEW newState \in SubtaskState
  PROVE  LET i == Increment(st, Skipped(n), newState) IN
           /\ i \in Status
           /\ i.state = newState
           /\ i.attempted = st.attempted
           /\ i.succeeded = st.succeeded
           /\ i.skipped = st.skipped + n
           /\ SameRetries(i, st)
BY DEF Increment, Skipped, Nothing, Status, get_retry_count, SameRetries

\* The last increment of a subtask that succeeds only changes its state.
LEMMA CountsNothing ==
  ASSUME NEW st \in Status, NEW newState \in SubtaskState
  PROVE  LET i == Increment(st, Nothing, newState) IN
           /\ i \in Status
           /\ i.state = newState
           /\ i.attempted = st.attempted
           /\ i.succeeded = st.succeeded
           /\ i.skipped = st.skipped
           /\ SameRetries(i, st)
BY DEF Increment, Nothing, Status, get_retry_count, SameRetries

\* A retry is counted by its kind, and leaves the emails alone.
LEMMA CountsRetry ==
  ASSUME NEW st \in Status, NEW d \in {RetriedNoMax, RetriedWithMax}
  PROVE  LET i == Increment(st, d, "RETRY") IN
           /\ i \in Status
           /\ i.state = "RETRY"
           /\ i.attempted = st.attempted
           /\ i.succeeded = st.succeeded
           /\ i.skipped = st.skipped
           /\ d = RetriedNoMax => i.retried_withmax = st.retried_withmax
           /\ d = RetriedWithMax => i.retried_nomax = st.retried_nomax
           /\ get_retry_count(i) = get_retry_count(st) + 1
<1>1. CASE d = RetriedNoMax
  <2>1. RetriedNoMax # RetriedWithMax
    BY DEF RetriedNoMax, RetriedWithMax, Nothing
  <2> QED
    BY <1>1, <2>1 DEF Increment, RetriedNoMax, Nothing, Status, get_retry_count, SubtaskState
<1>2. CASE d = RetriedWithMax
  <2>1. RetriedNoMax # RetriedWithMax
    BY DEF RetriedNoMax, RetriedWithMax, Nothing
  <2> QED
    BY <1>2, <2>1 DEF Increment, RetriedWithMax, Nothing, Status, get_retry_count, SubtaskState
<1> QED
  BY <1>1, <1>2

\* The numbers of a status, and of the row's copy of it.
LEMMA StatusNumbers ==
  ASSUME NEW st \in Status
  PROVE  /\ st.attempted \in Nat /\ st.succeeded \in Nat /\ st.failed \in Nat
         /\ st.skipped \in Nat
         /\ st.retried_nomax \in Nat /\ st.retried_withmax \in Nat
         /\ get_retry_count(st) = st.retried_nomax + st.retried_withmax
         /\ get_retry_count(st) \in Nat
BY DEF Status, get_retry_count

\* A list without its last recipient is one shorter.
LEMMA OneFewer ==
  ASSUME NEW L \in SUBSET Recipient, NEW r \in L
  PROVE  /\ Cardinality(L \ {r}) = Cardinality(L) - 1
         /\ Cardinality(L \ {r}) \in Nat
<1>1. IsFiniteSet(L)
  BY RecipientAssumption, FS_Subset
<1> QED
  BY <1>1, FS_RemoveElement, ListLength

\* The numbers that the ledger of a worker speaks of.
LEMMA WorkerNumbers ==
  ASSUME IInv, NEW wk \in WorkerState
  PROVE  /\ wk.status \in Status /\ wk.sub \in Subtask
         /\ Cardinality(wk.to_list) \in Nat
         /\ Cardinality(Recipient) \in Nat
         /\ wk.num_to_send \in Nat /\ wk.retries \in Nat
         /\ wk.status.state \in SubtaskState
         /\ entry.status[wk.sub] \in Status
         /\ get_retry_count(entry.status[wk.sub]) \in Nat
<1>1. /\ wk.status \in Status /\ wk.sub \in Subtask /\ wk.to_list \in SUBSET Recipient
      /\ wk.num_to_send \in Nat /\ wk.retries \in Nat
  BY DEF WorkerState
<1>2. entry.status[wk.sub] \in Status
  BY <1>1 DEF IInv, TypeOK, EntryType
<1>3. wk.status.state \in SubtaskState
  BY <1>1 DEF Status
<1> QED
  BY <1>1, <1>2, <1>3, ListLength, StatusNumbers

-----------------------------------------------------------------------------
(* The ledger of the worker that each step leads to.                       *)

\* The last resort accounts for the recipients on the list once more.
LEMMA FailedLedger ==
  ASSUME IInv, NEW wk \in WorkerState, HoldsToken(wk), ~Done(wk.status),
         WorkerLedger(wk)
  PROVE  WorkerLedger(FailedUnexpectedly(wk))
<1> DEFINE st == Increment(wk.status, Failed(wk.num_to_send), "FAILURE")
           f == FailedUnexpectedly(wk)
<1>1. /\ UpToDate(wk.status, wk.sub)
      /\ Accounts(wk.status, wk.to_list, wk.sub)
      /\ Cardinality(wk.to_list) <= wk.num_to_send
  BY DEF WorkerLedger
<1>2. /\ st \in Status /\ st.state = "FAILURE"
      /\ st.attempted = wk.status.attempted + wk.num_to_send
      /\ st.succeeded = wk.status.succeeded
      /\ st.skipped = wk.status.skipped
      /\ get_retry_count(st) = get_retry_count(wk.status)
  <2>1. /\ wk.status \in Status /\ "FAILURE" \in SubtaskState
        /\ Cardinality(wk.to_list) \in Nat /\ wk.num_to_send \in Nat
    BY WorkerNumbers DEF SubtaskState
  <2> QED
    BY <2>1, CountsFailed DEF SameRetries
<1> HIDE DEF st
<1>3. f.status = st /\ f.sub = wk.sub /\ f.to_list = wk.to_list
  BY DEF FailedUnexpectedly, WorkerState, st
<1> HIDE DEF f
<1>4. Truthful(st, wk.sub)
  BY <1>1, <1>2, WorkerNumbers, StatusNumbers DEF Accounts, Truthful
<1>5. UpToDate(st, wk.sub)
  BY <1>1, <1>2 DEF UpToDate
<1>6. Done(st)
  BY <1>2 DEF Done, READY_STATES
<1> QED
  BY <1>3, <1>4, <1>5, <1>6 DEF WorkerLedger, f

\* Giving up accounts for the recipients on the list.
LEMMA GivenUpLedger ==
  ASSUME IInv, NEW wk \in WorkerState, HoldsToken(wk), ~Done(wk.status),
         WorkerLedger(wk)
  PROVE  WorkerLedger(GivenUp(wk))
<1> DEFINE st == Increment(wk.status, Failed(Cardinality(wk.to_list)), "FAILURE")
           g == GivenUp(wk)
<1>1. /\ UpToDate(wk.status, wk.sub)
      /\ Accounts(wk.status, wk.to_list, wk.sub)
  BY DEF WorkerLedger
<1>2. /\ st \in Status /\ st.state = "FAILURE"
      /\ st.attempted = wk.status.attempted + Cardinality(wk.to_list)
      /\ st.succeeded = wk.status.succeeded
      /\ st.skipped = wk.status.skipped
      /\ get_retry_count(st) = get_retry_count(wk.status)
  <2>1. /\ wk.status \in Status /\ "FAILURE" \in SubtaskState
        /\ Cardinality(wk.to_list) \in Nat /\ wk.num_to_send \in Nat
    BY WorkerNumbers DEF SubtaskState
  <2> QED
    BY <2>1, CountsFailed DEF SameRetries
<1> HIDE DEF st
<1>3. g.status = st /\ g.sub = wk.sub /\ g.to_list = wk.to_list
  BY DEF GivenUp, WorkerState, st
<1> HIDE DEF g
<1>4. Truthful(st, wk.sub)
  BY <1>1, <1>2, WorkerNumbers, StatusNumbers DEF Accounts, Truthful
<1>5. UpToDate(st, wk.sub)
  BY <1>1, <1>2 DEF UpToDate
<1>6. Done(st)
  BY <1>2 DEF Done, READY_STATES
<1> QED
  BY <1>3, <1>4, <1>5, <1>6 DEF WorkerLedger, g

\* A skipped recipient is counted and leaves the list.
LEMMA FilteredLedger ==
  ASSUME IInv, NEW wk \in WorkerState, wk.pc = "filter", ~Done(wk.status),
         WorkerLedger(wk), NEW opt \in Optouts(wk)
  PROVE  LET f == Filtered(wk, opt) IN
           /\ WorkerLedger(f)
           /\ HoldsToken(f)
           /\ ~Done(f.status)
<1> DEFINE st == Increment(wk.status, Skipped(Cardinality(opt)), wk.status.state)
           f == Filtered(wk, opt)
<1>1. HoldsToken(wk)
  BY DEF HoldsToken
<1>2. /\ UpToDate(wk.status, wk.sub)
      /\ Accounts(wk.status, wk.to_list, wk.sub)
      /\ Cardinality(wk.to_list) <= wk.num_to_send
      /\ Counts(wk.status, wk.retries)
  BY <1>1 DEF WorkerLedger, AtWork
<1>3. /\ opt \in SUBSET wk.to_list
      /\ wk.to_list \in SUBSET Recipient
      /\ IsFiniteSet(wk.to_list) /\ IsFiniteSet(opt)
      /\ Cardinality(opt) \in Nat
  <2>1. opt \in SUBSET wk.to_list /\ wk.to_list \in SUBSET Recipient
    BY DEF Optouts, WorkerState
  <2> QED
    BY <2>1, RecipientAssumption, FS_Subset, FS_CardinalityType
<1>4. Cardinality(wk.to_list \ opt) = Cardinality(wk.to_list) - Cardinality(opt)
  <2>1. wk.to_list \cap opt = opt
    BY <1>3
  <2> QED
    BY <1>3, <2>1, FS_Difference
<1>5. /\ st \in Status /\ st.state = wk.status.state
      /\ st.attempted = wk.status.attempted
      /\ st.succeeded = wk.status.succeeded
      /\ st.skipped = wk.status.skipped + Cardinality(opt)
      /\ st.retried_nomax = wk.status.retried_nomax
      /\ st.retried_withmax = wk.status.retried_withmax
      /\ get_retry_count(st) = get_retry_count(wk.status)
  BY <1>3, WorkerNumbers, CountsSkipped DEF SameRetries
<1> HIDE DEF st
<1>6. /\ f.pc = "open" /\ f.status = st /\ f.sub = wk.sub
      /\ f.to_list = wk.to_list \ opt
      /\ f.num_to_send = wk.num_to_send /\ f.retries = wk.retries
  BY DEF Filtered, WorkerState, st
<1> HIDE DEF f
<1>7. Accounts(st, wk.to_list \ opt, wk.sub)
  BY <1>2, <1>3, <1>4, <1>5, WorkerNumbers, StatusNumbers DEF Accounts
<1>8. UpToDate(st, wk.sub) /\ Counts(st, wk.retries)
  BY <1>2, <1>5 DEF UpToDate, Counts
<1>9. Cardinality(wk.to_list \ opt) <= wk.num_to_send
  BY <1>2, <1>3, <1>4, WorkerNumbers
<1>10. ~Done(st)
  BY <1>5 DEF Done
<1> QED
  BY <1>6, <1>7, <1>8, <1>9, <1>10 DEF WorkerLedger, HoldsToken, AtWork, f

\* A recipient who could not be mailed is counted and leaves the list.
LEMMA PoppedLedger ==
  ASSUME IInv, NEW wk \in WorkerState, wk.pc = "send", wk.to_list # {},
         Consistent(wk), WorkerLedger(wk)
  PROVE  WorkerLedger(Popped(wk, Failed(1)))
<1> DEFINE st == Increment(wk.status, Failed(1), wk.status.state)
           p == Popped(wk, Failed(1))
<1>1. HoldsToken(wk) /\ ~Done(wk.status)
  BY DEF HoldsToken, Consistent
<1>2. /\ UpToDate(wk.status, wk.sub)
      /\ Accounts(wk.status, wk.to_list, wk.sub)
      /\ Cardinality(wk.to_list) <= wk.num_to_send
      /\ Counts(wk.status, wk.retries)
  BY <1>1 DEF WorkerLedger, AtWork
<1>3. /\ p.pc = "send" /\ p.sub = wk.sub
      /\ p.to_list = wk.to_list \ {Last(wk.to_list)}
      /\ Last(wk.to_list) \in wk.to_list
  BY DeltaType, PoppedWorker
<1>4. /\ p.status = st
      /\ p.num_to_send = wk.num_to_send /\ p.retries = wk.retries
  BY DEF Popped, WorkerState
<1>5. /\ Cardinality(p.to_list) = Cardinality(wk.to_list) - 1
      /\ Cardinality(p.to_list) \in Nat
  <2>1. wk.to_list \in SUBSET Recipient
    BY DEF WorkerState
  <2> QED
    BY <1>3, <2>1, OneFewer
<1>6. /\ st \in Status /\ st.state = wk.status.state
      /\ st.attempted = wk.status.attempted + 1
      /\ st.succeeded = wk.status.succeeded
      /\ st.skipped = wk.status.skipped
      /\ SameRetries(st, wk.status)
  <2>1. wk.status \in Status /\ wk.status.state \in SubtaskState
    BY WorkerNumbers
  <2> QED
    BY <2>1, CountsFailed
<1> HIDE DEF st, p
<1>7. Accounts(st, p.to_list, wk.sub)
  <2>1. /\ wk.status.attempted \in Nat /\ wk.status.skipped \in Nat
        /\ Cardinality(wk.to_list) \in Nat /\ Cardinality(Recipient) \in Nat
    BY WorkerNumbers, StatusNumbers
  <2> QED
    BY <1>2, <1>5, <1>6, <2>1 DEF Accounts
<1>8. UpToDate(st, wk.sub) /\ Counts(st, wk.retries)
  BY <1>2, <1>6 DEF UpToDate, Counts, SameRetries
<1>9. Cardinality(p.to_list) <= wk.num_to_send
  BY <1>2, <1>5, WorkerNumbers
<1>10. ~Done(st)
  BY <1>1, <1>6 DEF Done
<1> QED
  BY <1>3, <1>4, <1>7, <1>8, <1>9, <1>10 DEF WorkerLedger, AtWork, p

\* A retry that is to be recorded is one more than celery has counted.
LEMMA PendingLedger ==
  ASSUME IInv, NEW wk \in WorkerState, wk.pc \in {"open", "send"},
         Consistent(wk), WorkerLedger(wk),
         NEW d \in {RetriedNoMax, RetriedWithMax},
         NEW limit \in {"withmax", "nomax"},
         d = RetriedNoMax <=> limit = "nomax"
  PROVE  WorkerLedger(RetryPending(wk, d, limit))
<1> DEFINE st == Increment(wk.status, d, "RETRY")
           p == RetryPending(wk, d, limit)
<1>1. HoldsToken(wk) /\ ~Done(wk.status)
  BY DEF HoldsToken, Consistent
<1>2. /\ UpToDate(wk.status, wk.sub)
      /\ Accounts(wk.status, wk.to_list, wk.sub)
      /\ Cardinality(wk.to_list) <= wk.num_to_send
      /\ Counts(wk.status, wk.retries)
  BY <1>1 DEF WorkerLedger, AtWork
<1>3. /\ p.pc = "update" /\ p.sub = wk.sub /\ p.to_list = wk.to_list
      /\ p.status = st /\ p.limit = limit
      /\ p.num_to_send = wk.num_to_send /\ p.retries = wk.retries
  BY DEF RetryPending, WorkerState
<1>4. /\ st \in Status /\ st.state = "RETRY"
      /\ st.attempted = wk.status.attempted
      /\ st.succeeded = wk.status.succeeded
      /\ st.skipped = wk.status.skipped
      /\ d = RetriedNoMax => st.retried_withmax = wk.status.retried_withmax
      /\ d = RetriedWithMax => st.retried_nomax = wk.status.retried_nomax
      /\ get_retry_count(st) = get_retry_count(wk.status) + 1
  <2>1. wk.status \in Status
    BY WorkerNumbers
  <2> QED
    BY <2>1, CountsRetry
<1> HIDE DEF st, p
<1>5. Accounts(st, wk.to_list, wk.sub)
  BY <1>2, <1>4 DEF Accounts
<1>6. UpToDate(st, wk.sub)
  <2>1. get_retry_count(wk.status) \in Nat
    BY WorkerNumbers, StatusNumbers
  <2> QED
    BY <1>2, <1>4, <2>1, WorkerNumbers DEF UpToDate
<1>7. CountsOneMore(st, wk.retries, limit)
  BY <1>2, <1>4 DEF Counts, CountsOneMore
<1>8. ~Done(st)
  BY <1>4 DEF Done, READY_STATES
<1> QED
  BY <1>2, <1>3, <1>5, <1>6, <1>7, <1>8 DEF WorkerLedger, AtWork, p

\* With nobody left on the list every recipient is accounted for.
LEMMA ProcessedLedger ==
  ASSUME IInv, NEW wk \in WorkerState, wk.pc = "send", wk.to_list = {},
         Consistent(wk), WorkerLedger(wk),
         NEW v \in WorkerState, v.sub = wk.sub,
         v.status = Increment(wk.status, Nothing, "SUCCESS")
  PROVE  WorkerLedger(v)
<1>1. HoldsToken(wk) /\ ~Done(wk.status)
  BY DEF HoldsToken, Consistent
<1>2. /\ UpToDate(wk.status, wk.sub)
      /\ Accounts(wk.status, {}, wk.sub)
  BY <1>1 DEF WorkerLedger
<1>3. /\ v.status \in Status /\ v.status.state = "SUCCESS"
      /\ v.status.attempted = wk.status.attempted
      /\ v.status.succeeded = wk.status.succeeded
      /\ v.status.skipped = wk.status.skipped
      /\ SameRetries(v.status, wk.status)
  <2>1. wk.status \in Status /\ "SUCCESS" \in SubtaskState
    BY WorkerNumbers DEF SubtaskState
  <2> QED
    BY <2>1, CountsNothing
<1>4. Cardinality({}) = 0
  BY FS_EmptySet
<1>5. Truthful(v.status, wk.sub)
  BY <1>2, <1>3, <1>4, WorkerNumbers, StatusNumbers DEF Accounts, Truthful
<1>6. UpToDate(v.status, wk.sub)
  BY <1>2, <1>3 DEF UpToDate, SameRetries
<1>7. Done(v.status)
  BY <1>3 DEF Done, READY_STATES
<1> QED
  BY <1>5, <1>6, <1>7 DEF WorkerLedger

\* A step within one part of the attempt leaves the ledger as it is.
LEMMA SameLedger ==
  ASSUME NEW wk, NEW v, WorkerLedger(wk), HoldsToken(v) => HoldsToken(wk),
         v.sub = wk.sub, v.to_list = wk.to_list, v.status = wk.status,
         v.num_to_send = wk.num_to_send, v.retries = wk.retries,
         v.limit = wk.limit, v.pc \in AtWork <=> wk.pc \in AtWork
  PROVE  WorkerLedger(v)
BY DEF WorkerLedger

-----------------------------------------------------------------------------
(* Preservation of LedgerInv, in the order of the actions of Subtasks.     *)

\* What LedgerInv and IInv say of one worker.
LEMMA LedgerFacts ==
  ASSUME IInv, LedgerInv, NEW w \in Worker
  PROVE  /\ worker[w] \in WorkerState
         /\ Consistent(worker[w])
         /\ WorkerLedger(worker[w])
         /\ HoldsToken(worker[w]) => ~Done(entry.status[worker[w].sub])
BY WorkerFacts DEF LedgerInv, IInv, DoneHasNoToken

\* A step of one worker that leaves the row, the queue and the mails alone
\* preserves the ledger if the worker's own is kept.
LEMMA WorkerStepKeepsLedger ==
  ASSUME IInv, LedgerInv, NEW w \in Worker, NEW wk \in WorkerState,
         Becomes(w, wk), WorkerLedger(wk), UNCHANGED <<entry, queue, sent>>
  PROVE  LedgerInv'
<1>1. /\ worker'[w] = wk
      /\ \A v \in Worker : v # w => worker'[v] = worker[v]
  BY DEF IInv, TypeOK, Becomes
<1>2. \A s : Mailed(s)' = Mailed(s)
  BY DEF Mailed
<1>3. \A st, s : /\ UpToDate(st, s)' <=> UpToDate(st, s)
                 /\ Truthful(st, s)' <=> Truthful(st, s)
  BY <1>2 DEF UpToDate, Truthful
<1>4. \A st, list, s : Accounts(st, list, s)' <=> Accounts(st, list, s)
  BY <1>2 DEF Accounts
<1>5. \A m \in queue' : MessageLedger(m)'
  BY <1>2 DEF LedgerInv, MessageLedger, UpToDate, Accounts
<1>6. ASSUME NEW v \in Worker
      PROVE  WorkerLedger(worker[v])'
  <2> DEFINE x == worker'[v]
  <2>1. WorkerLedger(x)
    BY <1>1 DEF LedgerInv
  <2> QED
    BY <1>2, <2>1 DEF WorkerLedger, UpToDate, Accounts, Truthful
<1>7. \A s \in Subtask : Done(entry.status[s])' => Truthful(entry.status[s], s)'
  BY <1>2 DEF LedgerInv, Truthful
<1> QED
  BY <1>5, <1>6, <1>7 DEF LedgerInv

\* Whoever holds no token has nothing to account for.
LEMMA NoToken ==
  /\ Idle \in WorkerState
  /\ WorkerLedger(Idle)
BY IdleWorker DEF WorkerLedger

\* The steps of a worker before its first email.
LEMMA StartKeepsLedger ==
  ASSUME IInv, LedgerInv, NEW w \in Worker,
         \/ CheckRow(w) \/ AcquireLock(w) \/ FilterOptouts(w)
         \/ PrepareRaises(w) \/ OpenConnection(w)
  PROVE  LedgerInv'
<1> USE LedgerFacts
<1>0. UNCHANGED <<entry, queue, sent>>
  BY DEF CheckRow, AcquireLock, FilterOptouts, PrepareRaises, OpenConnection
<1>1. CASE Becomes(w, Idle)
  BY <1>0, <1>1, NoToken, WorkerStepKeepsLedger
<1>2. ASSUME NEW p \in {"lock", "filter", "send"},
             worker[w].pc \in {"check", "lock", "open"},
             Becomes(w, [worker[w] EXCEPT !.pc = p])
      PROVE  LedgerInv'
  <2> DEFINE v == [worker[w] EXCEPT !.pc = p]
  <2>1. v \in WorkerState
    BY <1>2 DEF WorkerState, PC
  <2>2. /\ v.pc = p /\ v.sub = worker[w].sub /\ v.to_list = worker[w].to_list
        /\ v.status = worker[w].status /\ v.limit = worker[w].limit
        /\ v.num_to_send = worker[w].num_to_send
        /\ v.retries = worker[w].retries
    BY DEF WorkerState
  <2>3. Becomes(w, v)
    BY <1>2
  <2> HIDE DEF v
  <2>4. WorkerLedger(v)
    <3>1. /\ HoldsToken(worker[w])
          /\ v.pc \in AtWork /\ worker[w].pc \in AtWork
      BY <1>2, <2>2 DEF HoldsToken, AtWork
    <3> QED
      BY <2>2, <3>1, SameLedger
  <2> QED
    BY <1>0, <2>1, <2>3, <2>4, WorkerStepKeepsLedger
<1>3. CASE CheckRow(w) \/ AcquireLock(w) \/ OpenConnection(w)
  BY <1>1, <1>2, <1>3 DEF CheckRow, AcquireLock, OpenConnection, At
<1>4. ASSUME NEW opt \in Optouts(worker[w]), worker[w].pc = "filter"
      PROVE  LET f == Filtered(worker[w], opt) IN
               /\ f \in WorkerState /\ FailedUnexpectedly(f) \in WorkerState
               /\ WorkerLedger(f) /\ WorkerLedger(FailedUnexpectedly(f))
  <2> DEFINE f == Filtered(worker[w], opt)
  <2>1. f \in WorkerState
    BY FilteredWorker
  <2>2. WorkerLedger(f) /\ HoldsToken(f) /\ ~Done(f.status)
    <3>1. ~Done(worker[w].status)
      BY <1>4 DEF Consistent
    <3> QED
      BY <1>4, <3>1, FilteredLedger
  <2> HIDE DEF f
  <2>3. FailedUnexpectedly(f) \in WorkerState
    BY <2>1, FailedUnexpectedlyWorker
  <2>4. WorkerLedger(FailedUnexpectedly(f))
    BY <2>1, <2>2, FailedLedger
  <2> QED
    BY <2>1, <2>2, <2>3, <2>4 DEF f
<1>5. CASE FilterOptouts(w)
  <2>1. /\ worker[w].pc = "filter"
        /\ \E opt \in Optouts(worker[w]) : Becomes(w, Filtered(worker[w], opt))
    BY <1>5 DEF FilterOptouts, At
  <2> QED
    BY <1>0, <1>4, <2>1, WorkerStepKeepsLedger
<1>6. CASE PrepareRaises(w)
  <2>1. /\ worker[w].pc = "filter"
        /\ \E opt \in Optouts(worker[w]) :
             Becomes(w, FailedUnexpectedly(Filtered(worker[w], opt)))
    BY <1>6 DEF PrepareRaises, At
  <2> QED
    BY <1>0, <1>4, <2>1, WorkerStepKeepsLedger
<1> QED
  BY <1>3, <1>5, <1>6

\* The ways in which an email is not sent, and in which the loop ends.
LEMMA LoopKeepsLedger ==
  ASSUME IInv, LedgerInv, NEW w \in Worker,
         \/ EmailFails(w) \/ RateLimited(w) \/ TransientError(w)
         \/ BulkFailure(w) \/ AllProcessed(w)
  PROVE  LedgerInv'
<1> USE LedgerFacts
<1>0. /\ UNCHANGED <<entry, queue, sent>>
      /\ worker[w].pc \in {"open", "send"}
  BY DEF EmailFails, RateLimited, TransientError, BulkFailure, AllProcessed, At
<1>1. HoldsToken(worker[w]) /\ ~Done(worker[w].status)
  BY <1>0 DEF HoldsToken, Consistent
<1>2. CASE EmailFails(w)
  <2>1. /\ worker[w].pc = "send" /\ worker[w].to_list # {}
        /\ Becomes(w, Popped(worker[w], Failed(1)))
    BY <1>2 DEF EmailFails, At
  <2>2. Popped(worker[w], Failed(1)) \in WorkerState
    BY <2>1, DeltaType, PoppedWorker
  <2> QED
    BY <1>0, <2>1, <2>2, PoppedLedger, WorkerStepKeepsLedger
<1>3. CASE RateLimited(w) \/ TransientError(w)
  <2>1. PICK limit \in {"withmax", "nomax"}, d \in {RetriedNoMax, RetriedWithMax} :
          /\ d = RetriedNoMax <=> limit = "nomax"
          /\ Becomes(w, RetryPending(worker[w], d, limit))
    <3>1. RetriedNoMax # RetriedWithMax
      BY DEF RetriedNoMax, RetriedWithMax, Nothing
    <3> QED
      BY <1>3, <3>1 DEF RateLimited, TransientError
  <2>2. RetryPending(worker[w], d, limit) \in WorkerState
    <3>1. d \in [succeeded : Nat, failed : Nat, skipped : Nat,
                 retried_nomax : Nat, retried_withmax : Nat]
      BY DEF RetriedNoMax, RetriedWithMax, Nothing
    <3> QED
      BY <3>1, RetryPendingWorker
  <2> QED
    BY <1>0, <2>1, <2>2, PendingLedger, WorkerStepKeepsLedger
<1>4. CASE BulkFailure(w)
  <2>1. Becomes(w, GivenUp(worker[w]))
    BY <1>4 DEF BulkFailure
  <2> QED
    BY <1>0, <1>1, <2>1, GivenUpWorker, GivenUpLedger, WorkerStepKeepsLedger
<1>5. CASE AllProcessed(w)
  <2> DEFINE st == Increment(worker[w].status, Nothing, "SUCCESS")
             v == [worker[w] EXCEPT !.pc = "close", !.status = st]
  <2>1. /\ worker[w].pc = "send" /\ worker[w].to_list = {}
        /\ Becomes(w, v)
    BY <1>5 DEF AllProcessed, At
  <2>2. st \in Status
    <3>1. worker[w].status \in Status /\ "SUCCESS" \in SubtaskState
      BY WorkerFacts DEF SubtaskState
    <3> QED
      BY <3>1, CountsNothing
  <2> HIDE DEF st
  <2>3. v \in WorkerState /\ v.sub = worker[w].sub /\ v.status = st
    BY <2>2 DEF WorkerState, PC
  <2> HIDE DEF v
  <2>4. WorkerLedger(v)
    BY <2>1, <2>3, ProcessedLedger DEF st
  <2> QED
    BY <1>0, <2>1, <2>3, <2>4, WorkerStepKeepsLedger
<1> QED
  BY <1>2, <1>3, <1>4, <1>5

\* A failed update, the deletions of the lock, and the end of an attempt.
LEMMA EndKeepsLedger ==
  ASSUME IInv, LedgerInv, NEW w \in Worker,
         \/ UpdateFails(w) \/ ReleaseLock(w) \/ RetryFails(w)
         \/ CloseConnection(w) \/ WorkerDies(w)
  PROVE  LedgerInv'
<1> USE LedgerFacts
<1>0. UNCHANGED <<entry, queue, sent>>
  BY DEF UpdateFails, ReleaseLock, RetryFails, CloseConnection, WorkerDies
<1>1. CASE Becomes(w, Idle)
  BY <1>0, <1>1, NoToken, WorkerStepKeepsLedger
<1>2. ASSUME NEW v, v \in WorkerState, Becomes(w, v),
             v.sub = worker[w].sub, v.to_list = worker[w].to_list,
             v.status = worker[w].status, v.limit = worker[w].limit,
             v.num_to_send = worker[w].num_to_send,
             v.retries = worker[w].retries,
             HoldsToken(v) => HoldsToken(worker[w]),
             v.pc \notin AtWork, worker[w].pc \notin AtWork
      PROVE  LedgerInv'
  BY <1>0, <1>2, SameLedger, WorkerStepKeepsLedger
<1>3. CASE UpdateFails(w)
  <2> DEFINE tries == worker[w].tries + 1
             v == IF tries < MaxDbTries
                  THEN [worker[w] EXCEPT !.tries = tries]
                  ELSE [worker[w] EXCEPT !.pc = "unwind", !.releases = tries]
  <2>1. worker[w].pc = "update" /\ Becomes(w, v)
    BY <1>3 DEF UpdateFails, At
  <2>2. tries \in Nat
    BY DEF WorkerState
  <2> HIDE DEF tries
  <2>3. v \in WorkerState
    BY <2>2 DEF WorkerState, PC
  <2>4. /\ v.sub = worker[w].sub /\ v.to_list = worker[w].to_list
        /\ v.status = worker[w].status /\ v.limit = worker[w].limit
        /\ v.num_to_send = worker[w].num_to_send
        /\ v.retries = worker[w].retries
        /\ v.pc \in {"update", "unwind"}
    BY <2>1 DEF WorkerState
  <2> HIDE DEF v
  <2>5. HoldsToken(worker[w]) /\ v.pc \notin AtWork /\ worker[w].pc \notin AtWork
    BY <2>1, <2>4 DEF HoldsToken, AtWork
  <2> QED
    BY <1>2, <2>1, <2>3, <2>4, <2>5
<1>4. CASE ReleaseLock(w)
  <2> DEFINE wk == [worker[w] EXCEPT !.releases = worker[w].releases - 1]
  <2>0. /\ worker[w].pc \in {"release", "unwind"}
        /\ worker[w].releases > 0 /\ worker[w].releases \in Nat
    BY <1>4 DEF ReleaseLock, At, Consistent, WorkerState
  <2>1. wk \in WorkerState
    BY <2>0 DEF WorkerState
  <2>2. /\ wk.pc = worker[w].pc /\ wk.sub = worker[w].sub
        /\ wk.to_list = worker[w].to_list /\ wk.status = worker[w].status
        /\ wk.limit = worker[w].limit /\ wk.retries = worker[w].retries
        /\ wk.num_to_send = worker[w].num_to_send
        /\ wk.releases = worker[w].releases - 1
    BY DEF WorkerState
  <2>3. Becomes(w, IF wk.releases > 0 THEN wk ELSE AfterUpdate(wk))
    BY <1>4 DEF ReleaseLock
  <2> HIDE DEF wk
  <2>4. worker[w].pc \notin AtWork /\ wk.pc \notin AtWork
    BY <2>0, <2>2 DEF AtWork
  <2>5. HoldsToken(wk) <=> HoldsToken(worker[w])
    BY <2>0, <2>2 DEF HoldsToken
  <2>6. WorkerLedger(wk)
    BY <2>2, <2>4, <2>5, SameLedger
  <2>7. CASE wk.releases > 0
    BY <1>2, <2>1, <2>2, <2>3, <2>4, <2>5, <2>7
  <2>8. CASE ~(wk.releases > 0) /\ wk.status.state # "RETRY"
    BY <1>1, <2>3, <2>8 DEF AfterUpdate
  <2>9. CASE ~(wk.releases > 0) /\ wk.status.state = "RETRY"
    <3>1. HoldsToken(wk) /\ ~Done(wk.status)
      BY <2>0, <2>2, <2>9 DEF HoldsToken, Done, READY_STATES
    <3>2. CASE wk.pc = "unwind"
      <4>1. Becomes(w, FailedUnexpectedly(wk))
        BY <2>3, <2>9, <3>2 DEF AfterUpdate
      <4> QED
        BY <1>0, <2>1, <2>6, <3>1, <4>1, FailedUnexpectedlyWorker, FailedLedger,
           WorkerStepKeepsLedger
    <3>3. CASE wk.pc # "unwind"
      <4> DEFINE v == [wk EXCEPT !.pc = "retry"]
      <4>1. v \in WorkerState
        BY <2>1 DEF WorkerState, PC
      <4>2. /\ v.sub = worker[w].sub /\ v.to_list = worker[w].to_list
            /\ v.status = worker[w].status /\ v.limit = worker[w].limit
            /\ v.num_to_send = worker[w].num_to_send
            /\ v.retries = worker[w].retries
            /\ v.pc = "retry"
        BY <2>1, <2>2 DEF WorkerState
      <4>3. Becomes(w, v)
        BY <2>3, <2>9, <3>3 DEF AfterUpdate
      <4> HIDE DEF v
      <4>4. v.pc \notin AtWork
        BY <4>2 DEF AtWork
      <4> QED
        BY <1>2, <2>4, <2>5, <3>1, <4>1, <4>2, <4>3, <4>4
    <3> QED
      BY <3>2, <3>3
  <2> QED
    BY <2>7, <2>8, <2>9
<1>5. CASE RetryFails(w)
  <2>1. worker[w].pc = "retry" /\ Becomes(w, GivenUp(worker[w]))
    BY <1>5 DEF RetryFails, At
  <2>2. HoldsToken(worker[w]) /\ ~Done(worker[w].status)
    BY <2>1 DEF HoldsToken, Consistent, Done, READY_STATES
  <2> QED
    BY <1>0, <2>1, <2>2, GivenUpWorker, GivenUpLedger, WorkerStepKeepsLedger
<1>6. CASE CloseConnection(w) /\ worker[w].status.state # "RETRY"
  <2> DEFINE v == [worker[w] EXCEPT !.pc = "update", !.tries = 0]
  <2>1. worker[w].pc = "close" /\ Becomes(w, v)
    BY <1>6 DEF CloseConnection, At
  <2>2. v \in WorkerState
    BY DEF WorkerState, PC
  <2>3. /\ v.sub = worker[w].sub /\ v.to_list = worker[w].to_list
        /\ v.status = worker[w].status /\ v.limit = worker[w].limit
        /\ v.num_to_send = worker[w].num_to_send
        /\ v.retries = worker[w].retries
        /\ v.pc = "update"
    BY DEF WorkerState
  <2> HIDE DEF v
  <2>4. HoldsToken(worker[w]) /\ v.pc \notin AtWork /\ worker[w].pc \notin AtWork
    BY <1>6, <2>1, <2>3 DEF HoldsToken, AtWork
  <2> QED
    BY <1>2, <2>1, <2>2, <2>3, <2>4
<1> QED
  BY <1>1, <1>3, <1>4, <1>5, <1>6 DEF CloseConnection, WorkerDies

\* The worker who takes a message takes its ledger.
LEMMA DeliverKeepsLedger ==
  ASSUME IInv, LedgerInv, NEW w \in Worker, Deliver(w)
  PROVE  LedgerInv'
<1>1. PICK m \in queue : queue' = queue \ {m} /\ Becomes(w, Begun(m))
  BY DEF Deliver
<1>2. entry' = entry /\ sent' = sent
  BY DEF Deliver
<1> DEFINE b == Begun(m)
<1>3. /\ b.pc = "check" /\ b.sub = m.sub /\ b.to_list = m.to_list
      /\ b.status = m.status /\ b.retries = m.retries
      /\ b.num_to_send = Cardinality(m.to_list)
  BY DEF Begun, Idle
<1>4. /\ ~Done(m.status) /\ MessageLedger(m)
      /\ Cardinality(m.to_list) \in Nat
  BY ListLength DEF IInv, TypeOK, Message, WorkerConsistent, LedgerInv
<1>5. /\ worker'[w] = b
      /\ \A v \in Worker : v # w => worker'[v] = worker[v]
  BY <1>1 DEF IInv, TypeOK, Becomes
<1> HIDE DEF b
<1>6. WorkerLedger(b)
  BY <1>3, <1>4 DEF WorkerLedger, MessageLedger, AtWork
<1>7. \A s : Mailed(s)' = Mailed(s)
  BY <1>2 DEF Mailed
<1>8. \A n \in queue' : MessageLedger(n)'
  BY <1>1, <1>2, <1>7 DEF LedgerInv, MessageLedger, UpToDate, Accounts
<1>9. ASSUME NEW v \in Worker
      PROVE  WorkerLedger(worker[v])'
  <2> DEFINE x == worker'[v]
  <2>1. WorkerLedger(x)
    BY <1>5, <1>6 DEF LedgerInv
  <2> QED
    BY <1>2, <1>7, <2>1 DEF WorkerLedger, UpToDate, Accounts, Truthful
<1>10. \A s \in Subtask : Done(entry.status[s])' => Truthful(entry.status[s], s)'
  BY <1>2, <1>7 DEF LedgerInv, Truthful
<1> QED
  BY <1>8, <1>9, <1>10 DEF LedgerInv

\* A retry within the limit is within the maximum of either kind.
LEMMA LimitCoversKinds ==
  ASSUME NEW wk \in WorkerState,
         CountsOneMore(wk.status, wk.retries, wk.limit),
         wk.retries + 1 <= RetryLimit(wk)
  PROVE  /\ wk.status.retried_withmax <= MaxRetries
         /\ wk.status.retried_nomax <= RetryCap
<1>1. /\ wk.status.retried_nomax \in Nat /\ wk.status.retried_withmax \in Nat
      /\ wk.limit \in {"withmax", "nomax"}
  BY StatusNumbers DEF WorkerState
<1> QED
  BY <1>1, RetryAssumption DEF CountsOneMore, RetryLimit, get_retry_count

\* The message of a retry takes the ledger of the worker, and its retries are
\* within their maxima.
LEMMA RetryKeepsLedger ==
  ASSUME IInv, LedgerInv, NEW w \in Worker, RetryPublished(w)
  PROVE  LedgerInv'
<1> DEFINE m == RetryMessage(worker[w])
           v == [worker[w] EXCEPT !.pc = "close"]
<1>1. /\ worker[w].pc = "retry"
      /\ worker[w].retries + 1 <= RetryLimit(worker[w])
      /\ queue' = queue \cup {m}
      /\ Becomes(w, v)
      /\ entry' = entry /\ sent' = sent
  BY DEF RetryPublished, At
<1>2. /\ HoldsToken(worker[w]) /\ worker[w].pc \notin AtWork
      /\ worker[w].status.state = "RETRY" /\ ~Done(worker[w].status)
  BY <1>1, LedgerFacts
     DEF HoldsToken, Consistent, AtWork, Done, READY_STATES
<1>3. /\ UpToDate(worker[w].status, worker[w].sub)
      /\ Accounts(worker[w].status, worker[w].to_list, worker[w].sub)
      /\ CountsOneMore(worker[w].status, worker[w].retries, worker[w].limit)
  BY <1>2, LedgerFacts DEF WorkerLedger
<1>4. /\ m.sub = worker[w].sub /\ m.to_list = worker[w].to_list
      /\ m.status = worker[w].status /\ m.retries = worker[w].retries + 1
  BY DEF RetryMessage
<1>5. /\ v.pc = "close" /\ v.status = worker[w].status
  BY LedgerFacts DEF WorkerState
<1> HIDE DEF m, v
<1>6. MessageLedger(m)
  BY <1>1, <1>3, <1>4, LedgerFacts, LimitCoversKinds
     DEF MessageLedger, Counts, CountsOneMore
<1>7. WorkerLedger(v)
  BY <1>2, <1>5 DEF WorkerLedger, HoldsToken
<1>8. /\ worker'[w] = v
      /\ \A x \in Worker : x # w => worker'[x] = worker[x]
  BY <1>1 DEF IInv, TypeOK, Becomes
<1>9. \A s : Mailed(s)' = Mailed(s)
  BY <1>1 DEF Mailed
<1>10. \A n \in queue' : MessageLedger(n)'
  <2>1. \A n \in queue' : MessageLedger(n)
    BY <1>1, <1>6 DEF LedgerInv
  <2> QED
    BY <1>1, <1>9, <2>1 DEF MessageLedger, UpToDate, Accounts
<1>11. ASSUME NEW x \in Worker
       PROVE  WorkerLedger(worker[x])'
  <2> DEFINE y == worker'[x]
  <2>1. WorkerLedger(y)
    BY <1>7, <1>8 DEF LedgerInv
  <2> QED
    BY <1>1, <1>9, <2>1 DEF WorkerLedger, UpToDate, Accounts, Truthful
<1>12. \A s \in Subtask : Done(entry.status[s])' => Truthful(entry.status[s], s)'
  BY <1>1, <1>9 DEF LedgerInv, Truthful
<1> QED
  BY <1>10, <1>11, <1>12 DEF LedgerInv

\* What a committed update records is what the worker accounts for.
LEMMA CommitKeepsLedger ==
  ASSUME IInv, LedgerInv, NEW w \in Worker, UpdateCommits(w)
  PROVE  LedgerInv'
<1> DEFINE s == worker[w].sub
           st == worker[w].status
           v == [worker[w] EXCEPT !.pc = "release",
                                  !.releases = worker[w].tries + 1]
<1>1. /\ worker[w].pc = "update" /\ Becomes(w, v) /\ queue' = queue
      /\ HoldsToken(worker[w])
  BY DEF UpdateCommits, At, HoldsToken
<1>2. /\ s \in Subtask /\ ~Done(entry.status[s])
      /\ entry'.status = [entry.status EXCEPT ![s] = st]
      /\ sent' = sent
  BY CommitChanges
<1>3. /\ v.pc = "release" /\ v.sub = s /\ v.to_list = worker[w].to_list
      /\ v.status = st /\ v.num_to_send = worker[w].num_to_send
      /\ v.retries = worker[w].retries /\ v.limit = worker[w].limit
  BY LedgerFacts DEF WorkerState
<1>4. /\ worker'[w] = v
      /\ \A x \in Worker : x # w => worker'[x] = worker[x]
  BY <1>1 DEF IInv, TypeOK, Becomes
<1>5. WorkerLedger(worker[w]) /\ st \in Status
  BY LedgerFacts DEF WorkerState
<1>6. /\ entry'.status[s] = st
      /\ \A t \in Subtask : t # s => entry'.status[t] = entry.status[t]
  BY <1>2 DEF IInv, TypeOK, EntryType
<1> HIDE DEF s, st, v
<1>7. \A t : Mailed(t)' = Mailed(t)
  BY <1>2 DEF Mailed
<1>8. ASSUME NEW m \in queue'
      PROVE  MessageLedger(m)'
  <2>1. /\ m \in queue /\ m.sub \in Subtask /\ m.sub # s
        /\ MessageLedger(m)
    BY <1>1 DEF IInv, TypeOK, Message, OneToken, LedgerInv, s
  <2> QED
    BY <1>6, <1>7, <2>1 DEF MessageLedger, UpToDate, Accounts
<1>9. ASSUME NEW x \in Worker
      PROVE  WorkerLedger(worker[x])'
  <2> DEFINE y == worker'[x]
  <2>1. CASE x = w
    <3>1. get_retry_count(st) \in Nat
      BY <1>5, StatusNumbers
    <3>2. WorkerLedger(v)
      <4>1. v.pc \notin AtWork /\ worker[w].pc \notin AtWork
        BY <1>1, <1>3 DEF AtWork
      <4> QED
        BY <1>1, <1>3, <1>5, <4>1, SameLedger DEF s, st
    <3>3. y = v
      BY <1>4, <2>1
    <3> QED
      BY <1>3, <1>6, <1>7, <3>1, <3>2, <3>3
         DEF WorkerLedger, UpToDate, Accounts, Truthful
  <2>2. CASE x # w
    <3>1. /\ y = worker[x] /\ WorkerLedger(y) /\ y.sub \in Subtask
      BY <1>4, <2>2, WorkerFacts DEF LedgerInv
    <3>2. HoldsToken(y) => y.sub # s
      BY <1>1, <2>2, <3>1 DEF IInv, OneToken, s
    <3> QED
      BY <1>6, <1>7, <3>1, <3>2 DEF WorkerLedger, UpToDate, Accounts, Truthful
  <2> QED
    BY <2>1, <2>2
<1>10. ASSUME NEW t \in Subtask, Done(entry'.status[t])
       PROVE  Truthful(entry.status[t], t)'
  <2>1. CASE t = s
    <3>1. Done(st) /\ Truthful(st, s)
      BY <1>1, <1>5, <1>6, <1>10, <2>1 DEF WorkerLedger, s, st
    <3> QED
      BY <1>6, <1>7, <2>1, <3>1 DEF Truthful
  <2>2. CASE t # s
    <3>1. Truthful(entry.status[t], t)
      BY <1>6, <1>10, <2>2 DEF LedgerInv
    <3> QED
      BY <1>6, <1>7, <2>2, <3>1 DEF Truthful
  <2> QED
    BY <2>1, <2>2
<1>11. \A t \in Subtask : Done(entry.status[t])' => Truthful(entry.status[t], t)'
  BY <1>10 DEF Done
<1> QED
  BY <1>8, <1>9, <1>11 DEF LedgerInv

\* A recipient who is mailed is counted: the mail is its first.
LEMMA MailKeepsLedger ==
  ASSUME IInv, LedgerInv, NEW w \in Worker, EmailSent(w)
  PROVE  LedgerInv'
<1>a. /\ worker[w].pc = "send" /\ worker[w].to_list # {}
      /\ worker[w] \in WorkerState /\ Consistent(worker[w])
  BY LedgerFacts DEF EmailSent, At
<1>b. /\ worker[w].sub \in Subtask
      /\ Last(worker[w].to_list) \in Recipient
      /\ Popped(worker[w], Succeeded(1)) \in WorkerState
  BY <1>a, WorkerFacts, DeltaType, PoppedWorker
<1>c. Increment(worker[w].status, Succeeded(1), worker[w].status.state) \in Status
  BY WorkerFacts, CountsSucceeded
<1> PICK s \in Subtask, r \in Recipient, p \in WorkerState, st \in Status :
      /\ s = worker[w].sub
      /\ r = Last(worker[w].to_list)
      /\ p = Popped(worker[w], Succeeded(1))
      /\ st = Increment(worker[w].status, Succeeded(1), worker[w].status.state)
  BY <1>b, <1>c
<1>1. /\ worker[w].pc = "send" /\ worker[w].to_list # {}
      /\ Becomes(w, p)
      /\ sent' = [sent EXCEPT ![s][r] = @ + 1]
      /\ entry' = entry /\ queue' = queue
      /\ HoldsToken(worker[w])
  BY DEF EmailSent, At, HoldsToken
<1>2. /\ ~Done(worker[w].status) /\ ~Done(entry.status[s])
      /\ WorkerLedger(worker[w]) /\ worker[w] \in WorkerState
      /\ Consistent(worker[w])
  BY <1>1, LedgerFacts DEF Consistent
<1>3. /\ UpToDate(worker[w].status, s)
      /\ Accounts(worker[w].status, worker[w].to_list, s)
      /\ Cardinality(worker[w].to_list) <= worker[w].num_to_send
      /\ Counts(worker[w].status, worker[w].retries)
  BY <1>1, <1>2 DEF WorkerLedger, AtWork
<1>4. /\ p.pc = "send" /\ p.sub = s
      /\ p.to_list = worker[w].to_list \ {r}
      /\ r \in worker[w].to_list /\ r \in Recipient /\ s \in Subtask
      /\ worker[w].to_list \in SUBSET Recipient
  BY <1>1, <1>2, WorkerFacts, DeltaType, PoppedWorker
<1>5. /\ p.status = st
      /\ p.num_to_send = worker[w].num_to_send /\ p.retries = worker[w].retries
  BY <1>2 DEF Popped, WorkerState
<1>6. /\ st \in Status /\ st.state = worker[w].status.state
      /\ st.attempted = worker[w].status.attempted + 1
      /\ st.succeeded = worker[w].status.succeeded + 1
      /\ st.skipped = worker[w].status.skipped
      /\ SameRetries(st, worker[w].status)
  <2>1. /\ worker[w].status \in Status
        /\ worker[w].status.state \in SubtaskState
    BY <1>2, WorkerNumbers
  <2> QED
    BY <2>1, CountsSucceeded
<1>7. /\ sent[s][r] = 0
      /\ Mailed(s)' = Mailed(s) \cup {r}
      /\ r \notin Mailed(s)
      /\ \A t \in Subtask : t # s => Mailed(t)' = Mailed(t)
  <2>1. sent[s][r] = 0
    BY <1>1, <1>4 DEF IInv, ListedAreUnmailed
  <2>2. /\ sent'[s][r] = 1
        /\ \A t \in Subtask, q \in Recipient :
             (t # s \/ q # r) => sent'[t][q] = sent[t][q]
    BY <1>1, <1>4, <2>1 DEF IInv, TypeOK
  <2> QED
    BY <1>4, <2>1, <2>2 DEF Mailed
<1>8. Cardinality(Mailed(s)') = Cardinality(Mailed(s)) + 1
  <2>1. Mailed(s) \in SUBSET Recipient
    BY DEF Mailed
  <2>2. IsFiniteSet(Mailed(s))
    BY <2>1, RecipientAssumption, FS_Subset
  <2>3. Cardinality(Mailed(s) \cup {r}) = Cardinality(Mailed(s)) + 1
    BY <1>7, <2>2, FS_AddElement
  <2> QED
    BY <1>7, <2>3
<1>9. /\ Cardinality(p.to_list) = Cardinality(worker[w].to_list) - 1
      /\ Cardinality(p.to_list) \in Nat
  BY <1>4, OneFewer
<1>10. WorkerLedger(p)'
  <2>1. /\ worker[w].status.attempted \in Nat /\ worker[w].status.skipped \in Nat
        /\ Cardinality(worker[w].to_list) \in Nat /\ Cardinality(Recipient) \in Nat
        /\ worker[w].num_to_send \in Nat
    BY <1>2, WorkerNumbers, StatusNumbers
  <2>2. Accounts(st, p.to_list, s)'
    BY <1>3, <1>6, <1>8, <1>9, <2>1 DEF Accounts
  <2>3. UpToDate(st, s)' /\ Counts(st, p.retries)
    BY <1>1, <1>3, <1>5, <1>6 DEF UpToDate, Counts, SameRetries
  <2>4. Cardinality(p.to_list) <= p.num_to_send
    BY <1>3, <1>5, <1>9, <2>1
  <2>5. ~Done(st)
    BY <1>2, <1>6 DEF Done
  <2>6. /\ Accounts(p.status, p.to_list, p.sub)' /\ UpToDate(p.status, p.sub)'
        /\ Counts(p.status, p.retries) /\ ~Done(p.status) /\ p.pc \in AtWork
    BY <1>4, <1>5, <2>2, <2>3, <2>5 DEF AtWork
  <2> QED
    BY <2>4, <2>6 DEF WorkerLedger
<1>11. /\ worker'[w] = p
       /\ \A x \in Worker : x # w => worker'[x] = worker[x]
  BY <1>1 DEF IInv, TypeOK, Becomes
<1>12. ASSUME NEW m \in queue'
       PROVE  MessageLedger(m)'
  <2>1. /\ m \in queue /\ m.sub \in Subtask /\ m.sub # s
        /\ MessageLedger(m)
    BY <1>1 DEF IInv, TypeOK, Message, OneToken, LedgerInv
  <2> QED
    BY <1>1, <1>7, <2>1 DEF MessageLedger, UpToDate, Accounts
<1>13. ASSUME NEW x \in Worker
       PROVE  WorkerLedger(worker[x])'
  <2> DEFINE y == worker'[x]
  <2>1. CASE x = w
    BY <1>10, <1>11, <2>1 DEF WorkerLedger
  <2>2. CASE x # w
    <3>1. /\ y = worker[x] /\ WorkerLedger(y) /\ y.sub \in Subtask
      BY <1>11, <2>2, WorkerFacts DEF LedgerInv
    <3>2. HoldsToken(y) => y.sub # s
      BY <1>1, <2>2, <3>1 DEF IInv, OneToken
    <3> QED
      BY <1>1, <1>7, <3>1, <3>2 DEF WorkerLedger, UpToDate, Accounts, Truthful
  <2> QED
    BY <2>1, <2>2
<1>14. ASSUME NEW t \in Subtask, Done(entry'.status[t])
       PROVE  Truthful(entry.status[t], t)'
  <2>1. t # s /\ Truthful(entry.status[t], t)
    BY <1>1, <1>2, <1>14 DEF LedgerInv
  <2> QED
    BY <1>1, <1>7, <2>1 DEF Truthful
<1>15. \A t \in Subtask : Done(entry.status[t])' => Truthful(entry.status[t], t)'
  BY <1>14 DEF Done
<1> QED
  BY <1>12, <1>13, <1>15 DEF LedgerInv

\* The ledger holds when the subtasks have just been queued.
LEMMA InitOpensLedger == Init => LedgerInv
<1> SUFFICES ASSUME Init PROVE LedgerInv
  OBVIOUS
<1>1. \A s \in Subtask : entry.status[s] = NewStatus
  BY DEF Init
<1>2. \A s \in Subtask : Cardinality(Mailed(s)) = 0
  <2>1. \A s \in Subtask : Mailed(s) = {}
    BY DEF Init, Mailed
  <2> QED
    BY <2>1, FS_EmptySet
<1>3. /\ NewStatus.attempted = 0 /\ NewStatus.succeeded = 0
      /\ NewStatus.skipped = 0 /\ NewStatus.retried_nomax = 0
      /\ NewStatus.retried_withmax = 0 /\ ~Done(NewStatus)
      /\ get_retry_count(NewStatus) = 0
  BY DEF NewStatus, get_retry_count, Done, READY_STATES
<1>4. Cardinality(Recipient) \in Nat
  BY ListLength
<1>5. ASSUME NEW m \in queue
      PROVE  MessageLedger(m)
  <2>1. /\ m.sub \in Subtask /\ m.to_list = Recipient
        /\ m.status = NewStatus /\ m.retries = 0
    BY DEF Init
  <2> QED
    BY <1>1, <1>2, <1>3, <1>4, <2>1, RetryAssumption
       DEF MessageLedger, UpToDate, Accounts, Counts
<1>6. \A w \in Worker : WorkerLedger(worker[w])
  BY NoToken DEF Init
<1>7. \A s \in Subtask : ~Done(entry.status[s])
  BY <1>1, <1>3
<1> QED
  BY <1>5, <1>6, <1>7 DEF LedgerInv

\* Every step keeps the ledger.
LEMMA NextKeepsLedger ==
  ASSUME IInv, LedgerInv, [Next]_vars
  PROVE  LedgerInv'
<1>1. ASSUME NEW w \in Worker, Step(w)
      PROVE  LedgerInv'
  BY <1>1, StartKeepsLedger, LoopKeepsLedger, EndKeepsLedger,
     DeliverKeepsLedger, RetryKeepsLedger, CommitKeepsLedger, MailKeepsLedger
     DEF Step
<1>2. ASSUME NEW w \in Worker, UpdateFails(w) \/ WorkerDies(w)
      PROVE  LedgerInv'
  BY <1>2, EndKeepsLedger
<1>3. CASE UNCHANGED <<entry, queue, sent, worker>>
  <2>1. \A s : Mailed(s)' = Mailed(s)
    BY <1>3 DEF Mailed
  <2>2. \A m \in queue' : MessageLedger(m)'
    BY <1>3, <2>1 DEF LedgerInv, MessageLedger, UpToDate, Accounts
  <2>3. ASSUME NEW v \in Worker
        PROVE  WorkerLedger(worker[v])'
    <3> DEFINE x == worker'[v]
    <3>1. WorkerLedger(x)
      BY <1>3 DEF LedgerInv
    <3> QED
      BY <1>3, <2>1, <3>1 DEF WorkerLedger, UpToDate, Accounts, Truthful
  <2>4. \A s \in Subtask : Done(entry.status[s])' => Truthful(entry.status[s], s)'
    BY <1>3, <2>1 DEF LedgerInv, Truthful
  <2> QED
    BY <2>2, <2>3, <2>4 DEF LedgerInv
<1>4. ASSUME NEW s \in Subtask, LockExpires(s)
      PROVE  LedgerInv'
  BY <1>3, <1>4 DEF LockExpires
<1> QED
  BY <1>1, <1>2, <1>3, <1>4 DEF Next, vars

-----------------------------------------------------------------------------
(* What the ledger shows.                                                  *)

\* Every message, worker and row agrees with the mails that were sent.
THEOREM LedgerHolds == Spec => []LedgerInv
<1>1. IInv /\ LedgerInv /\ [Next]_vars => LedgerInv'
  BY NextKeepsLedger
<1> QED
  BY <1>1, InitOpensLedger, InvariantHolds, PTL DEF Spec

\* A finished subtask has reported as succeeded just the emails that were
\* sent, whatever attempts, workers and failed updates it took; it accounts
\* for every recipient, and for none twice unless it failed.
THEOREM ReportsAreTrue == Spec => []ReportIsTruthful
<1>1. LedgerInv => ReportIsTruthful
  BY DEF LedgerInv, ReportIsTruthful, Truthful, Mailed
<1> QED
  BY <1>1, LedgerHolds, PTL

\* No message exceeds the maximum of either kind of retry, although celery
\* and _submit_for_retry only compare sums of the two.
THEOREM EachKindIsLimited == Spec => []RetriesWithinTheirKind
<1>1. LedgerInv => RetriesWithinTheirKind
  BY DEF LedgerInv, RetriesWithinTheirKind, MessageLedger, Counts
<1> QED
  BY <1>1, LedgerHolds, PTL

\* No late update takes back a retry that the row has recorded.
THEOREM RowKeepsRetries == Spec => RetriesNeverRegress
<1> DEFINE Kept == \A s \in Subtask : get_retry_count(entry.status[s]) <=
                                        get_retry_count(entry'.status[s])
<1>1. ASSUME IInv, LedgerInv, [Next]_vars
      PROVE  Kept
  <2>1. \A s \in Subtask : get_retry_count(entry.status[s]) \in Nat
    BY <1>1, StatusNumbers DEF IInv, TypeOK, EntryType
  <2>2. ASSUME NEW w \in Worker, UpdateCommits(w)
        PROVE  Kept
    <3>1. HoldsToken(worker[w])
      BY <2>2 DEF UpdateCommits, At, HoldsToken
    <3>2. UpToDate(worker[w].status, worker[w].sub)
      BY <1>1, <3>1, LedgerFacts DEF WorkerLedger
    <3>3. \A t \in Subtask : entry'.status[t] = IF t = worker[w].sub
                                                THEN worker[w].status
                                                ELSE entry.status[t]
      BY <1>1, <2>2, CommitChanges DEF IInv, TypeOK, EntryType
    <3> QED
      BY <2>1, <3>2, <3>3 DEF UpToDate
  <2>3. ASSUME NEW w \in Worker, EmailSent(w)
        PROVE  Kept
    BY <2>1, <2>3 DEF EmailSent
  <2>4. CASE UNCHANGED <<entry, sent>>
    BY <2>1, <2>4
  <2> QED
    BY <1>1, <2>2, <2>3, <2>4, VisibleSteps
<1> QED
  BY <1>1, InvariantHolds, LedgerHolds, PTL DEF Spec, RetriesNeverRegress

-----------------------------------------------------------------------------
(* The report adds up the finished subtasks.                               *)

\* The sum of one counter over a set of statuses.
Total(st, c, D) == MapThenSumSet(LAMBDA s : st[s][c], D)

\* It is the sum of a function.
LEMMA FieldSum ==
  ASSUME NEW st, NEW c, NEW D
  PROVE  Total(st, c, D) = SumOver([s \in D |-> st[s][c]], D)
<1> DEFINE f == [s \in D |-> st[s][c]]
           A(g) == g = [s \in SUBSET D |-> IF s = {} THEN 0
                                           ELSE st[Picked(s)][c] + g[Rest(s)]]
<1>1. ASSUME NEW g
      PROVE  A(g) <=> AddsUp(g, f, D)
  <2>1. ASSUME NEW s \in SUBSET D, s # {}
        PROVE  f[Picked(s)] = st[Picked(s)][c]
    BY <2>1, RestSmaller
  <2> HIDE DEF f
  <2> QED
    BY <2>1 DEF AddsUp
<1> HIDE DEF f
<1>2. (CHOOSE g : A(g)) = CHOOSE g : AddsUp(g, f, D)
  <2> HIDE DEF A
  <2> QED
    BY <1>1, Zenon
<1>3. Total(st, c, D) = (CHOOSE g : A(g))[D]
  BY DEF Total, MapThenSumSet, MapThenFoldSet, Picked, Rest
<1>4. Total(st, c, D) = Sums(f, D)[D]
  BY <1>2, <1>3 DEF Sums
<1> QED
  BY <1>4, SumOverIsSums DEF f

\* The subtasks that are over.
Finished(st) == {s \in DOMAIN st : Done(st[s])}

\* What OutputAddsUpFinished says, in terms of Total.
LEMMA ReportTotals ==
  OutputAddsUpFinished <=>
    \A c \in OutputCounter :
      entry.output[c] = Total(entry.status, c, Finished(entry.status))
BY DEF OutputAddsUpFinished, Total, Finished

\* When a status that was not among those of D joins them, the sum grows by
\* its counter.
LEMMA SumGrows ==
  ASSUME NEW st \in [Subtask -> Status], NEW x \in Subtask, NEW new \in Status,
         NEW D \in SUBSET Subtask, x \notin D, NEW c \in OutputCounter
  PROVE  LET st2 == [st EXCEPT ![x] = new] IN
           Total(st2, c, D \cup {x}) = Total(st, c, D) + new[c]
<1> DEFINE st2 == [st EXCEPT ![x] = new]
           E == D \cup {x}
           f == [s \in D |-> st[s][c]]
           g == [s \in E |-> st2[s][c]]
<1>1. IsFiniteSet(D) /\ IsFiniteSet(E)
  BY SubtaskAssumption, FS_Subset
<1>2. \A s \in E : g[s] \in Nat
  BY DEF Status, OutputCounter
<1>3. \A s \in D : f[s] = g[s]
  OBVIOUS
<1>4. g[x] = new[c]
  OBVIOUS
<1> HIDE DEF f, g
<1>5. SumOver(g, E) = SumOver(g, D) + new[c]
  BY <1>1, <1>2, <1>4, SumInsert
<1>6. SumOver(f, D) = SumOver(g, D)
  BY <1>1, <1>3, SumSame
<1>7. Total(st, c, D) = SumOver(f, D)
  BY FieldSum DEF f
<1>8. Total(st2, c, E) = SumOver(g, E)
  BY FieldSum DEF g
<1> QED
  BY <1>5, <1>6, <1>7, <1>8

\* Only the commit of a finished subtask changes the report, by its counters.
LEMMA CommitAddsUp ==
  ASSUME IInv, OutputAddsUpFinished, NEW w \in Worker, UpdateCommits(w)
  PROVE  \A c \in OutputCounter :
           entry'.output[c] = Total(entry'.status, c, Finished(entry'.status))
<1> PICK s \in Subtask, st \in Status : s = worker[w].sub /\ st = worker[w].status
  BY WorkerFacts
<1>1. /\ entry' = Recorded(s, st)
      /\ ~Done(entry.status[s])
      /\ entry'.status = [entry.status EXCEPT ![s] = st]
  BY CommitChanges DEF UpdateCommits
<1>2. PICK f \in [Subtask -> Status], g \in [Subtask -> Status] :
        /\ f = entry.status /\ g = entry'.status
        /\ g = [f EXCEPT ![s] = st]
  BY <1>1 DEF IInv, TypeOK, EntryType
<1>3. s \notin Finished(f) /\ Finished(f) \in SUBSET Subtask
  BY <1>1, <1>2 DEF Finished
<1>4. ASSUME NEW c \in OutputCounter
      PROVE  entry'.output[c] = Total(g, c, Finished(g))
  <2>1. entry.output[c] = Total(f, c, Finished(f))
    BY <1>2, ReportTotals
  <2>2. CASE Done(st)
    <3>1. entry'.output[c] = entry.output[c] + st[c]
      BY <1>1, <2>2 DEF Recorded, Added, OutputCounter
    <3>2. Finished(g) = Finished(f) \cup {s}
      BY <1>2, <2>2 DEF Finished
    <3>3. Total(g, c, Finished(f) \cup {s}) = Total(f, c, Finished(f)) + st[c]
      BY <1>2, <1>3, SumGrows
    <3> QED
      BY <2>1, <3>1, <3>2, <3>3
  <2>3. CASE ~Done(st)
    <3>1. entry'.output[c] = entry.output[c]
      BY <1>1, <2>3 DEF Recorded
    <3>2. Finished(g) = Finished(f)
      BY <1>1, <1>2, <2>3 DEF Finished
    <3>3. [t \in Finished(f) |-> g[t][c]] = [t \in Finished(f) |-> f[t][c]]
      BY <1>2, <1>3
    <3>4. Total(g, c, Finished(f)) = Total(f, c, Finished(f))
      BY <3>3, FieldSum
    <3> QED
      BY <2>1, <3>1, <3>2, <3>4
  <2> QED
    BY <2>2, <2>3
<1> QED
  BY <1>2, <1>4

\* The report adds up the counters of the finished subtasks, each of them
\* once, for any number of subtasks, attempts and updates.
THEOREM ReportAddsUp == Spec => []OutputAddsUpFinished
<1> DEFINE AddsUpNow ==
             \A c \in OutputCounter :
               entry.output[c] = Total(entry.status, c, Finished(entry.status))
<1>1. ASSUME Init
      PROVE  AddsUpNow
  <2>1. Finished(entry.status) = {}
    BY <1>1 DEF Init, NewStatus, Finished, Done, READY_STATES
  <2>2. \A c \in OutputCounter : entry.output[c] = 0
    BY <1>1 DEF Init, NoOutput, OutputCounter
  <2>3. \A c : Total(entry.status, c, {}) = 0
    BY FieldSum, SumEmpty
  <2> QED
    BY <2>1, <2>2, <2>3
<1>2. ASSUME IInv, AddsUpNow, [Next]_vars
      PROVE  AddsUpNow'
  <2>1. CASE entry' = entry
    BY <1>2, <2>1
  <2>2. ASSUME NEW w \in Worker, EmailSent(w)
        PROVE  entry' = entry
    BY <2>2 DEF EmailSent
  <2>3. OutputAddsUpFinished
    BY <1>2, ReportTotals
  <2>4. ASSUME NEW w \in Worker, UpdateCommits(w)
        PROVE  AddsUpNow'
    BY <1>2, <2>3, <2>4, CommitAddsUp
  <2> QED
    BY <1>2, <2>1, <2>2, <2>4, VisibleSteps
<1>3. AddsUpNow => OutputAddsUpFinished
  BY ReportTotals
<1> QED
  BY <1>1, <1>2, <1>3, InvariantHolds, PTL DEF Spec
=============================================================================
