------------------------------ MODULE Subtasks ------------------------------
(***************************************************************************)
(* The subtasks of one bulk email: the send_course_email celery task       *)
(* (lms/djangoapps/bulk_email/tasks.py) run by several workers against one *)
(* InstructorTask row and one cache, with the bookkeeping of               *)
(* lms/djangoapps/instructor_task/subtasks.py.                             *)
(*                                                                         *)
(* A worker's step is one access to something shared: a read or an update  *)
(* of the row, an add or a delete of the lock in the cache, an email       *)
(* handed to the mail server, a message published to the broker.           *)
(***************************************************************************)
EXTENDS SubtaskStatus, FiniteSets, FiniteSetsExt

CONSTANTS
  Subtask,        \* the subtask ids that queue_subtasks_for_query generated
  Recipient,      \* the recipients of one subtask, no two with one address
  Worker,         \* celery worker processes
  MaxRetries,     \* BULK_EMAIL_MAX_RETRIES
  RetryCap,       \* BULK_EMAIL_INFINITE_RETRY_CAP
  MaxDbTries,     \* MAX_DATABASE_LOCK_RETRIES
  MaxRedeliver    \* bound on the messages the broker delivers twice

ASSUME SubtaskAssumption   == IsFiniteSet(Subtask) /\ Subtask # {}
ASSUME RecipientAssumption == IsFiniteSet(Recipient)
ASSUME RetryAssumption     == MaxRetries \in Nat /\ RetryCap \in Nat
ASSUME DbTriesAssumption   == MaxDbTries \in Nat \ {0}
ASSUME RedeliverAssumption == MaxRedeliver \in Nat

VARIABLES
  entry,        \* the InstructorTask row
  queue,        \* messages waiting at the broker (a set: order is not kept)
  locked,       \* the subtasks whose "subtask-<id>" key is in the cache
  worker,       \* what each worker is doing
  sent,         \* history: how often the mail server accepted each email
  redelivered   \* how many messages the broker delivered a second time

vars == <<entry, queue, locked, worker, sent, redelivered>>

-----------------------------------------------------------------------------
(* State.                                                                  *)

\* InstructorTask: task_state, the JSON of `subtasks' (total, succeeded,
\* failed, status by id; no id when the field is empty) and of `task_output'.
NoOutput == [kind |-> "none", attempted |-> 0, succeeded |-> 0, failed |-> 0,
             skipped |-> 0]

\* A message: the arguments of send_course_email that differ between calls,
\* and the request.retries that celery keeps in the message.
Message == [sub : Subtask, to_list : SUBSET Recipient, status : Status,
            retries : Nat]

\* Program counters, in the order in which a worker passes through them.
PC == {"idle", "check", "lock", "filter", "open", "send", "update", "release",
       "unwind", "retry", "close"}

\* tries: failed attempts of the current update; releases: the `finally'
\* clauses of update_subtask_status still to run, after a commit ("release")
\* or an exception ("unwind"); limit: which maximum the pending retry has,
\* skip_retry_max in the code.
WorkerState == [pc : PC, sub : Subtask, to_list : SUBSET Recipient,
                num_to_send : Nat, status : Status, retries : Nat,
                tries : Nat, releases : Nat,
                limit : {"withmax", "nomax"}]

Idle == [pc |-> "idle", sub |-> CHOOSE s \in Subtask : TRUE, to_list |-> {},
         num_to_send |-> 0, status |-> NewStatus, retries |-> 0, tries |-> 0,
         releases |-> 0, limit |-> "withmax"]

Init ==
  /\ entry = [task_state |-> "PROGRESS", total |-> Cardinality(Subtask),
              succeeded |-> 0, failed |-> 0,
              status |-> [s \in Subtask |-> NewStatus],
              output |-> [NoOutput EXCEPT !.kind = "progress"]]
  /\ queue = {[sub |-> s, to_list |-> Recipient, status |-> NewStatus,
               retries |-> 0] : s \in Subtask}
  /\ locked = {}
  /\ worker = [w \in Worker |-> Idle]
  /\ sent = [s \in Subtask |-> [r \in Recipient |-> 0]]
  /\ redelivered = 0

\* The recipient at the end of the list; the list's order is arbitrary.
Last(toList) == CHOOSE r \in toList : TRUE

Done(st) == st.state \in READY_STATES

\* Worker w is at p, and becomes wk.
At(w, p) == worker[w].pc = p
Becomes(w, wk) == worker' = [worker EXCEPT ![w] = wk]

-----------------------------------------------------------------------------
(* Starting: celery hands over a message; check_subtask_is_valid.          *)

Begun(m) == [Idle EXCEPT !.pc = "check", !.sub = m.sub, !.to_list = m.to_list,
               !.num_to_send = Cardinality(m.to_list), !.status = m.status,
               !.retries = m.retries]

Deliver(w) ==
  /\ At(w, "idle")
  /\ \E m \in queue : queue' = queue \ {m} /\ Becomes(w, Begun(m))
  /\ UNCHANGED <<entry, locked, sent, redelivered>>

\* Mutant: a retry is rejected when the row knows of as many retries.
RejectedEqual(wk) ==
  \/ wk.sub \notin DOMAIN entry.status
  \/ Done(entry.status[wk.sub])
  \/ /\ entry.status[wk.sub].state = "RETRY"
     /\ get_retry_count(wk.status) <= get_retry_count(entry.status[wk.sub])

\* The reasons for which check_subtask_is_valid raises before it tries to
\* lock: the row has no subtasks or does not know this one, the subtask is
\* over, or it has been retried more often than this message knows of.
Rejected(wk) ==
  \/ wk.sub \notin DOMAIN entry.status
  \/ Done(entry.status[wk.sub])
  \/ /\ entry.status[wk.sub].state = "RETRY"
     /\ get_retry_count(wk.status) < get_retry_count(entry.status[wk.sub])

CheckRow(w) ==
  /\ At(w, "check")
  /\ Becomes(w, IF Rejected(worker[w]) THEN Idle
                ELSE [worker[w] EXCEPT !.pc = "lock"])
  /\ UNCHANGED <<entry, queue, locked, sent, redelivered>>

\* Mutant: the result of cache.add is ignored.
AcquireLockAnyway(w) ==
  /\ At(w, "lock")
  /\ Becomes(w, [worker[w] EXCEPT !.pc = "filter"])
  /\ locked' = locked \cup {worker[w].sub}
  /\ UNCHANGED <<entry, queue, sent, redelivered>>

\* cache.add: it fails when the key is there.
AcquireLock(w) ==
  /\ At(w, "lock")
  /\ Becomes(w, IF worker[w].sub \in locked THEN Idle
                ELSE [worker[w] EXCEPT !.pc = "filter"])
  /\ locked' = locked \cup {worker[w].sub}
  /\ UNCHANGED <<entry, queue, sent, redelivered>>

-----------------------------------------------------------------------------
(* Sending: _send_course_email.                                            *)

\* The last resort of send_course_email: every recipient the call started
\* with is counted as failed, and the failure is written to the row.
FailedUnexpectedly(wk) ==
  [wk EXCEPT !.pc = "update", !.tries = 0,
     !.status = Increment(wk.status, Failed(wk.num_to_send), "FAILURE")]

\* Optouts are filtered only in the first run of the subtask.
Optouts(wk) == IF get_retry_count(wk.status) = 0 THEN SUBSET wk.to_list ELSE {{}}
Filtered(wk, opt) ==
  [wk EXCEPT !.pc = "open", !.to_list = @ \ opt,
     !.status = Increment(@, Skipped(Cardinality(opt)), @.state)]

FilterOptouts(w) ==
  /\ At(w, "filter")
  /\ \E opt \in Optouts(worker[w]) : Becomes(w, Filtered(worker[w], opt))
  /\ UNCHANGED <<entry, queue, locked, sent, redelivered>>

\* The email, the optouts, the sender or the template cannot be loaded.
PrepareRaises(w) ==
  /\ At(w, "filter")
  /\ \E opt \in Optouts(worker[w]) :
       Becomes(w, FailedUnexpectedly(Filtered(worker[w], opt)))
  /\ UNCHANGED <<entry, queue, locked, sent, redelivered>>

OpenConnection(w) ==
  /\ At(w, "open")
  /\ Becomes(w, [worker[w] EXCEPT !.pc = "send"])
  /\ UNCHANGED <<entry, queue, locked, sent, redelivered>>

\* Mutant: the recipient is counted and left on the list.
PoppedNever(wk, d) == [wk EXCEPT !.status = Increment(@, d, @.state)]

\* The last recipient is popped, and counted by d.
Popped(wk, d) == [wk EXCEPT !.to_list = @ \ {Last(@)},
                    !.status = Increment(@, d, @.state)]

\* send_messages returns: the email is sent and its recipient popped.
EmailSent(w) ==
  /\ At(w, "send") /\ worker[w].to_list # {}
  /\ Becomes(w, Popped(worker[w], Succeeded(1)))
  /\ sent' = [sent EXCEPT ![worker[w].sub][Last(worker[w].to_list)] = @ + 1]
  /\ UNCHANGED <<entry, queue, locked, redelivered>>

\* A non-ascii address, an SMTP 5xx or one of SINGLE_EMAIL_FAILURE_ERRORS:
\* this recipient is popped as failed and the loop goes on.
EmailFails(w) ==
  /\ At(w, "send") /\ worker[w].to_list # {}
  /\ Becomes(w, Popped(worker[w], Failed(1)))
  /\ UNCHANGED <<entry, queue, locked, sent, redelivered>>

\* The worker is about to record that it will be retried, with the
\* unprocessed recipients still on its list.
RetryPending(wk, d, limit) ==
  [wk EXCEPT !.pc = "update", !.tries = 0, !.limit = limit,
     !.status = Increment(@, d, "RETRY")]

\* INFINITE_RETRY_ERRORS: an SMTP 4xx, or SES's sending rate is exceeded.
RateLimited(w) ==
  /\ At(w, "send") /\ worker[w].to_list # {}
  /\ Becomes(w, RetryPending(worker[w], RetriedNoMax, "nomax"))
  /\ UNCHANGED <<entry, queue, locked, sent, redelivered>>

\* LIMITED_RETRY_ERRORS and every exception that is not listed, when the
\* connection is opened or an email is rendered or sent.
TransientError(w) ==
  /\ At(w, "open") \/ (At(w, "send") /\ worker[w].to_list # {})
  /\ Becomes(w, RetryPending(worker[w], RetriedWithMax, "withmax"))
  /\ UNCHANGED <<entry, queue, locked, sent, redelivered>>

\* Give up: the recipients still on the list are counted as failed.
GivenUp(wk) == [wk EXCEPT !.pc = "close",
                  !.status = Increment(@, Failed(Cardinality(wk.to_list)),
                                       "FAILURE")]

\* BULK_EMAIL_FAILURE_ERRORS.
BulkFailure(w) ==
  /\ At(w, "open") \/ (At(w, "send") /\ worker[w].to_list # {})
  /\ Becomes(w, GivenUp(worker[w]))
  /\ UNCHANGED <<entry, queue, locked, sent, redelivered>>

AllProcessed(w) ==
  /\ At(w, "send") /\ worker[w].to_list = {}
  /\ Becomes(w, [worker[w] EXCEPT !.pc = "close",
                   !.status = Increment(@, Nothing, "SUCCESS")])
  /\ UNCHANGED <<entry, queue, locked, sent, redelivered>>

-----------------------------------------------------------------------------
(* Recording: update_subtask_status and _update_subtask_status.            *)

Updatable(s) == s \in DOMAIN entry.status /\ entry.output.kind = "progress"

\* The counters of a finished subtask are added to those of task_output.
Added(output, st) ==
  [kind      |-> output.kind,
   attempted |-> output.attempted + st.attempted,
   succeeded |-> output.succeeded + st.succeeded,
   failed    |-> output.failed + st.failed,
   skipped   |-> output.skipped + st.skipped]

\* Mutants of Recorded: every update is added to the report, ...
RecordedAlways(s, st) ==
  LET succeeded == entry.succeeded + (IF st.state = "SUCCESS" THEN 1 ELSE 0)
      failed == entry.failed +
                  (IF Done(st) /\ st.state # "SUCCESS" THEN 1 ELSE 0)
  IN [entry EXCEPT
        !.task_state = IF entry.total <= succeeded + failed THEN "SUCCESS" ELSE @,
        !.succeeded = succeeded, !.failed = failed,
        !.status[s] = st, !.output = Added(@, st)]

\* ... a retry counts as a failure, ...
RecordedRetry(s, st) ==
  LET succeeded == entry.succeeded + (IF st.state = "SUCCESS" THEN 1 ELSE 0)
      failed == entry.failed + (IF st.state # "SUCCESS" THEN 1 ELSE 0)
  IN [entry EXCEPT
        !.task_state = IF entry.total <= succeeded + failed THEN "SUCCESS" ELSE @,
        !.succeeded = succeeded, !.failed = failed,
        !.status[s] = st, !.output = IF Done(st) THEN Added(@, st) ELSE @]

\* ... failed subtasks are not subtracted from those that remain.
RecordedUnfinished(s, st) ==
  LET succeeded == entry.succeeded + (IF st.state = "SUCCESS" THEN 1 ELSE 0)
      failed == entry.failed +
                  (IF Done(st) /\ st.state # "SUCCESS" THEN 1 ELSE 0)
  IN [entry EXCEPT
        !.task_state = IF entry.total <= succeeded THEN "SUCCESS" ELSE @,
        !.succeeded = succeeded, !.failed = failed,
        !.status[s] = st, !.output = IF Done(st) THEN Added(@, st) ELSE @]

\* The row after the transaction of _update_subtask_status: the counters grow
\* only when the subtask is over, and the task becomes SUCCESS when no
\* subtask remains.
Recorded(s, st) ==
  LET succeeded == entry.succeeded + (IF st.state = "SUCCESS" THEN 1 ELSE 0)
      failed == entry.failed +
                  (IF Done(st) /\ st.state # "SUCCESS" THEN 1 ELSE 0)
      remaining == entry.total - succeeded - failed
  IN [task_state |-> IF remaining <= 0 THEN "SUCCESS" ELSE entry.task_state,
      total      |-> entry.total,
      succeeded  |-> succeeded,
      failed     |-> failed,
      status     |-> [entry.status EXCEPT ![s] = st],
      output     |-> IF Done(st) THEN Added(entry.output, st) ELSE entry.output]

\* Mutant: the lock of the outermost call is not counted.
UpdateCommitsShort(w) ==
  /\ At(w, "update") /\ Updatable(worker[w].sub)
  /\ entry' = Recorded(worker[w].sub, worker[w].status)
  /\ Becomes(w, [worker[w] EXCEPT !.pc = "release",
                   !.releases = worker[w].tries])
  /\ UNCHANGED <<queue, locked, sent, redelivered>>

UpdateCommits(w) ==
  /\ At(w, "update") /\ Updatable(worker[w].sub)
  /\ entry' = Recorded(worker[w].sub, worker[w].status)
  /\ Becomes(w, [worker[w] EXCEPT !.pc = "release",
                   !.releases = worker[w].tries + 1])
  /\ UNCHANGED <<queue, locked, sent, redelivered>>

\* DatabaseError: update_subtask_status calls itself again, up to
\* MaxDbTries calls in all, and then lets the error out.
UpdateFails(w) ==
  /\ At(w, "update")
  /\ LET tries == worker[w].tries + 1 IN
       Becomes(w, IF tries < MaxDbTries
                  THEN [worker[w] EXCEPT !.tries = tries]
                  ELSE [worker[w] EXCEPT !.pc = "unwind", !.releases = tries])
  /\ UNCHANGED <<entry, queue, locked, sent, redelivered>>

\* The row does not know the subtask (ValueError), or its task_output is not
\* a progress report (KeyError): neither is a DatabaseError, no second try.
\* It takes a parent that writes the row again: see EmailDelegation.
UpdateRaises(w) ==
  /\ At(w, "update") /\ ~Updatable(worker[w].sub)
  /\ Becomes(w, [worker[w] EXCEPT !.pc = "unwind",
                   !.releases = worker[w].tries + 1])
  /\ UNCHANGED <<entry, queue, locked, sent, redelivered>>

\* What follows an update: the retry it announced; or, if it raised on the
\* way to a retry, the last resort; or the end of the subtask.
AfterUpdate(wk) ==
  IF wk.status.state # "RETRY" THEN Idle
  ELSE IF wk.pc = "unwind" THEN FailedUnexpectedly(wk)
  ELSE [wk EXCEPT !.pc = "retry"]

\* One `finally' clause: each level of the recursion deletes the lock.
ReleaseLock(w) ==
  /\ At(w, "release") \/ At(w, "unwind")
  /\ locked' = locked \ {worker[w].sub}
  /\ LET wk == [worker[w] EXCEPT !.releases = @ - 1] IN
       Becomes(w, IF wk.releases > 0 THEN wk ELSE AfterUpdate(wk))
  /\ UNCHANGED <<entry, queue, sent, redelivered>>

-----------------------------------------------------------------------------
(* Retrying: _submit_for_retry, and the end of _send_course_email.         *)

\* Mutant: the cap of the unlimited kind is forgotten.
RetryLimitUncapped(wk) == MaxRetries + wk.status.retried_nomax

\* The limit handed to retry(): each kind of retry is to be limited by its
\* own maximum, so the retries of the other kind are added to it.
RetryLimit(wk) ==
  LET limit == MaxRetries + wk.status.retried_nomax
      cap   == RetryCap + wk.status.retried_withmax
  IN IF wk.limit = "nomax" /\ cap < limit THEN cap ELSE limit

\* Mutant: the retry starts over with all recipients.
RetryMessageAll(wk) == [sub |-> wk.sub, to_list |-> Recipient,
                        status |-> wk.status, retries |-> wk.retries + 1]

\* The message that retry() publishes.
RetryMessage(wk) == [sub |-> wk.sub, to_list |-> wk.to_list,
                     status |-> wk.status, retries |-> wk.retries + 1]

\* Mutant: the RetryTaskError that retry() raises is taken for a failure.
RetryPublishedFails(w) ==
  /\ At(w, "retry")
  /\ worker[w].retries + 1 <= RetryLimit(worker[w])
  /\ queue' = queue \cup {RetryMessage(worker[w])}
  /\ Becomes(w, GivenUp(worker[w]))
  /\ UNCHANGED <<entry, locked, sent, redelivered>>

RetryPublished(w) ==
  /\ At(w, "retry")
  /\ worker[w].retries + 1 <= RetryLimit(worker[w])
  /\ queue' = queue \cup {RetryMessage(worker[w])}
  /\ Becomes(w, [worker[w] EXCEPT !.pc = "close"])
  /\ UNCHANGED <<entry, locked, sent, redelivered>>

\* The limit is exceeded, or publishing raises.
RetryFails(w) ==
  /\ At(w, "retry")
  /\ Becomes(w, GivenUp(worker[w]))
  /\ UNCHANGED <<entry, queue, locked, sent, redelivered>>

\* Mutant: the status is recorded again when the subtask is being retried.
CloseAndRecord(w) ==
  /\ At(w, "close")
  /\ Becomes(w, [worker[w] EXCEPT !.pc = "update", !.tries = 0])
  /\ UNCHANGED <<entry, queue, locked, sent, redelivered>>

\* connection.close(); then the result is recorded, unless the subtask is
\* being retried: that was recorded before the retry.
CloseConnection(w) ==
  /\ At(w, "close")
  /\ Becomes(w, IF worker[w].status.state = "RETRY" THEN Idle
                ELSE [worker[w] EXCEPT !.pc = "update", !.tries = 0])
  /\ UNCHANGED <<entry, queue, locked, sent, redelivered>>

-----------------------------------------------------------------------------
(* The environment.                                                        *)

\* The lock's key expires (SUBTASK_LOCK_EXPIRE) or the cache evicts it.
LockExpires(s) ==
  /\ s \in locked
  /\ locked' = locked \ {s}
  /\ UNCHANGED <<entry, queue, worker, sent, redelivered>>

\* A worker process is killed; its message was acknowledged on delivery.
WorkerDies(w) ==
  /\ ~At(w, "idle")
  /\ Becomes(w, Idle)
  /\ UNCHANGED <<entry, queue, locked, sent, redelivered>>

\* connection.close() raises, as SMTP's does when QUIT is refused.
CloseRaises(w) ==
  /\ At(w, "close")
  /\ Becomes(w, FailedUnexpectedly(worker[w]))
  /\ UNCHANGED <<entry, queue, locked, sent, redelivered>>

\* The broker loses the acknowledgement and will deliver the message again.
DeliverTwice(w) ==
  /\ At(w, "idle") /\ redelivered < MaxRedeliver
  /\ \E m \in queue : Becomes(w, Begun(m))
  /\ redelivered' = redelivered + 1
  /\ UNCHANGED <<entry, queue, locked, sent>>

-----------------------------------------------------------------------------
(* The specifications.                                                     *)

\* The steps of a worker that meets no fault of the database.
Step(w) ==
  \/ Deliver(w)        \/ CheckRow(w)       \/ AcquireLock(w)
  \/ FilterOptouts(w)  \/ PrepareRaises(w)  \/ OpenConnection(w)
  \/ EmailSent(w)      \/ EmailFails(w)     \/ RateLimited(w)
  \/ TransientError(w) \/ BulkFailure(w)    \/ AllProcessed(w)
  \/ UpdateCommits(w)  \/ ReleaseLock(w)    \/ RetryPublished(w)
  \/ RetryFails(w)     \/ CloseConnection(w)

\* Every message is delivered once; the database, the cache and the workers
\* may fail at any time.
Next == \/ \E w \in Worker : Step(w) \/ UpdateFails(w) \/ WorkerDies(w)
        \/ \E s \in Subtask : LockExpires(s)

Spec == Init /\ [][Next]_vars

\* As Spec, and closing the connection may raise.
SpecClose == Init /\ [][Next \/ \E w \in Worker : CloseRaises(w)]_vars

\* The broker may deliver a message twice; the lock outlives the subtask and
\* the database is not contended.
SpecTwice == Init /\ [][\E w \in Worker : \/ Step(w) \/ WorkerDies(w)
                                          \/ DeliverTwice(w)]_vars

\* As SpecTwice, and an update of the row may have to be tried again.
SpecTwiceDb == Init /\ [][\E w \in Worker : \/ Step(w) \/ UpdateFails(w)
                                            \/ DeliverTwice(w)]_vars

-----------------------------------------------------------------------------
(* Properties.                                                             *)

EntryType == [task_state : {"QUEUING", "PROGRESS", "SUCCESS", "FAILURE"},
              total : Nat, succeeded : Nat, failed : Nat,
              status : [Subtask -> Status],
              output : [kind : {"progress"}, attempted : Nat, succeeded : Nat,
                        failed : Nat, skipped : Nat]]

\* The type of every variable.
TypeOK ==
  /\ entry \in EntryType
  /\ queue \in SUBSET Message
  /\ locked \in SUBSET Subtask
  /\ worker \in [Worker -> WorkerState]
  /\ sent \in [Subtask -> [Recipient -> Nat]]
  /\ redelivered \in Nat

\* No recipient is mailed twice: what a retry carries on with is exactly what
\* the attempts before it left (tasks.py pops a recipient once processed).
NoDuplicateMail == \A s \in Subtask, r \in Recipient : sent[s][r] <= 1

\* The row says SUCCESS exactly when every subtask it knows is over: it is
\* neither early nor forgotten, whichever subtask finishes last.
SuccessMeansAllDone ==
  entry.task_state = "SUCCESS"
    <=> \A s \in DOMAIN entry.status : Done(entry.status[s])

InState(state) == {s \in DOMAIN entry.status : entry.status[s].state = state}

\* The counters of finished subtasks agree with the statuses next to them,
\* which the code does not scan (subtasks.py:558): none is counted twice.
CountersMatchStatuses ==
  /\ entry.succeeded = Cardinality(InState("SUCCESS"))
  /\ entry.failed = Cardinality(InState("FAILURE"))

\* task_output, the progress report users see, adds up the counters of the
\* finished subtasks, each of them once although most of them made several
\* updates while they were retried.
OutputAddsUpFinished ==
  \A c \in OutputCounter :
    entry.output[c] = MapThenSumSet(LAMBDA s : entry.status[s][c],
                        {s \in DOMAIN entry.status : Done(entry.status[s])})

\* A finished subtask has reported as succeeded just the emails that were
\* sent, however many attempts and workers it took; it accounts for every
\* recipient, and for none twice unless it failed unexpectedly.
ReportIsTruthful ==
  \A s \in Subtask :
    LET st == entry.status[s]
        mailed == {r \in Recipient : sent[s][r] > 0}
    IN Done(st) =>
         /\ st.succeeded = Cardinality(mailed)
         /\ st.attempted + st.skipped >= Cardinality(Recipient)
         /\ st.state = "SUCCESS" =>
              st.attempted + st.skipped = Cardinality(Recipient)

\* Each kind of retry is limited by its own maximum, although celery counts
\* them together in request.retries (tasks.py:777-790).
RetriesWithinTheirKind ==
  \A m \in queue : /\ m.status.retried_withmax <= MaxRetries
                   /\ m.status.retried_nomax <= RetryCap

\* "we want to prevent it from running again" (subtasks.py:402): no worker
\* processes the recipients of a subtask that is recorded as over.
CompletedNeverRuns ==
  \A w \in Worker : worker[w].pc \in {"filter", "open", "send"} =>
    ~Done(entry.status[worker[w].sub])

\* No two workers process the recipients of one subtask at the same time:
\* what the lock is for (subtasks.py:362).
OneWorkerPerSubtask ==
  \A v, w \in Worker :
    /\ worker[v].pc \in {"filter", "open", "send"}
    /\ worker[w].pc \in {"filter", "open", "send"}
    /\ worker[v].sub = worker[w].sub
    => v = w

\* What is recorded of a finished subtask is never overwritten, and a task
\* that is reported as SUCCESS stays so.
DoneIsFinal ==
  [][/\ \A s \in Subtask : Done(entry.status[s]) =>
                            entry'.status[s] = entry.status[s]
     /\ entry.task_state = "SUCCESS" => entry'.task_state = "SUCCESS"]_vars

\* The number of retries the row records of a subtask never goes back: no
\* late update of an earlier attempt overwrites that of a later one.
RetriesNeverRegress ==
  [][\A s \in Subtask : get_retry_count(entry.status[s]) <=
                         get_retry_count(entry'.status[s])]_vars

-----------------------------------------------------------------------------
(* The abstract specification that Spec implements.                        *)

Outcome == [s \in Subtask |-> IF Done(entry.status[s])
                              THEN entry.status[s].state ELSE "pending"]

Promise == INSTANCE BulkEmail
             WITH outcome <- Outcome, task_state <- entry.task_state

\* The subtasks keep the promise of a bulk email: mails and outcomes only
\* happen in the order, and as often, as BulkEmail allows.
KeepsPromise == Promise!Spec

-----------------------------------------------------------------------------
(* The inductive invariant of Spec.                                        *)

\* The right to work on a subtask is a token that is either in a message or
\* with one worker.  A worker has given it up once its retry is published
\* and once it has tried to record the end of the subtask.
HoldsToken(wk) ==
  /\ wk.pc # "idle"
  /\ ~(wk.pc = "close" /\ wk.status.state = "RETRY")
  /\ ~(wk.pc \in {"release", "unwind"} /\ Done(wk.status))

\* There is at most one token of each subtask.
OneToken ==
  /\ \A m, n \in queue : m.sub = n.sub => m = n
  /\ \A m \in queue, w \in Worker :
       HoldsToken(worker[w]) => worker[w].sub # m.sub
  /\ \A v, w \in Worker :
       /\ HoldsToken(worker[v])
       /\ HoldsToken(worker[w])
       /\ worker[v].sub = worker[w].sub
       => v = w

\* A subtask that is over has no token.
DoneHasNoToken ==
  /\ \A m \in queue : ~Done(entry.status[m.sub])
  /\ \A w \in Worker : HoldsToken(worker[w]) =>
                          ~Done(entry.status[worker[w].sub])

\* Whoever holds the token has yet to mail the recipients on its list.
ListedAreUnmailed ==
  /\ \A m \in queue : \A r \in m.to_list : sent[m.sub][r] = 0
  /\ \A w \in Worker : HoldsToken(worker[w]) =>
       \A r \in worker[w].to_list : sent[worker[w].sub][r] = 0

\* What the status and the counters of a worker can be at each step.
Consistent(wk) ==
  /\ wk.pc \in {"check", "lock", "filter", "open", "send"} => ~Done(wk.status)
  /\ wk.pc = "retry" => wk.status.state = "RETRY"
  /\ wk.pc \in {"update", "release", "unwind", "close"} =>
       wk.status.state # "QUEUING"
  /\ wk.pc \in {"release", "unwind"} => wk.releases > 0

WorkerConsistent ==
  /\ \A m \in queue : ~Done(m.status)
  /\ \A w \in Worker : Consistent(worker[w])

TotalsKnown == /\ entry.total = Cardinality(Subtask)
               /\ entry.task_state \in {"PROGRESS", "SUCCESS"}

IInv == /\ TypeOK
        /\ OneToken
        /\ DoneHasNoToken
        /\ ListedAreUnmailed
        /\ WorkerConsistent
        /\ TotalsKnown
        /\ CountersMatchStatuses
        /\ SuccessMeansAllDone
        /\ NoDuplicateMail
=============================================================================
