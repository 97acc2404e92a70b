# edX Platform (Juniper): specifications, model checks and proofs

This directory holds TLA+ specifications of core services of the platform in
`src/`, the TLC configurations that check them on small instances, and proofs
that TLAPS checks. `PROJECT.json` lists components, runs, the map from every
definition to the lines it stands for, hazards, findings and theorems.

- [The system](#the-system)
- [Modules](#modules)
- [Bulk email: state and actions](#bulk-email-state-and-actions)
- [LTI outcomes: state and actions](#lti-outcomes-state-and-actions)
- [Problems and sequences: state and actions](#problems-and-sequences-state-and-actions)
- [Course import: state and actions](#course-import-state-and-actions)
- [Video uploads: state and actions](#video-uploads-state-and-actions)
- [Runs, bounds and what they show](#runs-bounds-and-what-they-show)
- [What the code does not keep](#what-the-code-does-not-keep)
- [Proofs](#proofs)
- [What is not modelled](#what-is-not-modelled)
- [Plan](#plan)

## The system

The repository is a Django monolith (LMS and Studio) with celery workers, a
relational database, memcached, a message broker and MongoDB behind the
modulestore. Most of its 9000 files are views, templates, assets, tests and
translations. The parts with state machines and concurrency of their own:

| Component | State | Operations | Hard behaviour |
|---|---|---|---|
| Bulk email subtasks (`bulk_email/tasks.py`, `instructor_task/subtasks.py`) | the InstructorTask row (state, JSON of subtasks, report), the cache lock of each subtask, the celery message with the status object | check and lock, filter optouts, send, retry, update the row, release | several workers per row, duplicate deliveries, two kinds of retries, database errors in the middle, worker crashes |
| Parent task (`instructor_task/tasks_base.py`, `tasks_helper/runner.py`, `queue_subtasks_for_query`) | its in-memory copy of the row | mark as in progress, delegate, on_success, on_failure | the whole row is saved from copies while subtasks update it; the parent's message may be delivered again |
| InstructorTask submission and polling (`instructor_task/api_helper.py`) | the row, celery's result | reserve, submit, poll | check-then-create, a failed submission, a poll that races the worker |
| LTI outcomes (`lti_provider`) | version number of each graded assignment, scheduled tasks | score changed, send composite, send leaf | tasks that overtake each other, lost updates of the version |
| Problems and sequences of the courseware (`capa/display.js`, `sequence/display.js`, `capa_base.py`) | the page: shown problems, buttons, timeouts, the HTML each tab is rendered from; the server: state of each problem, submissions at the external grader | check, save, reset, poll, change the tab | callbacks of a problem that was rendered anew or left, one timeout id for all pollers, lost calls |
| Course import page (`import/views/import.js`, `factories/import.js`, `import_export.py`) | the page: state and stage, poller, cookie; the server: session, a task per import | upload, poll, resume after a reload | the first poll starts by the clock, the page is reloaded at any moment, the status is found by the file's name |
| Video uploads page (`active_video_upload_list.js`, `videos_index.js`, `views/videos.py`) | the page: a row per active upload, the plugin's slots, the list of previous uploads; the server: the status of each video | choose, upload, report the end, leave the page | several uploads at once, leaving while some end, lists fetched while others go on |
| Photo verification (`verify_student`) | status of an attempt | submit, vendor's callback, retry, expiry | outages of the vendor, late answers |
| Entitlements, enrollment, credit | support records and enrollment | redeem, leave, refund, expire | several saves per request, periodic tasks |
| Certificates (`certificates/queue.py`, xqueue callbacks) | status of the certificate | regenerate, callback, invalidate | callbacks of an earlier request |
| Grades (`grades/tasks.py`) | persistent grades | recalculate, override | tasks that run before the score is committed |
| Account retirement, cohorts, teams, block cache, split modulestore | see `PROJECT.json` | | |

The pages meet their servers in ajax calls only: each is served, and its
callback run, in its own time, and the page may be left or changed before that.

Components interact through the database (rows read and saved by several
processes), through celery messages, through Django signals and through the
cache. Nothing holds a lock across a request except `select_for_update` in
single transactions and the `cache.add` locks of the subtasks.

What makes each component correct: a recipient is mailed at most once and
accounted for; a task is reported as a success exactly when it is over; a late
or duplicated step does not overwrite a newer result; what was begun ends; a
page says nothing of the server that is not so.

## Modules

| Module | Models |
|---|---|
| `SubtaskStatus` | class `SubtaskStatus`: counters, `increment`, `get_retry_count` |
| `Subtasks` | the `send_course_email` task run by many workers against one row and one cache, and the environment: broker, cache, database, crashes |
| `BulkEmail` | the abstract promise of a bulk email: mail at most once, each subtask over once, SUCCESS exactly when all are |
| `Chunking` | how recipients are cut into the lists of subtasks |
| `EmailDelegation` | the parent task next to its subtasks; extends `Subtasks` and `Chunking` |
| `LtiOutcomes` | scores sent to a campus LMS: launches, requests that change a score and their transactions, the two tasks |
| `ProblemPage` | a sequence of the courseware in a learner's browser: tabs, problems, pollers, the server's state of each problem, the external grader |
| `CourseImport` | the import page of Studio, the status handler and the import task |
| `VideoUploads` | the video uploads page of Studio, the upload plugin's slots and the statuses of the server |
| `MCSubtasks`, `MCEmailDelegation`, `MCLtiOutcomes`, `MCProblemPage`, `MCCourseImport`, `MCVideoUploads` | instances for TLC |
| `SubtasksProofs`, `EmailDelegationProofs`, `LtiOutcomesProofs`, `ProblemPageProofs`, `CourseImportProofs`, `VideoUploadsProofs` | theorems about the module of that name |
| `LedgerProofs` | theorems about the numbers that `Subtasks` carries along: mails, retries, the report |
| `FiniteSums` | what those need of sums over finite sets, and induction stated for sets |

`EmailDelegation` composes: a step is a step of a delivery of the parent or a
step of `Subtasks` (`Next`), on the same `entry`, `queue`, `locked`, `worker`.

Operators named after a bug, each next to the definition they vary and
introduced by a comment `Mutant`, are used by no specification. They show
that the properties can fail: put in the place of that definition, each makes
the property `PROJECT.json` pairs it with fail under the same configuration.

## Bulk email: state and actions

| Variable | Code |
|---|---|
| `entry` | the InstructorTask row: `task_state`, the JSON in `subtasks` (`total`, `succeeded`, `failed`, `status` by id), the JSON in `task_output` (`output`; its `kind` says whether it is empty, a progress report or an exception) |
| `queue` | messages at the broker: subtask, `to_list`, status object, `request.retries` |
| `locked` | the keys `subtask-<id>` in the cache |
| `worker` | program counter and locals of each celery worker |
| `sent` | history: how often the mail server accepted each email |
| `parent` | each delivery of the parent's message: program counter, its copy of the row, the chunks it queues |

A worker's step is one access to something shared. `Deliver` takes a message;
`CheckRow` is the part of `check_subtask_is_valid` that reads the row and
`AcquireLock` the rest of it; `FilterOptouts`/`PrepareRaises`,
`OpenConnection`, `EmailSent`, `EmailFails`, `RateLimited`, `TransientError`,
`BulkFailure` and `AllProcessed` are `_send_course_email`, one per way the loop
or an except clause can continue; `UpdateCommits`, `UpdateFails` and
`UpdateRaises` are one attempt of `_update_subtask_status`, a transaction with
`select_for_update` and therefore one step; `ReleaseLock` is one `finally`
clause of the recursive `update_subtask_status`; `RetryPublished` and
`RetryFails` are the second half of `_submit_for_retry`; `CloseConnection` and
`CloseRaises` the `finally` clause of `_send_course_email`. The list of
recipients is a set whose last element is arbitrary; addresses, texts, times
and delays are left out, so a retry may run at any moment after it is
published, also before the worker that published it is done.

Assumptions about the surroundings:

- The recipients of one subtask have distinct addresses.
- If `send_messages` raises, the mail was not accepted. (A server that accepts
  a mail and then breaks the connection would be mailed again: the code cannot
  know.)
- A `DatabaseError` means that the transaction was rolled back.
- Celery acknowledges a message on delivery (no `acks_late` is set): a worker
  that dies loses it. `DeliverTwice` is the case that
  `check_subtask_is_valid` describes: the acknowledgement is lost and the
  broker delivers again.

The environment differs between the specifications: `Spec` has database
errors, expiring locks and dying workers but delivers each message once;
`SpecClose` adds an exception from `connection.close()`; `SpecTwice` delivers
messages twice, with a lock that lasts and a database that answers;
`SpecTwiceDb` adds database errors to that, without crashes.

Properties of `Subtasks`: `TypeOK`; `NoDuplicateMail`; `SuccessMeansAllDone`
(early and forgotten successes); `CountersMatchStatuses` (the code counts
instead of scanning, `subtasks.py:558`); `OutputAddsUpFinished`;
`ReportIsTruthful` (succeeded equals the mails sent, every recipient
accounted for, across attempts and workers); `RetriesWithinTheirKind`;
`CompletedNeverRuns`; `OneWorkerPerSubtask`; `DoneIsFinal`;
`RetriesNeverRegress`; `KeepsPromise` (refinement of `BulkEmail`). Of
`EmailDelegation`: `SubtasksAreKnown`, `NoEarlySuccess`, `ChunksFitIds`,
`MailedByOneSubtask`, `MarkedAsBefore` and the liveness property
`TaskSettles`.

## LTI outcomes: state and actions

A campus LMS may launch any block of a course and expect a score for it. When
the score of a problem changes, the version of each launched assignment that
contains it is counted up and a task is queued; the task of a composite block
waits 15 minutes, computes the score and sends it if its version is still the
current one, and the task of a leaf sends the points it was given.

| Variable | Code |
|---|---|
| `scored` | the requests whose score change is committed (StudentModule) |
| `launched`, `version` | the rows of `GradedAssignment` and their `version_number` |
| `request` | each request: what its query found and read, which rows it saved, which tasks it published |
| `tasks`, `worker` | queued tasks, and the steps of those that run |
| `campus` | the score that the campus LMS holds |
| `lost` | history: assignments for which a task failed |

A score is the set of requests it reflects, so that "older" is inclusion.
`SetScore`, `ReadVersions`, `SaveVersion`, `Publish` are the steps of
`score_changed_handler` inside the transaction of the request; `Commit` makes
them visible at once, `Abort` undoes them except for what the broker already
has. The tasks run outside of transactions: each access of theirs is a step
(`StartComposite` reads the version, `ComputeScore` the grades, `Recheck` the
version again, `ScoreArrives` is the campus taking the score). A task that
fails anywhere, a refused call included, is not retried (`TaskFails`).

Assumptions: a request sees what others have committed (READ COMMITTED) and
rows it wrote stay locked until it ends; the course grade of the learner has
been stored once, so that the course grade reads current problem scores
instead of assuming zero; and the countdown of 15 minutes outlasts, counted from
the end of its request, every request and task that was under way then. This
last one is what the comment at `lms/envs/common.py:3454` relies on, extended
from the request itself to its neighbours; `Delayed` states it. Nothing is
assumed of how long a task stays in the queue.

`CampusIsCurrent` says that the campus LMS ends with the score of the
database, and holds although versions are not what the docstring of
`send_composite_outcome` takes them for: two requests may count up from the
same one, a slow request may set it back, and a rolled back one leaves a task
behind whose version comes up again. The task of the last request finds its
version in any case. `SendsCurrentScore` and `NoOlderScore`, the purposes of the
version according to that docstring, hold as long as no version is written
twice (`VersionsDiffer`); leaf assignments have no such protection.

## Problems and sequences: state and actions

A sequence has tabs with problems on them. Check, save and reset are ajax
calls whose callbacks replace the problem's HTML and enable its buttons; a
submission to the external grader leaves the problem queued, and the page polls
for its end. A tab that is opened is rendered from the HTML the page was loaded
with, unless the problem told the sequence of a newer one (`contentChanged`).

| Variable | Code |
|---|---|
| `lcp` | server: what `get_state_for_lcp` keeps of each problem, as far as the page can tell it apart |
| `grader` | submissions the external grader has, by queue key |
| `position`, `latest` | the tab shown; the content each problem is rendered from (`data-content` or `updatedProblems`) |
| `view` | the problem on the page: what is shown, the input, which buttons are enabled |
| `sent`, `replies` | ajax calls not yet served, and answers whose callback has not run |
| `timers`, `queuePollerID` | armed timeouts of pollers, and the one id `window.queuePollerID` |
| `lost` | history: problems a call of which failed |

The HTML that the server renders stands for the state it is rendered from.
`Serve` is `handle_ajax`, one transaction with the row of the problem locked;
`ContentArrives`, `SavedArrives`, `RefusalArrives`, `PollArrives` are the
callbacks, each with the `.always()` that enables buttons. A call made from a
tab that was left has callbacks too: they run on detached elements (`live` is
false) and can touch the page through `window.queuePollerID` only. The queue
key of a submission is its number, new each time.

What the page relies on is named in `Allows` and can be switched on in a
configuration; each of the properties below that depends on it fails with it.
`"hurry"`: the learner does not wait for the answer of a check, save or reset
before doing something else (the outcome of a check whose tab was left reaches
nobody). `"reopen"`: the open tab is clicked, which stops the poller.
`"reorder"`: the answers to two calls of one problem overtake each other.
`"lose"` (allowed in the run): a call fails before or after it was served.

`LatestIsCurrent` says that a tab opened again shows what the server has;
`QueuedIsPolled` that a problem shown as waiting has a poller or its learner was
told to refresh; `OneOperation` that buttons start one operation at a time,
though polls render them anew; `NeverOlder` that late answers do not bring an
earlier attempt back; `ShownInTheEnd` that the page ends with the server's state
or gives up saying so.

## Course import: state and actions

The author chooses an archive, the page uploads it in chunks, the server stores
the last chunk and queues a task (`import_olx`), and the page polls for the
number of its stage: negative if the stage failed, 4 for the end.

| Variable | Code |
|---|---|
| `imports`, `completed` | the imports started; the cookie has the name of the last one and whether it completed |
| `uploads` | the requests of the upload plugin: being sent, received, refused, failed, or answered illegibly |
| `session`, `tasks` | server: `request.session["import_status"]`, and the UserTaskStatus of each import |
| `stage`, `state` | `current` of `views/import.js` |
| `warns`, `button`, `chosen` | the listener of `beforeunload`; the button shown; the file it would upload |
| `firsts`, `timers`, `timeout` | the timeouts that start polling, those that go on, and `timeout.id`, which knows the last one only |
| `gets` | status requests under way, and whether `resume` made them |

`Choose`, `Submit` and `Reload` are the author's; `Progress`, `Sent`, `Complete`
the plugin's events; `Queued` and `Refused` the end of `_write_chunk`;
`FirstPoll`, `TimerFires`, `StatusArrives`, `ResumeArrives` the poller's
callbacks; `StatusRead` is `import_status_handler`; `TaskGoesOn` the task.

What the page relies on, in `Allows`: archives of one author have different
names (`"same"`: the newest task of a name is found until the new one is
created), pending answers are waited for before another archive is chosen
(`"hurry"`), and the warning is heeded (`"leave"`). `"slow"` (the first poll,
three seconds after the upload, finds it not dealt with) and `"lose"` (a status
request or an upload's answer is lost) are allowed in the run.

`VerdictIsTrue`: page and cookie call an import a success only if it was, and a
failure only if it failed for good. `StageIsReached`: the list of stages does
not run ahead. `WarnsOfAbort`: as long as leaving aborts the upload, the page
asks. `ImportEnds`: the author can choose a file again in the end.

## Video uploads: state and actions

| Variable | Code |
|---|---|
| `page` | open, the browser asks whether to leave (`onBeforeUnload` has returned a message), or left |
| `asks`, `puts`, `slots` | requests for a URL (`fileUploadAdd`); PUTs under way; the plugin's queue for `concurrentUploadLimit` |
| `rows` | the models of the active uploads: whether there is a video id, status, whether all is sent, the attribute `uploading` |
| `posts` | status updates under way; the one of a completed upload has a callback |
| `gets`, `previous` | requests for the previous uploads, and the list shown |
| `server` | edx-val's status of each video |

Assumptions: the limit is not 1 (the plugin then chains promises instead of
queueing slots); an upload does not go on while the browser's question is open
(`"linger"`; an upload that ends meanwhile is told of twice); answers to
requests for the previous uploads come in order (`"reorder"`: an old list would
replace a newer one). In the run one request may be lost.

`EndIsFinal`: no update says otherwise of an upload that ended, although which
ones are cancelled is decided before the author answers. `LeftBehind`: which
uploads may stay "upload" on the server for ever: those that were queued, or
wholly sent and not answered, which `uploading()` does not count; the comment of
`onBeforeUnload` speaks of uploads "queued or in progress". `FailuresAgree` and
`CompletedAreListed`: when nothing is under way the two lists of the page agree
with the server. `UploadsSettle`: every file is shown as failed or completed in
the end.

## Runs, bounds and what they show

| Run | Instance | Shows |
|---|---|---|
| `subtasks_two` | 2 subtasks of 1 recipient, 2 workers, 1 retry of each kind, 2 tries of an update; 1.8 M states | what the row says of several subtasks together, in every order of finishing; the refinement; the inductive invariant |
| `subtask_one` | 1 subtask of 3 recipients, 2 workers, 2 retries of each kind; 1.1 M | lists, counters and limits over several attempts |
| `subtask_twice` | 1 subtask of 2 recipients, 2 workers, 1 duplicate; 1.0 M | the lock alone keeps duplicates apart |
| `delegation` | 1 delivery of the parent, 3 recipients counted and 0, 2, 3 or 4 yielded, 2 per subtask, 2 workers; 1.6 M | parent and subtasks side by side |
| `delegation_fair` | 1 delivery, 2 subtasks, 2 workers, 1 retry; 0.4 M | liveness |
| `lti_outcomes` | 3 requests on 2 problems, a unit and one of its problems assigned, 2 workers; 2.5 M | the campus LMS ends with the right score, and gets scores in order |
| `problem_page` | 2 tabs, one problem graded at once and one by the external grader, 2 attempts, 2 polls, 2 clicks on buttons, 2 changes of tab, one lost call per problem; 0.4 M | what a tab shows when it is opened again, pollers and their end |
| `course_import` | 2 archives, 2 imports, 1 reload, 1 early poller, slow server, one lost answer per visit of the page; 1.0 M | what page and cookie say of the import; that it ends |
| `video_uploads` | 3 videos, 2 slots, one lost request; 0.1 M | the lists of the page, the statuses of the server, leaving at any time |

Why these bounds are enough for the interesting cases: a subtask is only ever
at work in one place unless a message is duplicated, so two workers give every
overlap of a retry with the end of the attempt that published it, and the
overlap of two subtasks; one retry of each kind with a limit of one reaches
both limits and their mixture; two tries of an update reach the recursion and
its last failure. Two subtasks with two recipients exceed what can be explored
in minutes: lists are varied with one subtask, interplay of subtasks with one
recipient each. The proofs cover the combination for every size.

For LTI two requests on different problems overlap freely, which gives lost
updates; a third one makes a version go back or come up again while tasks of
the first two are under way. With two workers a task runs beside one that was
overtaken.

For a problem two clicks give a submission and whatever follows it: a second
one while the first is queued, a reset, a save; two changes of tab leave and
come back during any of that; two polls reach the one that gives up. With one
problem per kind and tab, the problems meet in the one timeout id that pollers
share, which is how the code lets them meet. A second import after a first, with
a reload anywhere, gives every mixture of an old status and a new page; the
reload drops all timers, so one early poller beside the regular ones is what can
accumulate. Three videos on two slots give one that waits, and its turn.

The system stops when every subtask is over, or when a dying worker took its
message along, so deadlock is not checked; the pages rest when the bounded
number of clicks is used up.

Fairness (`FairDelegation`): weak fairness of each delivery of the parent and
of each worker, which run as processes of their own, and one of the
`MAX_DATABASE_LOCK_RETRIES` tries of an update succeeds. Workers do not die:
celery loses a message that was delivered, and then nobody finishes the
subtask. Nothing is assumed of the mail server: each of its refusals ends in a
popped recipient, a limited retry or a failure. With a query that yields so few
recipients that an id is left without a chunk, the task would stay in PROGRESS
for ever; the comment at `subtasks.py:114` accepts a mismatch as negligible,
and the run uses a query that yields what was counted.

The pages (`FairSpec`): calls are answered or fail, callbacks and timeouts run,
the import task has a worker; nothing is assumed of the people. For
`VideoUploads` the page's handlers need strong fairness: while the browser asks,
they cannot run, and what arrives meanwhile is kept for them; an author who is
asked again and again does not keep them from running in between.

## What the code does not keep

Each of these runs checks one sentence of a comment or docstring and ends with
a counterexample.

- `close_early_success`: the retry is published, `connection.close()` raises
  (Django's SMTP backend lets a refused QUIT out), and `send_course_email`
  records the subtask as FAILURE while its retry is at work. The retry is
  counted again, and the task is SUCCESS with another subtask still open,
  against `subtasks.py:228`.
- `twice_lock_released`: each level of the recursive `update_subtask_status`
  deletes the lock; the second deletion may hit the lock of another worker,
  against `subtasks.py:490`.
- `delegation_marked`: `run_main_task` saves PROGRESS before
  `perform_delegate_email_batches` returns early, so a second delivery leaves
  a finished task in PROGRESS for ever, against `tasks.py:164`.

Three more of that kind follow from the duplicates a broker may deliver. With
two redeliveries instead of one, `OneWorkerPerSubtask` fails although no update
fails and no lock expires: a worker records a retry, `retry()` fails, and the
second update that follows deletes the lock that a duplicate has taken meanwhile
(`tasks.py:806`); a third delivery then joins the second. And with
`SpecTwiceDb`, `CompletedNeverRuns` fails too (`check_subtask_is_valid` reads
the row before it takes the lock, `subtasks.py:401`), and with two deliveries
of the parent `MailedByOneSubtask` does (both find no subtasks,
`tasks.py:159`).

## Proofs

Every invariant and every action property that a passing run checks is also a
theorem, for every value of the constants that meets the named assumptions and
the hypotheses given below. The inductive invariants were checked by TLC before
they were proved: some as properties of a run (`IInv` of `Subtasks`), the others
with the constants of the run of their component, outside of the listed runs.

**Bulk email.** `SubtasksProofs` proves, for any finite set of subtasks and
recipients, any set of workers and any limits, that `Spec` keeps `IInv` and with
it `TypeOK`, `NoDuplicateMail`, `SuccessMeansAllDone`, `CountersMatchStatuses`,
`CompletedNeverRuns`, the action property `DoneIsFinal`, and the refinement
`KeepsPromise`.

The assumptions are those named in `Subtasks`: `Subtask` is finite and not
empty, `Recipient` finite, the limits are numbers, at least one try.

The argument: the properties are not inductive, because nothing in them says
that only one worker can be about to finish a subtask. `IInv` adds the idea of
a token. The right to work on a subtask is either in a message or with one
worker (`OneToken`); a worker gives it up when it publishes a retry and when
it has tried to record the end of the subtask. A finished subtask has no token
(`DoneHasNoToken`), and whoever holds the token has yet to mail the recipients
on its list (`ListedAreUnmailed`); `WorkerConsistent` ties program counters to
statuses. From `OneToken` follows that no update counts a subtask twice, hence
that the counters equal the cardinalities they stand for, and from that, with
`FiniteSetTheorems`, that `num_remaining` is zero just when all are over.
The lock is not used in the argument: with single delivery the code is safe
without it, which is why expiring locks do no harm. The steps of the workers are
proved to keep the tokens by themselves (`TokensKept`), without what `IInv` says
of the row, because the parent task writes the row too.

**Duplicates.** With duplicates the tokens are no longer unique; then the lock
has to keep workers apart. Theorem `OneWorkerAtATime` says that it does
(`SpecTwice => []OneWorkerPerSubtask`) if `MaxRedeliver <= 1`, and with two it
does not (see above), so the hypothesis cannot be dropped. What makes one
redelivery harmless is a count: `Contenders` are the messages and workers of a
subtask that can still take or delete its lock; there are two at most once a
message was delivered twice (`Few`). A worker inside is alone there, and if its
key has been deleted by somebody else, whoever did that has left, so it is the
only contender (`LockKept`): nobody is left to take the free lock.

**Numbers.** `LedgerProofs` proves `ReportIsTruthful`, `OutputAddsUpFinished`,
`RetriesWithinTheirKind` and the action property `RetriesNeverRegress`, from
`IInv` and a second invariant, `LedgerInv`: wherever the token of a subtask is,
the status beside it has counted just the mails that were sent, and what it
counted and the recipients left make up all recipients (`Accounts`); its retries
are those that celery counts, each kind within its maximum (`Counts`), or one
more while a retry is pending (`CountsOneMore`); and the row knows of none that
the token's holder does not know of (`UpToDate`), so no update is behind it. The
report of the task is a sum over the finished subtasks (`ReportAddsUp`): one
update changes one summand, which is `FiniteSums`. The library's induction
theorems take an operator and cannot be used by the installed provers;
`FiniteSums` restates what is needed of them with sets (`NatSetInduction`) and
proves that sums over finite sets do not depend on the order.

**The parent task.** `EmailDelegationProofs` proves, if the broker delivers the
parent's message once (`DeliveredOnce`), `DelegationTypeOK`, `SubtasksAreKnown`,
`NoEarlySuccess` and `MailedByOneSubtask` of `EmailDelegation`. With a second
delivery `MailedByOneSubtask` fails, as said above. `DelegationInv` has three parts. The
tokens, kept by every step of a worker, are taken over from `SubtasksProofs`.
`Shares`: a subtask is at work only once it was queued, and on recipients of its
own list. `Rows`: until the subtasks are defined nothing is queued and every copy
of the row is one without subtasks; from then on neither the row nor the copy
that the parent is going to save calls a subtask over that still has a token, so
saving it takes nothing away, though it may be behind.

`ListsFitIds` needs no such hypothesis: for any numbers of recipients counted and
yielded (`YieldedAssumption`: whoever the query yields is a recipient), however
often the parent is delivered, there is an id for each list, no recipient is on
two lists and only the last can be longer than `PerTask`. `Chunks` is a
recursive function, and what it yields is proved by induction over the
recipients seen so far (`GenExists` and `GenStaysOK`).

**LTI outcomes.** `LtiOutcomesProofs` proves, for any requests, problems,
assignments and workers, `TypeOK` and `CampusIsCurrent` of `LtiOutcomes`, from `LtiAssumption`
(which problems an assignment contains, a leaf contains one). `CampusIsCurrent`
speaks of the end only; `IInv` says why it comes about: for each announced
assignment either a task is due, which will find its version and waits for
whoever holds an older score (`Due`), or nobody holds an older score any more
and the current one has arrived or is on its way (`Reaching`). A request that
looked for rows before an assignment was launched changes its score without
queueing a task; `MissedWaits` says that all tasks of the assignment still
wait for that request.

The action properties `SendsCurrentScore` and `NoOlderScore` hold while no two
requests counted up from the same version of the assignment, which is part of
their statement. `OrderInv` is the reason: each version then belongs to one
request, so two tasks of a version are the same (`SameTask`, with `OneOfAName`:
a task is queued once and started once) and no version comes back. A task that
finds its version waits for everybody at work on the assignment (`Waits`), hence
one worker at most will get as far as sending; what it holds after it computed is
the score of the database until the version changes, and never less than what
the campus has (`InOrder`).

**Problem page.** `ProblemPageProofs` proves, for any problems, tabs, attempts and polls,
`TypeOK`, `OneOperation`, `LatestIsCurrent` and `NeverOlder` of `ProblemPage`,
if the learner waits for the answers of operations and the answers to the calls
of one problem come in order (`Orderly`: neither "hurry" nor "reorder"; calls
may be lost and the open tab clicked). `OpsInv` says that an operation under way
is of an object on the open tab and the only one of its problem; for problems
that are graded at once `ButtonsInv` gives the reason, since nothing else renders
their buttons meanwhile. `LatestInv`: the sequence has what the server has, or
the answer of an operation brings it. `AttemptsInv` orders attempts: the page
shows no later one than the next answer, answers rise in their order, and none is
later than the server's. The ids of timeouts are fresh because all sets are
finite (`NewIdNat`).

`QueuedIsPolled` (theorem `QueuedProblemsArePolled`) needs two hypotheses more:
the open tab is not clicked (no "reopen", which clears the poller), and no two
problems graded by code share a tab (`OneCodeProblem`), since they would share
`window.queuePollerID` and one would stop the other's poller. `PolledInv` says
that such a problem has a live timeout, a poll on its way or a poll's answer on
its way, and that polls of problems of which no call was lost bring content. It
was also checked with two code problems on different tabs.

**Course import.** `CourseImportProofs` proves, for any archives, imports, reloads and early
pollers, whatever is slow or lost, `TypeOK`, `VerdictIsTrue`, `StageIsReached`
and `WarnsOfAbort` of `CourseImport`, if the author is careful (`Careful`: none
of "same", "hurry" and "leave"). `IInv` says that every status on its way to
the page is true of the last import (`GetsInv`, `TimersInv`); that it stays true
is lemma `Keeps`, and that the server answers nothing else `StatusOfTrue`. An
error is only ever true when the import is over: `SessionInv` keeps the refusal
of an upload apart from tasks, `UploadsInv` says that an upload going on has no
task, no refusal and a page that warns. When a new file is submitted nothing is
pending (`SubmitInv`), so nothing can be taken for it.

**Video uploads.** `VideoUploadsProofs` proves, for any files and limit, `TypeOK`, `EndIsFinal`
and `LeftBehind` of `VideoUploads`, if uploads do not go on while the browser
asks. `IInv` follows each upload from holder to holder: the request for its URL
(`AsksInv`), the plugin's queue (`SlotsInv`), its PUT (`PutsInv`) or the update
that tells of its end (`PostsInv`). While one of the first three has it, the
server has not been told, and the update is the only one.

`StageInv` follows the file itself: until the page is left or a request lost,
every chosen file is in one of eight stages (`Stage`: asked for, refused, queued,
sending, reporting, failed, answered, cleared), each of which relates the row,
the queue, the PUTs, the status updates and the server. When nothing is under way
only three are left, which is `FailuresAgree`; the last one also says that the
list shown has the video or one asked for later will, if lists come in order (no
"reorder"), which is `CompletedAreListed`.

**Only model-checked.** Liveness: `TaskSettles`, `ShownInTheEnd`, `ImportEnds`
and `UploadsSettle` (fairness and `ENABLED` are out of the prover's reach). The
delegation with two deliveries of the parent, apart from `ListsFitIds`. What
duplicates do to the other properties of `Subtasks` is not proved: the runs and
the traces named above show which of them break.

## What is not modelled

Of bulk email: the text of emails, templates, tracking and logs, delays
between retries, `duration_ms`, the size limit of `task_output`. Of LTI: XML
and signatures, the launch apart from the row it creates. Of the problem page:
a reload of the page, submissions of files (`submit_fd`), show answer, hints,
randomization, due dates, attempts that are rate-limited, and the other kinds of
tabs; two code problems on one tab share the timeout id, one of them is then not
polled, and the run has one per tab. Of the import: what it does to the course.
Of video uploads: removal of previous videos, thumbnails, transcripts, the
course's video settings, and the elements that show the rows. Of the
repository: the components that `PROJECT.json` lists as `not_modelled`, with
the reason for each.

## Plan

1. Bulk email: `SubtaskStatus`, `Subtasks`, `BulkEmail`, `EmailDelegation`,
   `Chunking` and their proofs (done), then what two deliveries of the parent
   leave of `SubtasksAreKnown`.
2. LTI outcomes: `LtiOutcomes` with the proofs that the campus LMS ends with
   the right score and gets scores in order (done).
3. The pages with a protocol of their own: `ProblemPage`, `CourseImport`,
   `VideoUploads` with their proofs (done), then the completion of videos
   (`09_completion.js`, which sets `complete` where it reads `isComplete`).
4. InstructorTask submission and polling: `InstructorTasks`, with an abstract
   specification of a task's life; type, finality of results, the race of a
   failed submission with a worker that runs.
5. Photo verification: `PhotoVerification`; the status machine, late answers
   of the vendor, resubmission after an outage.
6. Certificates, grades recalculation, entitlements, account retirement,
   cohorts: one module each, in this order, as runs allow.

Each with its inductive invariant checked by TLC and then proved. Module
parameters are constants with named assumptions, and nothing that is proved
about uses a `RECURSIVE` operator.
