--------------------------- MODULE EmailDelegation ---------------------------
(***************************************************************************)
(* The parent task of a bulk email next to the subtasks it creates:        *)
(* run_main_task and BaseInstructorTask.on_success/on_failure              *)
(* (lms/djangoapps/instructor_task), perform_delegate_email_batches        *)
(* (lms/djangoapps/bulk_email/tasks.py), initialize_subtask_info and       *)
(* queue_subtasks_for_query (instructor_task/subtasks.py).                 *)
(*                                                                         *)
(* The parent reads the InstructorTask row into memory and saves the whole *)
(* of it later, without a lock; its subtasks run as soon as they are       *)
(* queued, while it is still queueing the others.                          *)
(***************************************************************************)
EXTENDS Subtasks, Chunking

CONSTANTS
  Parent,     \* deliveries of the parent task's one message
  Yielded     \* how many recipients the query, run after the count, may yield

\* The ids are uuids, so those of different deliveries differ.
ASSUME SubtaskIdAssumption == Subtask = Parent \X (1..NumSubtasks)
\* Whoever the query yields is a recipient; they are numbered as it yields them.
ASSUME YieldedAssumption == /\ Yielded \subseteq Nat
                            /\ \A n \in Yielded : 1..n \subseteq Recipient

VARIABLE parent   \* what each delivery of the parent task is doing

delegationVars == <<vars, parent>>
workerVars == <<locked, worker, sent, redelivered>>

-----------------------------------------------------------------------------

NoSubtasks == [s \in {} |-> NewStatus]

\* The row that _reserve_task creates.
NewEntry == [task_state |-> "QUEUING", total |-> 0, succeeded |-> 0,
             failed |-> 0, status |-> NoSubtasks, output |-> NoOutput]

\* row: the copy of the InstructorTask in memory; found: the task_state that
\* the delivery read first; chunks: what the generator makes of the query's
\* recipients; queued: how many of them have been published.
NotDelivered == [pc |-> "waiting", row |-> NewEntry, found |-> "QUEUING",
                 chunks |-> <<>>, queued |-> 0]

ParentPC == {"waiting", "mark", "check", "define", "queue", "succeed", "fail",
             "save", "over"}

DelegationInit ==
  /\ entry = NewEntry
  /\ queue = {}
  /\ locked = {}
  /\ worker = [w \in Worker |-> Idle]
  /\ sent = [s \in Subtask |-> [r \in Recipient |-> 0]]
  /\ redelivered = 0
  /\ parent = [p \in Parent |-> NotDelivered]

ParentAt(p, pc) == parent[p].pc = pc
ParentBecomes(p, pp) == parent' = [parent EXCEPT ![p] = pp]

-----------------------------------------------------------------------------
(* run_main_task: the row is read, and saved in state PROGRESS.            *)

ReadEntry(p) ==
  /\ ParentAt(p, "waiting")
  /\ ParentBecomes(p, [parent[p] EXCEPT !.pc = "mark",
                         !.row = [entry EXCEPT !.task_state = "PROGRESS"],
                         !.found = entry.task_state])
  /\ UNCHANGED vars

MarkProgress(p) ==
  /\ ParentAt(p, "mark")
  /\ entry' = parent[p].row
  /\ ParentBecomes(p, [parent[p] EXCEPT !.pc = "check"])
  /\ UNCHANGED <<queue, workerVars>>

-----------------------------------------------------------------------------
(* perform_delegate_email_batches.                                         *)

AlreadyDefined(e) == e.status # NoSubtasks /\ e.output.kind # "none"

\* The row is read again; a task that has subtasks is not delegated again.
CheckEntry(p) ==
  /\ ParentAt(p, "check")
  /\ ParentBecomes(p, [parent[p] EXCEPT !.row = entry,
                         !.pc = IF AlreadyDefined(entry)
                                THEN "succeed" ELSE "define"])
  /\ UNCHANGED vars

\* A course or an email that does not match, or no recipients.
DelegationRaises(p) ==
  /\ ParentAt(p, "check") \/ ParentAt(p, "define")
  /\ ParentBecomes(p, [parent[p] EXCEPT !.pc = "fail"])
  /\ UNCHANGED vars

Id(p, chunk) == <<p, chunk>>

\* Mutants of DefineSubtasks: the row is not saved before the subtasks are
\* queued, ...
DefineUnsaved(p) ==
  /\ ParentAt(p, "define")
  /\ \E n \in Yielded :
       ParentBecomes(p, [parent[p] EXCEPT !.pc = "queue", !.chunks = Chunks(n)])
  /\ UNCHANGED vars

\* ... one subtask too many is counted.
DefineOneMore(p) ==
  /\ ParentAt(p, "define")
  /\ entry' = [parent[p].row EXCEPT
                 !.task_state = "PROGRESS", !.total = NumSubtasks + 1,
                 !.succeeded = 0, !.failed = 0,
                 !.status = [s \in {Id(p, c) : c \in 1..NumSubtasks} |-> NewStatus],
                 !.output = [NoOutput EXCEPT !.kind = "progress"]]
  /\ \E n \in Yielded :
       ParentBecomes(p, [parent[p] EXCEPT !.pc = "queue", !.chunks = Chunks(n)])
  /\ UNCHANGED <<queue, workerVars>>

\* initialize_subtask_info: the copy read by CheckEntry is filled and saved.
DefineSubtasks(p) ==
  /\ ParentAt(p, "define")
  /\ entry' = [parent[p].row EXCEPT
                 !.task_state = "PROGRESS", !.total = NumSubtasks,
                 !.succeeded = 0, !.failed = 0,
                 !.status = [s \in {Id(p, c) : c \in 1..NumSubtasks} |-> NewStatus],
                 !.output = [NoOutput EXCEPT !.kind = "progress"]]
  /\ \E n \in Yielded :
       ParentBecomes(p, [parent[p] EXCEPT !.pc = "queue", !.chunks = Chunks(n)])
  /\ UNCHANGED <<queue, workerVars>>

QueueSubtask(p) ==
  /\ ParentAt(p, "queue") /\ parent[p].queued < Len(parent[p].chunks)
  /\ LET c == parent[p].queued + 1 IN
       /\ queue' = queue \cup {[sub |-> Id(p, c), to_list |-> parent[p].chunks[c],
                                status |-> NewStatus, retries |-> 0]}
       /\ ParentBecomes(p, [parent[p] EXCEPT !.queued = c])
  /\ UNCHANGED <<entry, workerVars>>

AllQueued(p) ==
  /\ ParentAt(p, "queue") /\ parent[p].queued = Len(parent[p].chunks)
  /\ ParentBecomes(p, [parent[p] EXCEPT !.pc = "succeed"])
  /\ UNCHANGED vars

\* The query or apply_async raises: the chunks left are never queued.
QueueRaises(p) ==
  /\ ParentAt(p, "queue")
  /\ ParentBecomes(p, [parent[p] EXCEPT !.pc = "fail"])
  /\ UNCHANGED vars

-----------------------------------------------------------------------------
(* BaseInstructorTask.on_success and on_failure.                           *)

\* Mutant: the result of the parent is saved although it has subtasks.
OnSuccessAlways(p) ==
  /\ ParentAt(p, "succeed")
  /\ ParentBecomes(p, [parent[p] EXCEPT !.pc = "save",
       !.row = [entry EXCEPT !.task_state = "SUCCESS",
                             !.output = parent[p].row.output]])
  /\ UNCHANGED vars

OnSuccess(p) ==
  /\ ParentAt(p, "succeed")
  /\ ParentBecomes(p,
       IF entry.status = NoSubtasks
       THEN [parent[p] EXCEPT !.pc = "save",
               !.row = [entry EXCEPT !.task_state = "SUCCESS",
                                     !.output = parent[p].row.output]]
       ELSE [parent[p] EXCEPT !.pc = "over"])
  /\ UNCHANGED vars

OnFailure(p) ==
  /\ ParentAt(p, "fail")
  /\ ParentBecomes(p, [parent[p] EXCEPT !.pc = "save",
       !.row = [entry EXCEPT !.task_state = "FAILURE",
                             !.output = [NoOutput EXCEPT !.kind = "exception"]]])
  /\ UNCHANGED vars

SaveResult(p) ==
  /\ ParentAt(p, "save")
  /\ entry' = parent[p].row
  /\ ParentBecomes(p, [parent[p] EXCEPT !.pc = "over"])
  /\ UNCHANGED <<queue, workerVars>>

-----------------------------------------------------------------------------
(* The specifications.                                                     *)

ParentStep(p) ==
  \/ ReadEntry(p)        \/ MarkProgress(p)    \/ CheckEntry(p)
  \/ DelegationRaises(p) \/ DefineSubtasks(p)  \/ QueueSubtask(p)
  \/ AllQueued(p)        \/ QueueRaises(p)     \/ OnSuccess(p)
  \/ OnFailure(p)        \/ SaveResult(p)

DelegationNext ==
  \/ \E p \in Parent : ParentStep(p)
  \/ Next /\ UNCHANGED parent
  \/ \E w \in Worker : UpdateRaises(w) /\ UNCHANGED parent

DelegationSpec == DelegationInit /\ [][DelegationNext]_delegationVars

\* A worker that meets no fault but that an update may be tried again.
Working(w) == \/ Step(w) \/ UpdateRaises(w)
              \/ UpdateFails(w) /\ worker[w].tries + 1 < MaxDbTries

\* The parent and the workers live and are scheduled, and one of the
\* attempts of an update succeeds.
FairDelegation ==
  /\ DelegationInit
  /\ [][\/ \E p \in Parent : ParentStep(p)
        \/ (\E w \in Worker : Working(w)) /\ UNCHANGED parent]_delegationVars
  /\ \A p \in Parent : WF_delegationVars(ParentStep(p))
  /\ \A w \in Worker : WF_delegationVars(Working(w) /\ UNCHANGED parent)

-----------------------------------------------------------------------------
(* Properties.                                                             *)

Output == [kind : {"none", "progress", "exception"}, attempted : Nat,
           succeeded : Nat, failed : Nat, skipped : Nat]

IsRow(e) ==
  /\ e.task_state \in {"QUEUING", "PROGRESS", "SUCCESS", "FAILURE"}
  /\ e.total \in {0, NumSubtasks}
  /\ e.succeeded \in 0..e.total /\ e.failed \in 0..e.total
  /\ DOMAIN e.status \in SUBSET Subtask
  /\ \A s \in DOMAIN e.status : e.status[s] \in Status
  /\ e.output \in Output

\* The type of the row, in the database and in the parent's memory.
DelegationTypeOK ==
  /\ IsRow(entry)
  /\ queue \in SUBSET Message
  /\ worker \in [Worker -> WorkerState]
  /\ \A p \in Parent : /\ parent[p].pc \in ParentPC
                       /\ IsRow(parent[p].row)
                       /\ parent[p].queued <= Len(parent[p].chunks)

\* Every subtask that is waiting or at work is known to the row: the row is
\* set up before the first of them is queued and no save of the parent
\* takes that back (subtasks.py:236-239).
SubtasksAreKnown ==
  /\ \A m \in queue : m.sub \in DOMAIN entry.status
  /\ \A w \in Worker : ~At(w, "idle") => worker[w].sub \in DOMAIN entry.status

\* The task is not reported as a SUCCESS before the last subtask is over,
\* although the subtasks run while the parent is still queueing them.
NoEarlySuccess ==
  entry.task_state = "SUCCESS" =>
    /\ entry.status # NoSubtasks
    /\ \A s \in DOMAIN entry.status : Done(entry.status[s])

\* Nobody is mailed twice, by whichever subtasks of whichever delivery.
MailedByOneSubtask ==
  \A r \in Recipient :
    MapThenSumSet(LAMBDA s : sent[s][r], Subtask) <= 1

\* There is an id for each chunk, also when the query yields more recipients
\* than were counted (subtasks.py:115); no recipient is on two lists, and no
\* list but the last is longer than a subtask's.
ChunksFitIds ==
  \A p \in Parent :
    LET chunks == parent[p].chunks IN
      /\ Len(chunks) <= NumSubtasks
      /\ \A i, j \in DOMAIN chunks : i # j => chunks[i] \cap chunks[j] = {}
      /\ \A i \in DOMAIN chunks : /\ chunks[i] # {}
                                  /\ i < NumSubtasks =>
                                       Cardinality(chunks[i]) <= PerTask

\* "subtasks have been defined" (tasks.py:165): a delivery that finds a
\* task marked SUCCESS leaves it marked as it was.
MarkedAsBefore ==
  \A p \in Parent : ParentAt(p, "over") /\ parent[p].found = "SUCCESS" =>
    entry.task_state = "SUCCESS"

\* The task does not stay in progress for ever: with a query that yields the
\* chunks that were counted, it ends as a SUCCESS or as a FAILURE.
TaskSettles == <>[](entry.task_state \in READY_STATES)
=============================================================================
