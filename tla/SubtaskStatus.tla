--------------------------- MODULE SubtaskStatus ---------------------------
(***************************************************************************)
(* The status object a subtask carries with it: class SubtaskStatus of     *)
(* lms/djangoapps/instructor_task/subtasks.py.  It travels in the celery   *)
(* message of the subtask, is mutated while the subtask works, and a copy  *)
(* of it is stored in InstructorTask.subtasks by every update.             *)
(***************************************************************************)
EXTENDS Integers

\* Celery's READY_STATES, the states in which a (sub)task is over.
READY_STATES == {"SUCCESS", "FAILURE", "REVOKED"}

SubtaskState == {"QUEUING", "RETRY", "SUCCESS", "FAILURE"}

\* The four counters that are accumulated into InstructorTask.task_output.
OutputCounter == {"attempted", "succeeded", "failed", "skipped"}

Status == [attempted : Nat, succeeded : Nat, failed : Nat, skipped : Nat,
           retried_nomax : Nat, retried_withmax : Nat, state : SubtaskState]

\* SubtaskStatus.create(subtask_id): all counters zero, state QUEUING.
NewStatus == [attempted |-> 0, succeeded |-> 0, failed |-> 0, skipped |-> 0,
              retried_nomax |-> 0, retried_withmax |-> 0, state |-> "QUEUING"]

\* The keyword arguments of increment(); the ones not given are zero.
Nothing == [succeeded |-> 0, failed |-> 0, skipped |-> 0,
            retried_nomax |-> 0, retried_withmax |-> 0]

Succeeded(n)  == [Nothing EXCEPT !.succeeded = n]
Failed(n)     == [Nothing EXCEPT !.failed = n]
Skipped(n)    == [Nothing EXCEPT !.skipped = n]
RetriedNoMax  == [Nothing EXCEPT !.retried_nomax = 1]
RetriedWithMax == [Nothing EXCEPT !.retried_withmax = 1]

\* Mutant: a failed email is not counted as attempted.
IncrementSucceeded(st, d, newState) ==
  [attempted       |-> st.attempted + d.succeeded,
   succeeded       |-> st.succeeded + d.succeeded,
   failed          |-> st.failed + d.failed,
   skipped         |-> st.skipped + d.skipped,
   retried_nomax   |-> st.retried_nomax + d.retried_nomax,
   retried_withmax |-> st.retried_withmax + d.retried_withmax,
   state           |-> newState]

\* SubtaskStatus.increment(): `attempted' is kept as succeeded + failed.
Increment(st, d, newState) ==
  [attempted       |-> st.attempted + d.succeeded + d.failed,
   succeeded       |-> st.succeeded + d.succeeded,
   failed          |-> st.failed + d.failed,
   skipped         |-> st.skipped + d.skipped,
   retried_nomax   |-> st.retried_nomax + d.retried_nomax,
   retried_withmax |-> st.retried_withmax + d.retried_withmax,
   state           |-> newState]

get_retry_count(st) == st.retried_nomax + st.retried_withmax
=============================================================================
