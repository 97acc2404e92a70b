------------------------------ MODULE BulkEmail ------------------------------
(***************************************************************************)
(* What a bulk email promises to the instructor who sends it, without      *)
(* messages, workers, retries, locks or counters: each recipient is mailed *)
(* at most once and only while the subtask it belongs to is not over, each *)
(* subtask is over once, and the task is SUCCESS exactly when all are.     *)
(***************************************************************************)
EXTENDS Naturals

CONSTANTS Subtask, Recipient

VARIABLES
  sent,        \* how often each recipient of each subtask was mailed
  outcome,     \* what became of each subtask
  task_state   \* what the instructor is shown

vars == <<sent, outcome, task_state>>

Init ==
  /\ sent = [s \in Subtask |-> [r \in Recipient |-> 0]]
  /\ outcome = [s \in Subtask |-> "pending"]
  /\ task_state = "PROGRESS"

Mail(s, r) ==
  /\ outcome[s] = "pending" /\ sent[s][r] = 0
  /\ sent' = [sent EXCEPT ![s][r] = 1]
  /\ UNCHANGED <<outcome, task_state>>

Finish(s, result) ==
  /\ outcome[s] = "pending"
  /\ outcome' = [outcome EXCEPT ![s] = result]
  /\ task_state' = IF \A t \in Subtask : outcome'[t] # "pending"
                   THEN "SUCCESS" ELSE "PROGRESS"
  /\ UNCHANGED sent

Next == \E s \in Subtask :
          \/ \E r \in Recipient : Mail(s, r)
          \/ \E result \in {"SUCCESS", "FAILURE"} : Finish(s, result)

Spec == Init /\ [][Next]_vars
=============================================================================
