--------------------------- MODULE SubtasksProofs ---------------------------
(***************************************************************************)
(* What TLAPS proves of Subtasks, for any number of subtasks, recipients,  *)
(* workers, retries and database failures: under exactly-once delivery the *)
(* invariant IInv is inductive, and the specification implements BulkEmail;*)
(* and with one redelivery the lock still keeps workers apart.             *)
(***************************************************************************)
EXTENDS Subtasks, FiniteSetTheorems, TLAPS

-----------------------------------------------------------------------------
(* The operators of SubtaskStatus and Subtasks preserve the types.         *)

\* A list of recipients is finite, so its length is a number.
LEMMA ListLength ==
  ASSUME NEW L \in SUBSET Recipient
  PROVE  Cardinality(L) \in Nat
BY RecipientAssumption, FS_Subset, FS_CardinalityType

\* The arguments of increment() are numbers.
LEMMA DeltaType ==
  ASSUME NEW n \in Nat
  PROVE  /\ Succeeded(n) \in [succeeded : Nat, failed : Nat, skipped : Nat,
                              retried_nomax : Nat, retried_withmax : Nat]
         /\ Failed(n) \in [succeeded : Nat, failed : Nat, skipped : Nat,
                           retried_nomax : Nat, retried_withmax : Nat]
         /\ Skipped(n) \in [succeeded : Nat, failed : Nat, skipped : Nat,
                            retried_nomax : Nat, retried_withmax : Nat]
BY DEF Succeeded, Failed, Skipped, Nothing

\* increment() of a status, by any of the arguments it is called with, is a
\* status in the given state.
LEMMA IncrementType ==
  ASSUME NEW st \in Status, NEW newState \in SubtaskState,
         NEW d \in [succeeded : Nat, failed : Nat, skipped : Nat,
                    retried_nomax : Nat, retried_withmax : Nat]
  PROVE  /\ Increment(st, d, newState) \in Status
         /\ Increment(st, d, newState).state = newState
BY DEF Increment, Status

-----------------------------------------------------------------------------
(* What the worker states are that the actions lead to.                    *)

\* An idle worker is well-typed and has no part in any subtask.
LEMMA IdleWorker ==
  /\ Idle \in WorkerState
  /\ Consistent(Idle)
  /\ ~HoldsToken(Idle)
<1>1. (CHOOSE s \in Subtask : TRUE) \in Subtask
  BY SubtaskAssumption
<1> QED
  BY <1>1 DEF Idle, WorkerState, PC, Status, SubtaskState, NewStatus,
              Consistent, HoldsToken

\* The last resort keeps the subtask and the list, and is a FAILURE.
LEMMA FailedUnexpectedlyWorker ==
  ASSUME NEW wk \in WorkerState
  PROVE  LET f == FailedUnexpectedly(wk) IN
           /\ f \in WorkerState
           /\ Consistent(f)
           /\ f.sub = wk.sub
           /\ f.to_list = wk.to_list
<1> DEFINE st == Increment(wk.status, Failed(wk.num_to_send), "FAILURE")
<1>1. st \in Status /\ st.state = "FAILURE"
  BY DeltaType, IncrementType DEF WorkerState, SubtaskState
<1> HIDE DEF st
<1>2. FailedUnexpectedly(wk) =
        [wk EXCEPT !.pc = "update", !.tries = 0, !.status = st]
  BY DEF FailedUnexpectedly, st
<1>3. /\ FailedUnexpectedly(wk).pc = "update"
      /\ FailedUnexpectedly(wk).status = st
      /\ FailedUnexpectedly(wk).sub = wk.sub
      /\ FailedUnexpectedly(wk).to_list = wk.to_list
  BY <1>2 DEF WorkerState
<1>4. [wk EXCEPT !.pc = "update", !.tries = 0, !.status = st] \in WorkerState
  BY <1>1 DEF WorkerState, PC
<1> QED
  BY <1>1, <1>2, <1>3, <1>4 DEF Consistent

\* Giving up keeps the subtask and the list, and is a FAILURE.
LEMMA GivenUpWorker ==
  ASSUME NEW wk \in WorkerState
  PROVE  LET g == GivenUp(wk) IN
           /\ g \in WorkerState
           /\ Consistent(g)
           /\ g.sub = wk.sub
           /\ g.to_list = wk.to_list
<1> DEFINE st == Increment(wk.status, Failed(Cardinality(wk.to_list)), "FAILURE")
<1>0. Cardinality(wk.to_list) \in Nat
  BY ListLength DEF WorkerState
<1>1. st \in Status /\ st.state = "FAILURE"
  BY <1>0, DeltaType, IncrementType DEF WorkerState, SubtaskState
<1> HIDE DEF st
<1>2. GivenUp(wk) = [wk EXCEPT !.pc = "close", !.status = st]
  BY DEF GivenUp, st
<1> QED
  BY <1>1, <1>2 DEF WorkerState, PC, Consistent

\* Filtering the optouts only shortens the list, and leaves the state alone.
LEMMA FilteredWorker ==
  ASSUME NEW wk \in WorkerState, NEW opt \in Optouts(wk)
  PROVE  LET f == Filtered(wk, opt) IN
           /\ f \in WorkerState
           /\ f.pc = "open"
           /\ f.sub = wk.sub
           /\ f.to_list \subseteq wk.to_list
           /\ f.status.state = wk.status.state
<1> DEFINE st == Increment(wk.status, Skipped(Cardinality(opt)), wk.status.state)
<1>1. opt \in SUBSET Recipient
  BY DEF Optouts, WorkerState
<1>2. /\ wk.status \in Status
      /\ wk.status.state \in SubtaskState
      /\ Cardinality(opt) \in Nat
  BY <1>1, ListLength DEF WorkerState, Status
<1>3. st \in Status /\ st.state = wk.status.state
  BY <1>2, DeltaType, IncrementType
<1> HIDE DEF st
<1>4. Filtered(wk, opt) =
        [wk EXCEPT !.pc = "open", !.to_list = wk.to_list \ opt, !.status = st]
  BY DEF Filtered, st
<1>5. /\ Filtered(wk, opt) \in WorkerState
      /\ Filtered(wk, opt).pc = "open"
      /\ Filtered(wk, opt).sub = wk.sub
      /\ Filtered(wk, opt).to_list = wk.to_list \ opt
      /\ Filtered(wk, opt).status = st
  BY <1>3, <1>4, ZenonT(30) DEF WorkerState, PC
<1> QED
  BY <1>3, <1>4, <1>5

-----------------------------------------------------------------------------
(* Most steps of a worker are quiet: they leave the row, the queue and the *)
(* mails alone, invent no token and add no recipient.  That needs no more  *)
(* than the types, so it also holds of the subtasks of EmailDelegation.    *)

\* Worker w becomes a worker that holds no token and lists no recipient that
\* it did not, and that is at work on no other subtask.
Quiet(w) ==
  /\ UNCHANGED <<entry, queue, sent, redelivered>>
  /\ locked' \in SUBSET Subtask
  /\ \E wk \in WorkerState :
       /\ Becomes(w, wk)
       /\ Consistent(wk)
       /\ HoldsToken(wk) => HoldsToken(worker[w])
       /\ wk.pc # "idle" => /\ worker[w].pc # "idle"
                            /\ wk.sub = worker[w].sub
                            /\ wk.to_list \subseteq worker[w].to_list

\* What a step needs to be known of a worker.
WorkersTyped == /\ worker \in [Worker -> WorkerState]
                /\ locked \in SUBSET Subtask
                /\ \A w \in Worker : Consistent(worker[w])

\* What IInv says of one worker.
LEMMA WorkerFacts ==
  ASSUME IInv, NEW w \in Worker
  PROVE  /\ worker[w] \in WorkerState
         /\ worker[w].sub \in Subtask
         /\ worker[w].to_list \in SUBSET Recipient
         /\ worker[w].status \in Status
         /\ worker[w].status.state \in SubtaskState
         /\ Consistent(worker[w])
         /\ locked \in SUBSET Subtask
         /\ redelivered \in Nat
BY DEF IInv, TypeOK, WorkerState, Status, WorkerConsistent

\* What the types say of one worker.
LEMMA TypedWorker ==
  ASSUME WorkersTyped, NEW w \in Worker
  PROVE  /\ worker[w] \in WorkerState
         /\ worker[w].sub \in Subtask
         /\ worker[w].to_list \in SUBSET Recipient
         /\ worker[w].status \in Status
         /\ worker[w].status.state \in SubtaskState
         /\ Consistent(worker[w])
         /\ locked \in SUBSET Subtask
BY DEF WorkersTyped, WorkerState, Status

\* A worker that goes idle takes nothing with it.
LEMMA GoingIdleIsQuiet ==
  ASSUME NEW w \in Worker, Becomes(w, Idle),
         UNCHANGED <<entry, queue, sent, redelivered>>,
         locked' \in SUBSET Subtask
  PROVE  Quiet(w)
<1>1. Idle.pc = "idle"
  BY DEF Idle
<1> QED
  BY <1>1, IdleWorker DEF Quiet

\* A worker that carries on with its subtask.
LEMMA CarryingOnIsQuiet ==
  ASSUME NEW w \in Worker, NEW wk \in WorkerState,
         Becomes(w, wk), Consistent(wk),
         worker[w].pc # "idle",
         HoldsToken(wk) => HoldsToken(worker[w]),
         wk.sub = worker[w].sub,
         wk.to_list \subseteq worker[w].to_list,
         UNCHANGED <<entry, queue, sent, redelivered>>,
         locked' \in SUBSET Subtask
  PROVE  Quiet(w)
BY DEF Quiet

\* A worker with a token that carries on with its subtask.
LEMMA TokenStepIsQuiet ==
  ASSUME NEW w \in Worker, NEW wk \in WorkerState,
         Becomes(w, wk), Consistent(wk),
         HoldsToken(worker[w]),
         wk.sub = worker[w].sub,
         wk.to_list \subseteq worker[w].to_list,
         UNCHANGED <<entry, queue, sent, redelivered>>,
         locked' \in SUBSET Subtask
  PROVE  Quiet(w)
<1>1. worker[w].pc # "idle"
  BY DEF HoldsToken
<1> QED
  BY <1>1, CarryingOnIsQuiet

\* The checks of check_subtask_is_valid.
LEMMA CheckIsQuiet ==
  ASSUME WorkersTyped, NEW w \in Worker, CheckRow(w) \/ AcquireLock(w)
  PROVE  Quiet(w)
<1> USE TypedWorker
<1>0. /\ UNCHANGED <<entry, queue, sent, redelivered>>
      /\ locked' \in SUBSET Subtask
  BY DEF CheckRow, AcquireLock
<1>1. CASE Becomes(w, Idle)
  BY <1>0, <1>1, GoingIdleIsQuiet
<1>2. ASSUME NEW p \in {"lock", "filter"},
             Becomes(w, [worker[w] EXCEPT !.pc = p]),
             worker[w].pc \in {"check", "lock"}
      PROVE  Quiet(w)
  <2> DEFINE wk == [worker[w] EXCEPT !.pc = p]
  <2>1. wk \in WorkerState
    BY <1>2 DEF WorkerState, PC
  <2>2. /\ Consistent(wk)
        /\ HoldsToken(worker[w])
        /\ wk.sub = worker[w].sub
        /\ wk.to_list = worker[w].to_list
    BY <1>2 DEF Consistent, HoldsToken, WorkerState
  <2> QED
    BY <1>0, <1>2, <2>1, <2>2, TokenStepIsQuiet
<1>3. CASE CheckRow(w)
  BY <1>1, <1>2, <1>3 DEF CheckRow, At
<1>4. CASE AcquireLock(w)
  BY <1>1, <1>2, <1>4 DEF AcquireLock, At
<1> QED
  BY <1>3, <1>4

\* The steps before the first email.
LEMMA PrepareIsQuiet ==
  ASSUME WorkersTyped, NEW w \in Worker,
         FilterOptouts(w) \/ PrepareRaises(w) \/ OpenConnection(w)
  PROVE  Quiet(w)
<1> USE TypedWorker
<1>0. /\ UNCHANGED <<entry, queue, sent, redelivered>>
      /\ locked' \in SUBSET Subtask
  BY DEF FilterOptouts, PrepareRaises, OpenConnection
<1>1. CASE FilterOptouts(w)
  <2>1. PICK opt \in Optouts(worker[w]) : Becomes(w, Filtered(worker[w], opt))
    BY <1>1 DEF FilterOptouts
  <2>2. /\ Consistent(Filtered(worker[w], opt))
        /\ HoldsToken(worker[w])
    BY <1>1, FilteredWorker DEF FilterOptouts, At, Consistent, HoldsToken, Done
  <2> QED
    BY <1>0, <2>1, <2>2, FilteredWorker, TokenStepIsQuiet
<1>2. CASE PrepareRaises(w)
  <2>1. PICK opt \in Optouts(worker[w]) :
          Becomes(w, FailedUnexpectedly(Filtered(worker[w], opt)))
    BY <1>2 DEF PrepareRaises
  <2>2. HoldsToken(worker[w])
    BY <1>2 DEF PrepareRaises, At, HoldsToken
  <2> QED
    BY <1>0, <2>1, <2>2, FilteredWorker, FailedUnexpectedlyWorker,
       TokenStepIsQuiet
<1>3. CASE OpenConnection(w)
  <2> DEFINE wk == [worker[w] EXCEPT !.pc = "send"]
  <2>1. wk \in WorkerState
    BY DEF WorkerState, PC
  <2>2. /\ Consistent(wk)
        /\ HoldsToken(worker[w])
        /\ wk.sub = worker[w].sub
        /\ wk.to_list = worker[w].to_list
    BY <1>3 DEF OpenConnection, At, Consistent, HoldsToken, WorkerState
  <2>3. Becomes(w, wk)
    BY <1>3 DEF OpenConnection
  <2> QED
    BY <1>0, <2>1, <2>2, <2>3, TokenStepIsQuiet
<1> QED
  BY <1>1, <1>2, <1>3

\* Processing one recipient shortens the list by the last recipient and
\* leaves the state alone; this is the worker that results.
LEMMA PoppedWorker ==
  ASSUME NEW wk \in WorkerState, wk.pc = "send", wk.to_list # {},
         Consistent(wk),
         NEW d \in [succeeded : Nat, failed : Nat, skipped : Nat,
                    retried_nomax : Nat, retried_withmax : Nat]
  PROVE  LET p == Popped(wk, d) IN
           /\ p \in WorkerState
           /\ Consistent(p)
           /\ p.pc = "send"
           /\ p.sub = wk.sub
           /\ p.to_list = wk.to_list \ {Last(wk.to_list)}
           /\ Last(wk.to_list) \in wk.to_list
           /\ Last(wk.to_list) \in Recipient
<1> DEFINE st == Increment(wk.status, d, wk.status.state)
           list == wk.to_list \ {Last(wk.to_list)}
           p == [wk EXCEPT !.to_list = list, !.status = st]
<1>1. st \in Status /\ st.state = wk.status.state
  BY IncrementType DEF WorkerState, Status
<1>2. /\ Last(wk.to_list) \in wk.to_list
      /\ Last(wk.to_list) \in Recipient
      /\ list \in SUBSET Recipient
  BY DEF Last, WorkerState
<1>3. Popped(wk, d) = p
  BY DEF Popped
<1> HIDE DEF st, list
<1>4. p \in WorkerState
  BY <1>1, <1>2 DEF WorkerState
<1>5. /\ p.pc = "send"
      /\ p.sub = wk.sub
      /\ p.to_list = list
      /\ p.status = st
  BY DEF WorkerState
<1> HIDE DEF p
<1>6. Consistent(p)
  BY <1>1, <1>5 DEF Consistent, Done
<1> QED
  BY <1>2, <1>3, <1>4, <1>5, <1>6 DEF list

\* A recipient who cannot be mailed is popped.
LEMMA EmailFailsIsQuiet ==
  ASSUME WorkersTyped, NEW w \in Worker, EmailFails(w)
  PROVE  Quiet(w)
<1> USE TypedWorker
<1>1. /\ worker[w].pc = "send" /\ worker[w].to_list # {}
      /\ Becomes(w, Popped(worker[w], Failed(1)))
      /\ UNCHANGED <<entry, queue, locked, sent, redelivered>>
      /\ HoldsToken(worker[w])
  BY DEF EmailFails, At, HoldsToken
<1> QED
  BY <1>1, DeltaType, PoppedWorker, TokenStepIsQuiet

\* A retry that is about to be recorded keeps the subtask and the list.
LEMMA RetryPendingWorker ==
  ASSUME NEW wk \in WorkerState, NEW limit \in {"withmax", "nomax"},
         NEW d \in [succeeded : Nat, failed : Nat, skipped : Nat,
                    retried_nomax : Nat, retried_withmax : Nat]
  PROVE  LET p == RetryPending(wk, d, limit) IN
           /\ p \in WorkerState
           /\ Consistent(p)
           /\ p.sub = wk.sub
           /\ p.to_list = wk.to_list
<1> DEFINE st == Increment(wk.status, d, "RETRY")
           p == [wk EXCEPT !.pc = "update", !.tries = 0, !.limit = limit,
                           !.status = st]
<1>1. st \in Status /\ st.state = "RETRY"
  BY IncrementType DEF WorkerState, SubtaskState
<1>2. RetryPending(wk, d, limit) = p
  BY DEF RetryPending
<1> HIDE DEF st
<1>3. p \in WorkerState
  BY <1>1 DEF WorkerState, PC
<1>4. /\ p.pc = "update"
      /\ p.sub = wk.sub
      /\ p.to_list = wk.to_list
      /\ p.status = st
  BY DEF WorkerState
<1> HIDE DEF p
<1> QED
  BY <1>1, <1>2, <1>3, <1>4 DEF Consistent

\* The ways in which the loop over the recipients ends.
LEMMA LoopEndsIsQuiet ==
  ASSUME WorkersTyped, NEW w \in Worker,
         \/ RateLimited(w) \/ TransientError(w)
         \/ BulkFailure(w) \/ AllProcessed(w)
  PROVE  Quiet(w)
<1> USE TypedWorker
<1>0. /\ UNCHANGED <<entry, queue, locked, sent, redelivered>>
      /\ HoldsToken(worker[w])
  BY DEF RateLimited, TransientError, BulkFailure, AllProcessed, At, HoldsToken
<1>1. CASE RateLimited(w) \/ TransientError(w)
  <2>1. PICK limit \in {"withmax", "nomax"}, d \in {RetriedNoMax, RetriedWithMax} :
          Becomes(w, RetryPending(worker[w], d, limit))
    BY <1>1 DEF RateLimited, TransientError
  <2>2. d \in [succeeded : Nat, failed : Nat, skipped : Nat,
               retried_nomax : Nat, retried_withmax : Nat]
    BY DEF RetriedNoMax, RetriedWithMax, Nothing
  <2> QED
    BY <1>0, <2>1, <2>2, RetryPendingWorker, TokenStepIsQuiet
<1>2. CASE BulkFailure(w)
  BY <1>0, <1>2, GivenUpWorker, TokenStepIsQuiet DEF BulkFailure
<1>3. CASE AllProcessed(w)
  <2> DEFINE st == Increment(worker[w].status, Nothing, "SUCCESS")
             wk == [worker[w] EXCEPT !.pc = "close", !.status = st]
  <2>1. st \in Status /\ st.state = "SUCCESS"
    <3>1. Nothing \in [succeeded : Nat, failed : Nat, skipped : Nat,
                       retried_nomax : Nat, retried_withmax : Nat]
      BY DEF Nothing
    <3> QED
      BY <3>1, IncrementType DEF SubtaskState
  <2>2. Becomes(w, wk)
    BY <1>3 DEF AllProcessed
  <2> HIDE DEF st
  <2>3. wk \in WorkerState
    BY <2>1 DEF WorkerState, PC
  <2>4. /\ wk.pc = "close"
        /\ wk.sub = worker[w].sub
        /\ wk.to_list = worker[w].to_list
        /\ wk.status = st
    BY DEF WorkerState
  <2> HIDE DEF wk
  <2>5. Consistent(wk)
    BY <2>1, <2>4 DEF Consistent
  <2> QED
    BY <1>0, <2>2, <2>3, <2>4, <2>5, TokenStepIsQuiet
<1> QED
  BY <1>1, <1>2, <1>3

\* The attempts of an update that fail, and the deletions of the lock.
LEMMA UpdateEndsIsQuiet ==
  ASSUME WorkersTyped, NEW w \in Worker,
         UpdateFails(w) \/ UpdateRaises(w) \/ ReleaseLock(w)
  PROVE  Quiet(w)
<1> USE TypedWorker
<1>0. /\ UNCHANGED <<entry, queue, sent, redelivered>>
      /\ locked' \in SUBSET Subtask
  BY DEF UpdateFails, UpdateRaises, ReleaseLock
<1>1. ASSUME NEW n \in Nat, n > 0, At(w, "update"),
             Becomes(w, [worker[w] EXCEPT !.pc = "unwind", !.releases = n])
      PROVE  Quiet(w)
  <2> DEFINE wk == [worker[w] EXCEPT !.pc = "unwind", !.releases = n]
  <2>1. wk \in WorkerState
    BY DEF WorkerState, PC
  <2>2. /\ Consistent(wk)
        /\ HoldsToken(worker[w])
        /\ wk.sub = worker[w].sub
        /\ wk.to_list = worker[w].to_list
    BY <1>1 DEF Consistent, HoldsToken, WorkerState, At
  <2> QED
    BY <1>0, <1>1, <2>1, <2>2, TokenStepIsQuiet
<1>2. worker[w].tries + 1 \in Nat /\ worker[w].tries + 1 > 0
  BY DEF WorkerState
<1>3. CASE UpdateFails(w)
  <2>1. CASE worker[w].tries + 1 < MaxDbTries
    <3> DEFINE wk == [worker[w] EXCEPT !.tries = worker[w].tries + 1]
    <3>1. wk \in WorkerState
      BY <1>2 DEF WorkerState
    <3>2. /\ Consistent(wk)
          /\ HoldsToken(worker[w])
          /\ wk.sub = worker[w].sub
          /\ wk.to_list = worker[w].to_list
      BY <1>3 DEF UpdateFails, Consistent, HoldsToken, WorkerState, At
    <3>3. Becomes(w, wk)
      BY <1>3, <2>1 DEF UpdateFails
    <3> QED
      BY <1>0, <3>1, <3>2, <3>3, TokenStepIsQuiet
  <2>2. CASE ~(worker[w].tries + 1 < MaxDbTries)
    BY <1>1, <1>2, <1>3, <2>2 DEF UpdateFails
  <2> QED
    BY <2>1, <2>2
<1>4. CASE UpdateRaises(w)
  BY <1>1, <1>2, <1>4 DEF UpdateRaises
<1>5. CASE ReleaseLock(w)
  <2> DEFINE wk == [worker[w] EXCEPT !.releases = worker[w].releases - 1]
  <2>0. /\ worker[w].pc \in {"release", "unwind"}
        /\ worker[w].releases > 0
        /\ worker[w].releases \in Nat
    BY <1>5 DEF ReleaseLock, At, Consistent, WorkerState
  <2>1. wk \in WorkerState
    BY <2>0 DEF WorkerState
  <2>2. /\ wk.pc = worker[w].pc
        /\ wk.sub = worker[w].sub
        /\ wk.to_list = worker[w].to_list
        /\ wk.status = worker[w].status
        /\ wk.releases = worker[w].releases - 1
    BY DEF WorkerState
  <2>3. Becomes(w, IF wk.releases > 0 THEN wk ELSE AfterUpdate(wk))
    BY <1>5 DEF ReleaseLock
  <2> HIDE DEF wk
  <2>4. CASE wk.releases > 0
    <3>1. /\ Consistent(wk)
          /\ HoldsToken(wk) => HoldsToken(worker[w])
      BY <2>0, <2>2, <2>4 DEF Consistent, HoldsToken
    <3> QED
      BY <1>0, <2>0, <2>1, <2>2, <2>3, <2>4, <3>1, CarryingOnIsQuiet
  <2>5. CASE ~(wk.releases > 0) /\ wk.status.state # "RETRY"
    BY <1>0, <2>3, <2>5, GoingIdleIsQuiet DEF AfterUpdate
  <2>6. CASE ~(wk.releases > 0) /\ wk.status.state = "RETRY"
    <3>1. HoldsToken(worker[w])
      BY <2>0, <2>2, <2>6 DEF HoldsToken, Done, READY_STATES
    <3>2. CASE wk.pc = "unwind"
      BY <1>0, <2>1, <2>2, <2>3, <2>6, <3>1, <3>2, FailedUnexpectedlyWorker,
         TokenStepIsQuiet DEF AfterUpdate
    <3>3. CASE wk.pc # "unwind"
      <4> DEFINE wr == [wk EXCEPT !.pc = "retry"]
      <4>1. wr \in WorkerState
        BY <2>1 DEF WorkerState, PC
      <4>2. /\ Consistent(wr)
            /\ wr.sub = wk.sub
            /\ wr.to_list = wk.to_list
        BY <2>1, <2>6 DEF Consistent, WorkerState
      <4>3. Becomes(w, wr)
        BY <2>3, <2>6, <3>3 DEF AfterUpdate
      <4> HIDE DEF wr
      <4> QED
        BY <1>0, <2>2, <3>1, <4>1, <4>2, <4>3, TokenStepIsQuiet
    <3> QED
      BY <3>2, <3>3
  <2> QED
    BY <2>4, <2>5, <2>6
<1> QED
  BY <1>3, <1>4, <1>5

\* The end of an attempt that is not retried, and the death of a worker.
LEMMA EndIsQuiet ==
  ASSUME WorkersTyped, NEW w \in Worker,
         RetryFails(w) \/ CloseConnection(w) \/ WorkerDies(w)
  PROVE  Quiet(w)
<1> USE TypedWorker
<1>0. UNCHANGED <<entry, queue, locked, sent, redelivered>>
  BY DEF RetryFails, CloseConnection, WorkerDies
<1>1. CASE RetryFails(w)
  <2>1. /\ HoldsToken(worker[w])
        /\ Becomes(w, GivenUp(worker[w]))
    BY <1>1 DEF RetryFails, At, HoldsToken
  <2> QED
    BY <1>0, <2>1, GivenUpWorker, TokenStepIsQuiet
<1>2. CASE Becomes(w, Idle)
  BY <1>0, <1>2, GoingIdleIsQuiet
<1>3. CASE CloseConnection(w) /\ worker[w].status.state # "RETRY"
  <2> DEFINE wk == [worker[w] EXCEPT !.pc = "update", !.tries = 0]
  <2>1. wk \in WorkerState
    BY DEF WorkerState, PC
  <2>2. /\ Consistent(wk)
        /\ HoldsToken(worker[w])
        /\ wk.sub = worker[w].sub
        /\ wk.to_list = worker[w].to_list
    BY <1>3 DEF CloseConnection, At, Consistent, HoldsToken, WorkerState
  <2>3. Becomes(w, wk)
    BY <1>3 DEF CloseConnection
  <2> HIDE DEF wk
  <2> QED
    BY <1>0, <2>1, <2>2, <2>3, TokenStepIsQuiet
<1> QED
  BY <1>1, <1>2, <1>3 DEF CloseConnection, WorkerDies

\* Every step of a worker is quiet but for four.
LEMMA QuietSteps ==
  ASSUME WorkersTyped, NEW w \in Worker,
         Step(w) \/ UpdateFails(w) \/ UpdateRaises(w) \/ WorkerDies(w)
  PROVE  \/ Deliver(w) \/ EmailSent(w) \/ RetryPublished(w) \/ UpdateCommits(w)
         \/ Quiet(w)
BY CheckIsQuiet, PrepareIsQuiet, EmailFailsIsQuiet, LoopEndsIsQuiet,
   UpdateEndsIsQuiet, EndIsQuiet DEF Step

-----------------------------------------------------------------------------
(* The tokens and the lists, whatever the row says.                        *)

\* The part of IInv that does not speak of the row.
TokensKept ==
  /\ WorkersTyped
  /\ queue \in SUBSET Message
  /\ sent \in [Subtask -> [Recipient -> Nat]]
  /\ OneToken
  /\ ListedAreUnmailed
  /\ WorkerConsistent
  /\ NoDuplicateMail

\* A message or a worker has the token of the subtask.
HasToken(s) ==
  \/ \E m \in queue : m.sub = s
  \/ \E w \in Worker : HoldsToken(worker[w]) /\ worker[w].sub = s

\* The recipients that a subtask has mailed, or lists where its token is.
Touched(s) ==
  {r \in Recipient :
     \/ sent[s][r] > 0
     \/ \E m \in queue : m.sub = s /\ r \in m.to_list
     \/ \E w \in Worker : /\ HoldsToken(worker[w])
                          /\ worker[w].sub = s
                          /\ r \in worker[w].to_list}

\* A step that invents no token, and no recipient of a subtask.
WorkKept ==
  /\ TokensKept'
  /\ \A s \in Subtask : /\ HasToken(s)' => HasToken(s)
                        /\ Touched(s)' \subseteq Touched(s)

\* What TokensKept says of one worker.
LEMMA KeptWorker ==
  ASSUME TokensKept, NEW w \in Worker
  PROVE  /\ worker[w] \in WorkerState
         /\ worker[w].sub \in Subtask
         /\ worker[w].to_list \in SUBSET Recipient
         /\ worker[w].status \in Status
         /\ worker[w].status.state \in SubtaskState
         /\ Consistent(worker[w])
         /\ locked \in SUBSET Subtask
BY TypedWorker DEF TokensKept

\* A quiet step keeps the tokens.
LEMMA QuietKeepsTokens ==
  ASSUME TokensKept, NEW w \in Worker, Quiet(w)
  PROVE  WorkKept
<1> PICK wk \in WorkerState :
      /\ Becomes(w, wk)
      /\ Consistent(wk)
      /\ HoldsToken(wk) => HoldsToken(worker[w])
      /\ HoldsToken(wk) => /\ wk.sub = worker[w].sub
                           /\ wk.to_list \subseteq worker[w].to_list
  BY DEF Quiet, HoldsToken
<1>0. /\ UNCHANGED <<entry, queue, sent, redelivered>>
      /\ locked' \in SUBSET Subtask
  BY DEF Quiet
<1>1. /\ worker' \in [Worker -> WorkerState]
      /\ worker'[w] = wk
      /\ \A v \in Worker : v # w => worker'[v] = worker[v]
  BY DEF TokensKept, WorkersTyped, Becomes
<1>2. WorkersTyped'
  BY <1>0, <1>1 DEF TokensKept, WorkersTyped
<1>3. OneToken'
  BY <1>0, <1>1 DEF TokensKept, OneToken
<1>4. ListedAreUnmailed'
  BY <1>0, <1>1 DEF TokensKept, ListedAreUnmailed
<1>5. WorkerConsistent'
  BY <1>0, <1>1 DEF TokensKept, WorkerConsistent
<1>6. TokensKept'
  BY <1>0, <1>2, <1>3, <1>4, <1>5 DEF TokensKept, NoDuplicateMail
<1>7. \A s \in Subtask : HasToken(s)' => HasToken(s)
  BY <1>0, <1>1 DEF HasToken
<1>8. \A s \in Subtask : Touched(s)' \subseteq Touched(s)
  BY <1>0, <1>1 DEF Touched
<1> QED
  BY <1>6, <1>7, <1>8 DEF WorkKept

\* A recipient who is mailed is popped with it: the mail is its first, and
\* the list that is left does not name it.
LEMMA MailKeepsTokens ==
  ASSUME TokensKept, NEW w \in Worker, EmailSent(w)
  PROVE  WorkKept
<1> DEFINE p == Popped(worker[w], Succeeded(1))
           s == worker[w].sub
           r == Last(worker[w].to_list)
<1>1. /\ worker[w].pc = "send" /\ worker[w].to_list # {}
      /\ Becomes(w, p)
      /\ sent' = [sent EXCEPT ![s][r] = @ + 1]
      /\ UNCHANGED <<entry, queue, locked, redelivered>>
      /\ HoldsToken(worker[w])
  BY DEF EmailSent, At, HoldsToken
<1>2. /\ p \in WorkerState
      /\ Consistent(p)
      /\ p.pc = "send"
      /\ p.sub = s
      /\ p.to_list = worker[w].to_list \ {r}
      /\ r \in worker[w].to_list
      /\ r \in Recipient
      /\ s \in Subtask
  BY <1>1, KeptWorker, DeltaType, PoppedWorker
<1> HIDE DEF p, r, s
<1>3. /\ worker' \in [Worker -> WorkerState]
      /\ worker'[w] = p
      /\ \A v \in Worker : v # w => worker'[v] = worker[v]
  BY <1>1, <1>2 DEF TokensKept, WorkersTyped, Becomes
<1>4. /\ HoldsToken(p)
      /\ s = worker[w].sub
  BY <1>2 DEF HoldsToken, s
<1>5. /\ sent[s][r] = 0
      /\ sent' \in [Subtask -> [Recipient -> Nat]]
      /\ sent'[s][r] = 1
      /\ \A t \in Subtask, q \in Recipient :
           (t # s \/ q # r) => sent'[t][q] = sent[t][q]
  BY <1>1, <1>2, <1>4 DEF TokensKept, ListedAreUnmailed
<1>6. WorkersTyped' /\ OneToken' /\ WorkerConsistent'
  <2>1. WorkersTyped'
    BY <1>1, <1>2, <1>3 DEF TokensKept, WorkersTyped
  <2>2. OneToken'
    <3>1. \A v \in Worker : /\ HoldsToken(worker'[v]) => HoldsToken(worker[v])
                            /\ worker'[v].sub = worker[v].sub
      BY <1>1, <1>2, <1>3, <1>4
    <3> QED
      BY <1>1, <3>1 DEF TokensKept, OneToken
  <2>3. WorkerConsistent'
    BY <1>1, <1>2, <1>3 DEF TokensKept, WorkerConsistent
  <2> QED
    BY <2>1, <2>2, <2>3
<1>7. ListedAreUnmailed'
  <2>1. ASSUME NEW m \in queue, NEW q \in m.to_list
        PROVE  sent'[m.sub][q] = 0
    <3>1. m.sub # s /\ m.sub \in Subtask /\ q \in Recipient
      BY <1>1, <1>4 DEF TokensKept, OneToken, Message
    <3> QED
      BY <1>5, <3>1 DEF TokensKept, ListedAreUnmailed
  <2>2. ASSUME NEW v \in Worker, HoldsToken(worker'[v]),
               NEW q \in worker'[v].to_list
        PROVE  sent'[worker'[v].sub][q] = 0
    <3>1. CASE v = w
      <4>1. q # r /\ q \in worker[w].to_list /\ q \in Recipient
        BY <1>2, <1>3, <3>1, KeptWorker
      <4>2. sent[s][q] = 0
        BY <1>1, <1>4, <4>1 DEF TokensKept, ListedAreUnmailed
      <4> QED
        BY <1>2, <1>3, <1>5, <3>1, <4>1, <4>2
    <3>2. CASE v # w
      <4>1. /\ HoldsToken(worker[v])
            /\ worker[v].sub # s
            /\ worker[v].sub \in Subtask
            /\ q \in worker[v].to_list
            /\ q \in Recipient
        BY <1>1, <1>3, <1>4, <2>2, <3>2, KeptWorker DEF TokensKept, OneToken
      <4>2. sent[worker[v].sub][q] = 0
        BY <4>1 DEF TokensKept, ListedAreUnmailed
      <4> QED
        BY <1>3, <1>5, <3>2, <4>1, <4>2
    <3> QED
      BY <3>1, <3>2
  <2> QED
    BY <1>1, <2>1, <2>2 DEF ListedAreUnmailed
<1>8. NoDuplicateMail'
  BY <1>1, <1>2, <1>5 DEF TokensKept, NoDuplicateMail
<1>9. TokensKept'
  BY <1>1, <1>5, <1>6, <1>7, <1>8 DEF TokensKept
<1>10. \A t \in Subtask : HasToken(t)' => HasToken(t)
  BY <1>1, <1>2, <1>3, <1>4 DEF HasToken
<1>11. ASSUME NEW t \in Subtask, NEW q \in Recipient, q \in Touched(t)'
       PROVE  q \in Touched(t)
  <2>1. r \in Touched(s)
    BY <1>1, <1>2, <1>4 DEF Touched
  <2>2. CASE t = s /\ q = r
    BY <2>1, <2>2
  <2>3. CASE ~(t = s /\ q = r)
    <3>1. sent'[t][q] = sent[t][q]
      BY <1>5, <2>3
    <3> QED
      BY <1>1, <1>2, <1>3, <1>4, <1>11, <3>1 DEF Touched
  <2> QED
    BY <2>2, <2>3
<1>12. \A t \in Subtask : Touched(t)' \subseteq Touched(t)
  BY <1>11 DEF Touched
<1> QED
  BY <1>9, <1>10, <1>12 DEF WorkKept

\* A delivered message is gone from the queue: its token is the worker's.
LEMMA DeliverKeepsTokens ==
  ASSUME TokensKept, NEW w \in Worker, Deliver(w)
  PROVE  WorkKept
<1>1. PICK m \in queue : queue' = queue \ {m} /\ Becomes(w, Begun(m))
  BY DEF Deliver
<1>2. /\ UNCHANGED <<entry, locked, sent, redelivered>>
      /\ worker[w].pc = "idle"
  BY DEF Deliver, At
<1>3. /\ m \in Message
      /\ m.sub \in Subtask
      /\ m.to_list \in SUBSET Recipient
      /\ m.status \in Status
      /\ m.retries \in Nat
      /\ ~Done(m.status)
  BY DEF TokensKept, Message, WorkerConsistent
<1> DEFINE wk == Begun(m)
<1>4. /\ wk \in WorkerState
      /\ wk.pc = "check"
      /\ wk.sub = m.sub
      /\ wk.to_list = m.to_list
      /\ wk.status = m.status
  BY <1>3, IdleWorker, ListLength DEF Begun, WorkerState, PC
<1>5. Consistent(wk)
  BY <1>3, <1>4 DEF Consistent
<1> HIDE DEF wk
<1>6. /\ worker' \in [Worker -> WorkerState]
      /\ worker'[w] = wk
      /\ \A v \in Worker : v # w => worker'[v] = worker[v]
  BY <1>1, <1>4 DEF TokensKept, WorkersTyped, Becomes, wk
<1>7. WorkersTyped'
  BY <1>2, <1>5, <1>6 DEF TokensKept, WorkersTyped
<1>8. OneToken'
  BY <1>1, <1>4, <1>6 DEF TokensKept, OneToken
<1>9. ListedAreUnmailed'
  BY <1>1, <1>2, <1>4, <1>6 DEF TokensKept, ListedAreUnmailed
<1>10. WorkerConsistent'
  BY <1>1, <1>5, <1>6 DEF TokensKept, WorkerConsistent
<1>11. TokensKept'
  BY <1>1, <1>2, <1>7, <1>8, <1>9, <1>10 DEF TokensKept, NoDuplicateMail
<1>12. \A s \in Subtask : HasToken(s)' => HasToken(s)
  BY <1>1, <1>4, <1>6 DEF HasToken
<1>13. \A s \in Subtask : Touched(s)' \subseteq Touched(s)
  BY <1>1, <1>2, <1>4, <1>6 DEF Touched
<1> QED
  BY <1>11, <1>12, <1>13 DEF WorkKept

\* A published retry carries the token of the worker, who is left without.
LEMMA RetryKeepsTokens ==
  ASSUME TokensKept, NEW w \in Worker, RetryPublished(w)
  PROVE  WorkKept
<1> DEFINE m == RetryMessage(worker[w])
           wk == [worker[w] EXCEPT !.pc = "close"]
<1>1. /\ queue' = queue \cup {m}
      /\ Becomes(w, wk)
      /\ UNCHANGED <<entry, locked, sent, redelivered>>
      /\ worker[w].pc = "retry"
      /\ worker[w].status.state = "RETRY"
      /\ HoldsToken(worker[w])
  BY KeptWorker DEF RetryPublished, At, Consistent, HoldsToken
<1>2. /\ m \in Message
      /\ m.sub = worker[w].sub
      /\ m.to_list = worker[w].to_list
      /\ m.status = worker[w].status
  BY KeptWorker DEF RetryMessage, Message, WorkerState
<1>3. /\ wk \in WorkerState
      /\ wk.pc = "close"
      /\ wk.status = worker[w].status
  BY KeptWorker DEF WorkerState, PC
<1> HIDE DEF m, wk
<1>4. ~HoldsToken(wk) /\ Consistent(wk) /\ ~Done(m.status)
  BY <1>1, <1>2, <1>3 DEF HoldsToken, Consistent, Done, READY_STATES
<1>5. /\ worker' \in [Worker -> WorkerState]
      /\ worker'[w] = wk
      /\ \A v \in Worker : v # w => worker'[v] = worker[v]
  BY <1>1, <1>3 DEF TokensKept, WorkersTyped, Becomes
<1>6. WorkersTyped'
  BY <1>1, <1>4, <1>5 DEF TokensKept, WorkersTyped
<1>7. OneToken'
  BY <1>1, <1>2, <1>4, <1>5 DEF TokensKept, OneToken
<1>8. ListedAreUnmailed'
  BY <1>1, <1>2, <1>4, <1>5 DEF TokensKept, ListedAreUnmailed
<1>9. WorkerConsistent'
  BY <1>1, <1>4, <1>5 DEF TokensKept, WorkerConsistent
<1>10. TokensKept'
  BY <1>1, <1>2, <1>6, <1>7, <1>8, <1>9 DEF TokensKept, NoDuplicateMail
<1>11. \A s \in Subtask : HasToken(s)' => HasToken(s)
  BY <1>1, <1>2, <1>4, <1>5 DEF HasToken
<1>12. \A s \in Subtask : Touched(s)' \subseteq Touched(s)
  BY <1>1, <1>2, <1>4, <1>5 DEF Touched
<1> QED
  BY <1>10, <1>11, <1>12 DEF WorkKept

\* The worker that has recorded the end of a subtask has no token of it.
LEMMA CommitKeepsTokens ==
  ASSUME TokensKept, NEW w \in Worker, UpdateCommits(w)
  PROVE  /\ WorkKept
         /\ HasToken(worker[w].sub)
         /\ \A s \in Subtask : s = worker[w].sub /\ Done(worker[w].status)
                                => ~HasToken(s)'
<1> PICK s \in Subtask, st \in Status :
      s = worker[w].sub /\ st = worker[w].status /\ st.state \in SubtaskState
  BY KeptWorker
<1> DEFINE wk == [worker[w] EXCEPT !.pc = "release",
                                   !.releases = worker[w].tries + 1]
<1>1. /\ Becomes(w, wk)
      /\ UNCHANGED <<queue, locked, sent, redelivered>>
      /\ worker[w].pc = "update"
      /\ HoldsToken(worker[w])
      /\ st.state # "QUEUING"
  BY KeptWorker DEF UpdateCommits, At, HoldsToken, Consistent
<1>2. /\ wk \in WorkerState
      /\ wk.pc = "release"
      /\ wk.sub = s
      /\ wk.status = st
      /\ wk.to_list = worker[w].to_list
      /\ wk.releases > 0
  <2>1. worker[w].tries + 1 \in Nat /\ worker[w].tries + 1 > 0
    BY KeptWorker DEF WorkerState
  <2>2. wk \in WorkerState
    BY <2>1, KeptWorker DEF WorkerState, PC
  <2>3. /\ wk.pc = "release"
        /\ wk.sub = s
        /\ wk.status = st
        /\ wk.to_list = worker[w].to_list
        /\ wk.releases = worker[w].tries + 1
    BY KeptWorker DEF WorkerState
  <2> QED
    BY <2>1, <2>2, <2>3
<1> HIDE DEF wk
<1>3. Consistent(wk) /\ (HoldsToken(wk) <=> ~Done(st))
  BY <1>1, <1>2 DEF Consistent, HoldsToken
<1>4. /\ worker' \in [Worker -> WorkerState]
      /\ worker'[w] = wk
      /\ \A v \in Worker : v # w => worker'[v] = worker[v]
  BY <1>1, <1>2 DEF TokensKept, WorkersTyped, Becomes
<1>5. WorkersTyped'
  BY <1>1, <1>3, <1>4 DEF TokensKept, WorkersTyped
<1>6. OneToken'
  BY <1>1, <1>2, <1>4 DEF TokensKept, OneToken
<1>7. ListedAreUnmailed'
  BY <1>1, <1>2, <1>4 DEF TokensKept, ListedAreUnmailed
<1>8. WorkerConsistent'
  BY <1>1, <1>3, <1>4 DEF TokensKept, WorkerConsistent
<1>9. TokensKept'
  BY <1>1, <1>5, <1>6, <1>7, <1>8 DEF TokensKept, NoDuplicateMail
<1>10. \A t \in Subtask : HasToken(t)' => HasToken(t)
  BY <1>1, <1>2, <1>4 DEF HasToken
<1>11. \A t \in Subtask : Touched(t)' \subseteq Touched(t)
  BY <1>1, <1>2, <1>4 DEF Touched
<1>12. HasToken(s)
  BY <1>1 DEF HasToken
<1>13. Done(st) => ~HasToken(s)'
  BY <1>1, <1>2, <1>3, <1>4 DEF HasToken, TokensKept, OneToken
<1> QED
  BY <1>9, <1>10, <1>11, <1>12, <1>13 DEF WorkKept

\* The lock does not matter to the tokens.
LEMMA ExpiryKeepsTokens ==
  ASSUME TokensKept, NEW s \in Subtask, LockExpires(s)
  PROVE  WorkKept
BY DEF LockExpires, TokensKept, WorkersTyped, OneToken, ListedAreUnmailed,
       WorkerConsistent, NoDuplicateMail, WorkKept, HasToken, Touched

\* Every step keeps the tokens, and the row unless it commits an update.
LEMMA StepKeepsTokens ==
  ASSUME TokensKept, NEW w \in Worker,
         Step(w) \/ UpdateFails(w) \/ UpdateRaises(w) \/ WorkerDies(w)
  PROVE  /\ WorkKept
         /\ UpdateCommits(w) \/ UNCHANGED <<entry, redelivered>>
<1>1. WorkersTyped
  BY DEF TokensKept
<1>2. \/ Deliver(w) \/ EmailSent(w) \/ RetryPublished(w) \/ UpdateCommits(w)
      \/ Quiet(w)
  BY <1>1, QuietSteps
<1>3. WorkKept
  BY <1>2, QuietKeepsTokens, MailKeepsTokens, DeliverKeepsTokens,
     RetryKeepsTokens, CommitKeepsTokens
<1>4. UpdateCommits(w) \/ UNCHANGED <<entry, redelivered>>
  BY <1>2 DEF Deliver, EmailSent, RetryPublished, Quiet
<1> QED
  BY <1>3, <1>4

-----------------------------------------------------------------------------
(* Recording: the counters, the statuses and the task's state agree.       *)

\* Two disjoint subsets of a finite set are together as many as the set just
\* when they cover it.
LEMMA DisjointCover ==
  ASSUME NEW T, IsFiniteSet(T), NEW A \in SUBSET T, NEW B \in SUBSET T,
         A \cap B = {}
  PROVE  /\ Cardinality(T) \in Nat
         /\ Cardinality(A) \in Nat
         /\ Cardinality(B) \in Nat
         /\ Cardinality(T) - Cardinality(A) - Cardinality(B) <= 0
              <=> A \cup B = T
<1>1. /\ IsFiniteSet(A) /\ IsFiniteSet(B)
      /\ Cardinality(T) \in Nat
      /\ Cardinality(A) \in Nat
      /\ Cardinality(B) \in Nat
  BY FS_Subset, FS_CardinalityType
<1>2. Cardinality(A \cup B) = Cardinality(A) + Cardinality(B)
  <2>1. Cardinality(A \cup B) =
          Cardinality(A) + Cardinality(B) - Cardinality(A \cap B)
    BY <1>1, FS_Union
  <2>2. Cardinality(A \cap B) = 0
    BY FS_EmptySet
  <2> QED
    BY <1>1, <2>1, <2>2
<1>3. /\ Cardinality(A \cup B) <= Cardinality(T)
      /\ Cardinality(A \cup B) = Cardinality(T) => A \cup B = T
  BY FS_Subset
<1>4. CASE A \cup B = T
  <2>1. Cardinality(A \cup B) = Cardinality(T)
    BY <1>4, Zenon
  <2>2. Cardinality(A) + Cardinality(B) = Cardinality(T)
    BY <1>2, <2>1, Zenon
  <2> QED
    BY <1>1, <1>4, <2>2
<1>5. CASE A \cup B # T
  <2>1. Cardinality(A) + Cardinality(B) < Cardinality(T)
    BY <1>1, <1>2, <1>3, <1>5
  <2> QED
    BY <1>1, <1>5, <2>1
<1> QED
  BY <1>4, <1>5

\* A row whose counters match its statuses counts down to zero just when
\* every subtask is over.
LEMMA NoneRemaining ==
  ASSUME NEW f \in [Subtask -> Status], \A s \in Subtask : f[s].state \in SubtaskState
  PROVE  LET A == {s \in Subtask : f[s].state = "SUCCESS"}
             B == {s \in Subtask : f[s].state = "FAILURE"}
         IN /\ Cardinality(A) \in Nat
            /\ Cardinality(B) \in Nat
            /\ Cardinality(Subtask) - Cardinality(A) - Cardinality(B) <= 0
                 <=> \A s \in Subtask : Done(f[s])
<1> DEFINE A == {s \in Subtask : f[s].state = "SUCCESS"}
           B == {s \in Subtask : f[s].state = "FAILURE"}
<1>1. /\ Cardinality(A) \in Nat
      /\ Cardinality(B) \in Nat
      /\ Cardinality(Subtask) - Cardinality(A) - Cardinality(B) <= 0
           <=> A \cup B = Subtask
  <2>1. A \in SUBSET Subtask /\ B \in SUBSET Subtask /\ A \cap B = {}
    OBVIOUS
  <2> QED
    BY <2>1, SubtaskAssumption, DisjointCover
<1>2. A \cup B = Subtask <=> \A s \in Subtask : Done(f[s])
  BY DEF Done, READY_STATES, SubtaskState
<1> QED
  BY <1>1, <1>2

\* The subtasks that a row knows to be in a state.
StateIn(e, state) == {s \in Subtask : e.status[s].state = state}

\* A row that knows every subtask, and how many of them are over.
CountedRow(e) ==
  /\ e.status \in [Subtask -> Status]
  /\ e.total = Cardinality(Subtask)
  /\ e.succeeded = Cardinality(StateIn(e, "SUCCESS"))
  /\ e.failed = Cardinality(StateIn(e, "FAILURE"))

\* Recording a subtask that was not over keeps the counters right, and finds
\* out whether it was the last.
LEMMA RecordedCounts ==
  ASSUME CountedRow(entry), NEW s \in Subtask, NEW st \in Status,
         ~Done(entry.status[s])
  PROVE  LET e == Recorded(s, st) IN
           /\ CountedRow(e)
           /\ e.status = [entry.status EXCEPT ![s] = st]
           /\ e.task_state = IF \A t \in Subtask : Done(e.status[t])
                             THEN "SUCCESS" ELSE entry.task_state
           /\ e.output = IF Done(st) THEN Added(entry.output, st)
                         ELSE entry.output
           /\ e.succeeded \in Nat /\ e.failed \in Nat /\ e.total \in Nat
<1> DEFINE succeeded == entry.succeeded + (IF st.state = "SUCCESS" THEN 1 ELSE 0)
           failed == entry.failed +
                       (IF Done(st) /\ st.state # "SUCCESS" THEN 1 ELSE 0)
           status == [entry.status EXCEPT ![s] = st]
           state == IF entry.total - succeeded - failed <= 0
                    THEN "SUCCESS" ELSE entry.task_state
<1> PICK e : e = Recorded(s, st)
  OBVIOUS
<1>1. /\ e.task_state = state
      /\ e.total = entry.total
      /\ e.succeeded = succeeded
      /\ e.failed = failed
      /\ e.status = status
      /\ e.output = IF Done(st) THEN Added(entry.output, st) ELSE entry.output
  BY DEF Recorded
<1>2. /\ status[s] = st
      /\ \A t \in Subtask : t # s => status[t] = entry.status[t]
      /\ status \in [Subtask -> Status]
      /\ \A t \in Subtask : status[t].state \in SubtaskState
      /\ st.state \in SubtaskState
  BY DEF CountedRow, Status
<1> HIDE DEF status
<1>3. /\ StateIn(e, "SUCCESS") = IF st.state = "SUCCESS"
                                 THEN StateIn(entry, "SUCCESS") \cup {s}
                                 ELSE StateIn(entry, "SUCCESS")
      /\ StateIn(e, "FAILURE") = IF st.state = "FAILURE"
                                 THEN StateIn(entry, "FAILURE") \cup {s}
                                 ELSE StateIn(entry, "FAILURE")
      /\ s \notin StateIn(entry, "SUCCESS")
      /\ s \notin StateIn(entry, "FAILURE")
  BY <1>1, <1>2 DEF StateIn, Done, READY_STATES
<1>4. /\ IsFiniteSet(StateIn(entry, "SUCCESS"))
      /\ IsFiniteSet(StateIn(entry, "FAILURE"))
  <2>1. /\ StateIn(entry, "SUCCESS") \in SUBSET Subtask
        /\ StateIn(entry, "FAILURE") \in SUBSET Subtask
    BY DEF StateIn
  <2> QED
    BY <2>1, SubtaskAssumption, FS_Subset
<1>5. /\ Cardinality(StateIn(entry, "SUCCESS") \cup {s}) = entry.succeeded + 1
      /\ Cardinality(StateIn(entry, "FAILURE") \cup {s}) = entry.failed + 1
      /\ Cardinality(StateIn(entry, "SUCCESS")) = entry.succeeded
      /\ Cardinality(StateIn(entry, "FAILURE")) = entry.failed
      /\ entry.succeeded \in Nat /\ entry.failed \in Nat
  <2>1. /\ Cardinality(StateIn(entry, "SUCCESS")) \in Nat
        /\ Cardinality(StateIn(entry, "FAILURE")) \in Nat
    BY <1>4, FS_CardinalityType
  <2>2. /\ Cardinality(StateIn(entry, "SUCCESS") \cup {s}) =
             Cardinality(StateIn(entry, "SUCCESS")) + 1
        /\ Cardinality(StateIn(entry, "FAILURE") \cup {s}) =
             Cardinality(StateIn(entry, "FAILURE")) + 1
    BY <1>3, <1>4, FS_AddElement
  <2> QED
    BY <2>1, <2>2, Zenon DEF CountedRow
<1>6. /\ Cardinality(StateIn(e, "SUCCESS")) = succeeded
      /\ Cardinality(StateIn(e, "FAILURE")) = failed
  <2>1. Done(st) <=> st.state \in {"SUCCESS", "FAILURE"}
    BY <1>2 DEF Done, READY_STATES, SubtaskState
  <2>2. CASE st.state = "SUCCESS"
    BY <1>3, <1>5, <2>1, <2>2
  <2>3. CASE st.state = "FAILURE"
    BY <1>3, <1>5, <2>1, <2>3
  <2>4. CASE st.state \notin {"SUCCESS", "FAILURE"}
    BY <1>3, <1>5, <2>1, <2>4
  <2> QED
    BY <2>2, <2>3, <2>4
<1>7. entry.total - succeeded - failed <= 0
        <=> \A t \in Subtask : Done(status[t])
  BY <1>1, <1>2, <1>6, NoneRemaining DEF StateIn, CountedRow
<1>8. CountedRow(e)
  BY <1>1, <1>2, <1>6 DEF CountedRow
<1>9. e.succeeded \in Nat /\ e.failed \in Nat /\ e.total \in Nat
  BY <1>1, <1>5, SubtaskAssumption, FS_CardinalityType DEF CountedRow
<1> QED
  BY <1>1, <1>7, <1>8, <1>9 DEF status

-----------------------------------------------------------------------------
(* Preservation of IInv.                                                   *)

\* What IInv says of the tokens and of the row.
LEMMA InvariantParts ==
  ASSUME IInv
  PROVE  /\ TokensKept
         /\ CountedRow(entry)
         /\ \A s \in Subtask : Done(entry.status[s]) => ~HasToken(s)
<1>1. TokensKept
  BY DEF IInv, TypeOK, TokensKept, WorkersTyped, WorkerConsistent
<1>2. CountedRow(entry)
  BY DEF IInv, TypeOK, EntryType, TotalsKnown, CountersMatchStatuses, CountedRow,
         InState, StateIn
<1>3. \A s \in Subtask : Done(entry.status[s]) => ~HasToken(s)
  BY DEF IInv, DoneHasNoToken, HasToken
<1> QED
  BY <1>1, <1>2, <1>3

\* A step to a row of the right type that counts its subtasks, says SUCCESS
\* when all of them are over, and knows of no token of one that is over.
LEMMA PartsPreserve ==
  ASSUME TokensKept', CountedRow(entry'), entry' \in EntryType,
         redelivered' \in Nat,
         entry'.task_state \in {"PROGRESS", "SUCCESS"},
         entry'.task_state = "SUCCESS"
           <=> \A s \in Subtask : Done(entry'.status[s]),
         \A s \in Subtask : Done(entry'.status[s]) => ~HasToken(s)'
  PROVE  IInv'
<1>1. TypeOK'
  BY DEF TokensKept, WorkersTyped, TypeOK
<1>2. DoneHasNoToken'
  <2>1. \A m \in queue' : m.sub \in Subtask
    BY DEF TokensKept, Message
  <2>2. \A w \in Worker : worker'[w].sub \in Subtask
    BY DEF TokensKept, WorkersTyped, WorkerState
  <2> QED
    BY <2>1, <2>2 DEF DoneHasNoToken, HasToken
<1>3. TotalsKnown' /\ CountersMatchStatuses' /\ SuccessMeansAllDone'
  BY DEF TotalsKnown, CountersMatchStatuses, SuccessMeansAllDone, CountedRow,
         InState, StateIn
<1> QED
  BY <1>1, <1>2, <1>3 DEF IInv, TokensKept

\* A step that keeps the tokens and the row.
LEMMA WorkKeptPreserves ==
  ASSUME IInv, WorkKept, entry' = entry, redelivered' \in Nat
  PROVE  IInv'
<1>1. \A s \in Subtask : HasToken(s)' => HasToken(s)
  BY DEF WorkKept
<1>2. CountedRow(entry')
  BY InvariantParts
<1>3. /\ entry' \in EntryType
      /\ entry'.task_state \in {"PROGRESS", "SUCCESS"}
      /\ entry'.task_state = "SUCCESS"
           <=> \A s \in Subtask : Done(entry'.status[s])
  BY DEF IInv, TypeOK, EntryType, TotalsKnown, SuccessMeansAllDone
<1>4. \A s \in Subtask : Done(entry'.status[s]) => ~HasToken(s)'
  BY <1>1, InvariantParts
<1> QED
  BY <1>2, <1>3, <1>4, PartsPreserve DEF WorkKept

\* Committing an update records the end of a subtask at most once.
LEMMA UpdateCommitsPreserves ==
  ASSUME IInv, NEW w \in Worker, UpdateCommits(w)
  PROVE  IInv'
<1> PICK s \in Subtask, st \in Status :
      s = worker[w].sub /\ st = worker[w].status /\ st.state \in SubtaskState
  BY WorkerFacts
<1>1. /\ entry' = Recorded(s, st)
      /\ redelivered' = redelivered
  BY DEF UpdateCommits
<1>2. TokensKept /\ CountedRow(entry)
  BY InvariantParts
<1>3. /\ WorkKept
      /\ HasToken(s)
      /\ Done(st) => ~HasToken(s)'
  BY <1>2, CommitKeepsTokens
<1>4. ~Done(entry.status[s])
  BY <1>3, InvariantParts
<1>5. /\ CountedRow(entry')
      /\ entry'.status = [entry.status EXCEPT ![s] = st]
      /\ entry'.task_state = IF \A t \in Subtask : Done(entry'.status[t])
                             THEN "SUCCESS" ELSE entry.task_state
      /\ entry'.output = IF Done(st) THEN Added(entry.output, st)
                         ELSE entry.output
      /\ entry'.succeeded \in Nat /\ entry'.failed \in Nat /\ entry'.total \in Nat
  BY <1>1, <1>2, <1>4, RecordedCounts
<1>6. /\ entry'.status \in [Subtask -> Status]
      /\ entry'.status[s] = st
      /\ \A t \in Subtask : t # s => entry'.status[t] = entry.status[t]
  BY <1>2, <1>5 DEF CountedRow
<1>7. /\ entry.output \in [kind : {"progress"}, attempted : Nat, succeeded : Nat,
                           failed : Nat, skipped : Nat]
      /\ entry.task_state \in {"PROGRESS", "SUCCESS"}
      /\ redelivered \in Nat
      /\ entry.task_state # "SUCCESS"
  BY <1>2, <1>4 DEF IInv, TypeOK, EntryType, TotalsKnown, SuccessMeansAllDone, CountedRow
<1>8. /\ entry'.task_state \in {"PROGRESS", "SUCCESS"}
      /\ entry'.task_state = "SUCCESS"
           <=> \A t \in Subtask : Done(entry'.status[t])
  BY <1>5, <1>7
<1>9. entry'.output \in [kind : {"progress"}, attempted : Nat, succeeded : Nat,
                         failed : Nat, skipped : Nat]
  BY <1>5, <1>7 DEF Status, Added
<1>10. entry' \in EntryType
  <2>1. entry' = [task_state |-> entry'.task_state, total |-> entry'.total,
                  succeeded |-> entry'.succeeded, failed |-> entry'.failed,
                  status |-> entry'.status, output |-> entry'.output]
    BY <1>1 DEF Recorded
  <2> QED
    BY <1>5, <1>6, <1>8, <1>9, <2>1 DEF EntryType
<1>11. \A t \in Subtask : Done(entry'.status[t]) => ~HasToken(t)'
  BY <1>3, <1>6, InvariantParts DEF WorkKept
<1>12. TokensKept' /\ redelivered' \in Nat
  BY <1>1, <1>3, <1>7 DEF WorkKept
<1> QED
  BY <1>5, <1>8, <1>10, <1>11, <1>12, PartsPreserve

-----------------------------------------------------------------------------
(* The theorems.                                                           *)

\* The invariant holds when the subtasks have just been queued.
LEMMA InitEstablishes == Init => IInv
<1> SUFFICES ASSUME Init PROVE IInv
  OBVIOUS
<1>1. NewStatus \in Status /\ ~Done(NewStatus) /\ NewStatus.state = "QUEUING"
  BY DEF NewStatus, Status, SubtaskState, Done, READY_STATES
<1>2. Cardinality(Subtask) \in Nat
  BY SubtaskAssumption, FS_CardinalityType
<1>3. /\ \A s \in Subtask : entry.status[s] = NewStatus
      /\ entry.status \in [Subtask -> Status]
      /\ entry.succeeded = 0 /\ entry.failed = 0
      /\ entry.total = Cardinality(Subtask)
      /\ entry.task_state = "PROGRESS"
      /\ entry \in EntryType
  BY <1>1, <1>2 DEF Init, EntryType, NoOutput
<1>4. \A m \in queue : /\ m \in Message
                       /\ m.status = NewStatus
                       /\ m = [sub |-> m.sub, to_list |-> Recipient,
                               status |-> NewStatus, retries |-> 0]
                       /\ m.sub \in Subtask
  BY <1>1 DEF Init, Message
<1>5. \A w \in Worker : worker[w] = Idle
  BY DEF Init
<1>6. TypeOK
  BY <1>3, <1>4, <1>5, IdleWorker DEF Init, TypeOK
<1>7. OneToken /\ DoneHasNoToken
  BY <1>1, <1>3, <1>4, <1>5, IdleWorker DEF OneToken, DoneHasNoToken
<1>8. ListedAreUnmailed /\ NoDuplicateMail
  BY <1>4, <1>5, IdleWorker DEF Init, ListedAreUnmailed, NoDuplicateMail, Message
<1>9. WorkerConsistent
  BY <1>1, <1>4, <1>5, IdleWorker DEF WorkerConsistent
<1>10. InState("SUCCESS") = {} /\ InState("FAILURE") = {}
  BY <1>1, <1>3 DEF InState
<1>11. CountersMatchStatuses
  BY <1>3, <1>10, FS_EmptySet DEF CountersMatchStatuses
<1>12. SuccessMeansAllDone
  BY <1>1, <1>3, SubtaskAssumption DEF SuccessMeansAllDone
<1> QED
  BY <1>3, <1>6, <1>7, <1>8, <1>9, <1>11, <1>12 DEF IInv, TotalsKnown

\* Every step of the specification preserves the invariant.
LEMMA NextPreserves == IInv /\ [Next]_vars => IInv'
<1> SUFFICES ASSUME IInv, [Next]_vars PROVE IInv'
  OBVIOUS
<1>1. ASSUME NEW w \in Worker, Step(w) \/ UpdateFails(w) \/ WorkerDies(w)
      PROVE  IInv'
  <2>1. WorkKept /\ (UpdateCommits(w) \/ UNCHANGED <<entry, redelivered>>)
    BY <1>1, InvariantParts, StepKeepsTokens
  <2> QED
    BY <2>1, WorkKeptPreserves, UpdateCommitsPreserves DEF IInv, TypeOK
<1>3. ASSUME NEW s \in Subtask, LockExpires(s)
      PROVE  IInv'
  <2>1. WorkKept
    BY <1>3, InvariantParts, ExpiryKeepsTokens
  <2> QED
    BY <1>3, <2>1, WorkKeptPreserves DEF LockExpires, IInv, TypeOK
<1>4. CASE UNCHANGED vars
  BY <1>4 DEF vars, IInv, TypeOK, OneToken, DoneHasNoToken, ListedAreUnmailed,
       WorkerConsistent, TotalsKnown, CountersMatchStatuses, InState,
       SuccessMeansAllDone, NoDuplicateMail
<1> QED
  BY <1>1, <1>3, <1>4 DEF Next

\* IInv is an invariant of every behaviour with exactly-once delivery.
THEOREM InvariantHolds == Spec => []IInv
  BY InitEstablishes, NextPreserves, PTL DEF Spec

\* Every variable keeps its type.
THEOREM TypeCorrect == Spec => []TypeOK
<1>1. IInv => TypeOK
  BY DEF IInv
<1> QED
  BY <1>1, InvariantHolds, PTL

\* No recipient is mailed twice, however often the subtask is retried,
\* whichever workers die and whatever updates of the row fail.
THEOREM MailedAtMostOnce == Spec => []NoDuplicateMail
<1>1. IInv => NoDuplicateMail
  BY DEF IInv
<1> QED
  BY <1>1, InvariantHolds, PTL

\* The instructor is shown SUCCESS exactly when every subtask is over.
THEOREM SuccessIsExact == Spec => []SuccessMeansAllDone
<1>1. IInv => SuccessMeansAllDone
  BY DEF IInv
<1> QED
  BY <1>1, InvariantHolds, PTL

\* No finished subtask is counted twice.
THEOREM CountersExact == Spec => []CountersMatchStatuses
<1>1. IInv => CountersMatchStatuses
  BY DEF IInv
<1> QED
  BY <1>1, InvariantHolds, PTL

\* A subtask that is recorded as over is never worked on.
THEOREM CompletedStaysIdle == Spec => []CompletedNeverRuns
<1>1. IInv => CompletedNeverRuns
  BY DEF IInv, DoneHasNoToken, CompletedNeverRuns, HoldsToken
<1> QED
  BY <1>1, InvariantHolds, PTL

\* What a committed update changes: one subtask's status, which was not over.
LEMMA CommitChanges ==
  ASSUME IInv, NEW w \in Worker, UpdateCommits(w)
  PROVE  LET s == worker[w].sub IN
           /\ s \in Subtask
           /\ ~Done(entry.status[s])
           /\ entry'.status = [entry.status EXCEPT ![s] = worker[w].status]
           /\ worker[w].status.state \in SubtaskState
           /\ entry.task_state = "SUCCESS" => entry'.task_state = "SUCCESS"
           /\ sent' = sent
<1>1. /\ HoldsToken(worker[w])
      /\ entry' = Recorded(worker[w].sub, worker[w].status)
      /\ sent' = sent
  BY DEF UpdateCommits, At, HoldsToken
<1>2. ~Done(entry.status[worker[w].sub])
  BY <1>1 DEF IInv, DoneHasNoToken
<1> QED
  BY <1>1, <1>2, WorkerFacts DEF Recorded

\* Which actions change what the abstract specification sees.
LEMMA VisibleSteps ==
  ASSUME [Next]_vars
  PROVE  \/ \E w \in Worker : UpdateCommits(w) \/ EmailSent(w)
         \/ UNCHANGED <<entry, sent>>
<1>1. ASSUME NEW w \in Worker, Step(w), ~UpdateCommits(w), ~EmailSent(w)
      PROVE  UNCHANGED <<entry, sent>>
  BY <1>1 DEF Step, Deliver, CheckRow, AcquireLock, FilterOptouts,
       PrepareRaises, OpenConnection, EmailFails, RateLimited, TransientError,
       BulkFailure, AllProcessed, ReleaseLock, RetryPublished,
       RetryFails, CloseConnection
<1>2. ASSUME NEW w \in Worker, UpdateFails(w) \/ WorkerDies(w)
      PROVE  UNCHANGED <<entry, sent>>
  BY <1>2 DEF UpdateFails, WorkerDies
<1>3. ASSUME NEW s \in Subtask, LockExpires(s)
      PROVE  UNCHANGED <<entry, sent>>
  BY <1>3 DEF LockExpires
<1>4. CASE UNCHANGED vars
  BY <1>4 DEF vars
<1> QED
  BY <1>1, <1>2, <1>3, <1>4 DEF Next

\* What is recorded of a finished subtask is final, and so is SUCCESS.
THEOREM FinishedIsFinal == Spec => DoneIsFinal
<1> DEFINE Final == /\ \A s \in Subtask : Done(entry.status[s]) =>
                                            entry'.status[s] = entry.status[s]
                    /\ entry.task_state = "SUCCESS" =>
                         entry'.task_state = "SUCCESS"
<1>1. ASSUME IInv, [Next]_vars
      PROVE  [Final]_vars
  <2>1. ASSUME NEW w \in Worker, UpdateCommits(w)
        PROVE  Final
    BY <1>1, <2>1, CommitChanges DEF IInv, TypeOK, EntryType
  <2>2. ASSUME NEW w \in Worker, EmailSent(w)
        PROVE  Final
    BY <2>2 DEF EmailSent
  <2>3. CASE UNCHANGED <<entry, sent>>
    BY <2>3
  <2> QED
    BY <1>1, <2>1, <2>2, <2>3, VisibleSteps
<1> QED
  BY <1>1, InvariantHolds, PTL DEF Spec, DoneIsFinal

\* The subtasks implement the abstract bulk email.
THEOREM Implements == Spec => KeepsPromise
<1>1. Init => Promise!Init
  <2> SUFFICES ASSUME Init PROVE Promise!Init
    OBVIOUS
  <2>1. /\ entry.task_state = "PROGRESS"
        /\ \A s \in Subtask : ~Done(entry.status[s])
        /\ sent = [s \in Subtask |-> [r \in Recipient |-> 0]]
    BY DEF Init, NewStatus, Done, READY_STATES
  <2> QED
    BY <2>1 DEF Promise!Init, Outcome
<1>2. ASSUME IInv, IInv', [Next]_vars
      PROVE  [Promise!Next]_Promise!vars
  <2>1. ASSUME NEW w \in Worker, EmailSent(w)
        PROVE  Promise!Next
    <3> DEFINE s == worker[w].sub
               r == Last(worker[w].to_list)
    <3>1. /\ worker[w].to_list # {}
          /\ sent' = [sent EXCEPT ![s][r] = @ + 1]
          /\ entry' = entry
          /\ HoldsToken(worker[w])
      BY <2>1 DEF EmailSent, At, HoldsToken
    <3>2. /\ s \in Subtask
          /\ r \in worker[w].to_list
          /\ r \in Recipient
      BY <1>2, <3>1, WorkerFacts DEF Last
    <3>3. /\ sent[s][r] = 0
          /\ ~Done(entry.status[s])
      BY <1>2, <3>1, <3>2 DEF IInv, ListedAreUnmailed, DoneHasNoToken
    <3>4. sent' = [sent EXCEPT ![s][r] = 1]
      BY <1>2, <3>1, <3>2, <3>3 DEF IInv, TypeOK
    <3>5. Outcome[s] = "pending" /\ Outcome' = Outcome
      BY <3>1, <3>2, <3>3 DEF Outcome
    <3>6. Promise!Mail(s, r)
      BY <3>1, <3>3, <3>4, <3>5 DEF Promise!Mail
    <3> QED
      BY <3>2, <3>6 DEF Promise!Next
  <2>2. ASSUME NEW w \in Worker, UpdateCommits(w)
        PROVE  [Promise!Next]_Promise!vars
    <3> DEFINE s == worker[w].sub
               st == worker[w].status
    <3>1. /\ s \in Subtask
          /\ ~Done(entry.status[s])
          /\ entry'.status = [entry.status EXCEPT ![s] = st]
          /\ st.state \in SubtaskState
          /\ sent' = sent
      BY <1>2, <2>2, CommitChanges
    <3>2. /\ entry.status \in [Subtask -> Status]
          /\ entry'.status \in [Subtask -> Status]
          /\ entry.task_state \in {"PROGRESS", "SUCCESS"}
          /\ entry'.task_state \in {"PROGRESS", "SUCCESS"}
          /\ entry.task_state = "SUCCESS" <=>
               \A t \in Subtask : Done(entry.status[t])
          /\ entry'.task_state = "SUCCESS" <=>
               \A t \in Subtask : Done(entry'.status[t])
      BY <1>2 DEF IInv, TypeOK, EntryType, TotalsKnown, SuccessMeansAllDone
    <3>3. \A t \in Subtask : Outcome'[t] # "pending" <=> Done(entry'.status[t])
      BY DEF Outcome, Done, READY_STATES
    <3>4. CASE ~Done(st)
      <4>1. \A t \in Subtask : Outcome'[t] = Outcome[t]
        BY <3>1, <3>2, <3>4 DEF Outcome
      <4>2. Outcome' = Outcome
        BY <4>1 DEF Outcome
      <4>3. entry'.task_state = entry.task_state
        BY <3>1, <3>2, <3>4
      <4> QED
        BY <3>1, <4>2, <4>3 DEF Promise!vars
    <3>5. CASE Done(st)
      <4>1. st.state \in {"SUCCESS", "FAILURE"}
        BY <3>1, <3>5 DEF Done, READY_STATES, SubtaskState
      <4>2. Outcome' = [Outcome EXCEPT ![s] = st.state]
        BY <3>1, <3>2, <3>5 DEF Outcome
      <4>3. entry'.task_state =
              IF \A t \in Subtask : Outcome'[t] # "pending"
              THEN "SUCCESS" ELSE "PROGRESS"
        BY <3>2, <3>3
      <4>4. Outcome[s] = "pending"
        BY <3>1 DEF Outcome
      <4>5. Promise!Finish(s, st.state)
        BY <3>1, <4>2, <4>3, <4>4 DEF Promise!Finish
      <4> QED
        BY <3>1, <4>1, <4>5 DEF Promise!Next
    <3> QED
      BY <3>4, <3>5
  <2>3. CASE UNCHANGED <<entry, sent>>
    BY <2>3 DEF Promise!vars, Outcome
  <2> QED
    BY <1>2, <2>1, <2>2, <2>3, VisibleSteps
<1> QED
  BY <1>1, <1>2, InvariantHolds, PTL DEF Spec, KeepsPromise, Promise!Spec

-----------------------------------------------------------------------------
(***************************************************************************)
(* One message delivered twice.  The key of the lock is deleted by whoever *)
(* ends an update of the row, and a worker whose retry fails after it was  *)
(* recorded ends two: the second time the key may be another's.  With one  *)
(* redelivery that does no harm, for nobody is left to take it.            *)
(***************************************************************************)

\* A worker that will take the lock, has it, or is still to delete its key.
Contends(wk) ==
  wk.pc # "idle" /\ ~(wk.pc = "close" /\ wk.status.state = "RETRY")

\* A worker that took the lock and has not deleted its key.  That one which
\* gives up may be here or on its second update is left open.
Inside(wk) ==
  \/ wk.pc \in {"filter", "open", "send"}
  \/ wk.pc \in {"update", "release"} /\ wk.status.state = "RETRY"

\* No update is tried twice, so each deletes the key once.
Unhurried(wk) == /\ wk.pc # "unwind"
                 /\ wk.pc = "update" => wk.tries = 0
                 /\ wk.pc = "release" => wk.releases = 1

\* Everything of s that can lead to a worker taking or deleting its lock.
Contenders(s) ==
  {<<"message", m>> : m \in {n \in queue : n.sub = s}}
    \cup {<<"worker", w>> : w \in {v \in Worker : Contends(worker[v]) /\ worker[v].sub = s}}

\* As many as were delivered: one, and one more after a redelivery.
Few(T, n) == /\ n = 0 => \A a, b \in T : a = b
             /\ \A a, b, c \in T : a = b \/ b = c \/ a = c

InsideOf(w, s) == Inside(worker[w]) /\ worker[w].sub = s

\* Whoever is inside is alone there, and if its key is gone, alone at all.
LockKept(s) ==
  \A v \in Worker : InsideOf(v, s) =>
    /\ \A w \in Worker : InsideOf(w, s) => w = v
    /\ s \notin locked => Contenders(s) \subseteq {<<"worker", v>>}

TwiceInv ==
  /\ worker \in [Worker -> WorkerState]
  /\ queue \in SUBSET Message
  /\ WorkerConsistent
  /\ redelivered \in {0, 1}
  /\ \A w \in Worker : Unhurried(worker[w])
  /\ \A s \in Subtask : Few(Contenders(s), redelivered) /\ LockKept(s)

\* Worker w becomes wk: it is no further inside than it was.
Advances(w, wk) ==
  /\ wk \in WorkerState
  /\ Becomes(w, wk)
  /\ Consistent(wk)
  /\ Unhurried(wk)
  /\ Contends(wk) => Contends(worker[w]) /\ wk.sub = worker[w].sub
  /\ Inside(wk) => Inside(worker[w])

\* Members of Contenders, by their kinds.
LEMMA ContendersAre ==
  ASSUME NEW s
  PROVE  \A a : a \in Contenders(s) <=>
           \/ \E m \in queue : a = <<"message", m>> /\ m.sub = s
           \/ \E v \in Worker : /\ a = <<"worker", v>>
                                /\ Contends(worker[v]) /\ worker[v].sub = s
BY DEF Contenders

\* The same of the state after a step.
LEMMA ContendersBecome ==
  ASSUME NEW s
  PROVE  \A a : a \in Contenders(s)' <=>
           \/ \E m \in queue' : a = <<"message", m>> /\ m.sub = s
           \/ \E v \in Worker : /\ a = <<"worker", v>>
                                /\ Contends(worker'[v]) /\ worker'[v].sub = s
BY DEF Contenders, Contends

\* Whoever is inside contends.
LEMMA InsideContends ==
  ASSUME NEW wk, Inside(wk)
  PROVE  Contends(wk)
BY DEF Inside, Contends

\* A step that goes no further inside and invents no contender.
LEMMA AdvanceKeepsLock ==
  ASSUME TwiceInv, NEW w \in Worker, NEW wk, Advances(w, wk),
         UNCHANGED <<queue, locked, redelivered>>
  PROVE  TwiceInv'
<1>1. /\ worker' \in [Worker -> WorkerState]
      /\ worker'[w] = wk
      /\ \A v \in Worker : v # w => worker'[v] = worker[v]
  BY DEF TwiceInv, Advances, Becomes
<1>2. WorkerConsistent' /\ \A v \in Worker : Unhurried(worker'[v])
  BY <1>1 DEF TwiceInv, Advances, WorkerConsistent
<1>3. ASSUME NEW v \in Worker, Contends(worker'[v])
      PROVE  Contends(worker[v]) /\ worker'[v].sub = worker[v].sub
  BY <1>1, <1>3 DEF Advances
<1>4. ASSUME NEW v \in Worker, Inside(worker'[v])
      PROVE  Inside(worker[v]) /\ worker'[v].sub = worker[v].sub
  BY <1>1, <1>3, <1>4, InsideContends DEF Advances
<1>5. ASSUME NEW s \in Subtask
      PROVE  Few(Contenders(s)', redelivered') /\ LockKept(s)'
  <2>1. Contenders(s)' \subseteq Contenders(s)
    BY <1>3, ContendersAre, ContendersBecome
  <2>2. Few(Contenders(s)', redelivered')
    BY <2>1 DEF TwiceInv, Few
  <2>3. \A v \in Worker : InsideOf(v, s)' => InsideOf(v, s)
    BY <1>4 DEF InsideOf, Inside
  <2>4. LockKept(s)'
    BY <2>1, <2>3 DEF TwiceInv, LockKept
  <2> QED
    BY <2>2, <2>4
<1>6. (\A s \in Subtask : Few(Contenders(s), redelivered) /\ LockKept(s))'
  BY <1>5
<1> QED
  BY <1>1, <1>2, <1>6 DEF TwiceInv, Unhurried

\* The last resort is an update of a FAILURE.
LEMMA FailedUnexpectedlyOutside ==
  ASSUME NEW wk \in WorkerState
  PROVE  LET f == FailedUnexpectedly(wk) IN
           f.pc = "update" /\ f.tries = 0 /\ f.status.state = "FAILURE"
BY DEF FailedUnexpectedly, WorkerState, Increment

\* Giving up leads to closing the connection with a FAILURE.
LEMMA GivenUpOutside ==
  ASSUME NEW wk \in WorkerState
  PROVE  GivenUp(wk).pc = "close" /\ GivenUp(wk).status.state = "FAILURE"
BY DEF GivenUp, WorkerState, Increment

\* A retry is recorded before the key is deleted.
LEMMA RetryPendingInside ==
  ASSUME NEW wk \in WorkerState, NEW d, NEW limit
  PROVE  LET p == RetryPending(wk, d, limit) IN
           p.pc = "update" /\ p.tries = 0 /\ p.status.state = "RETRY"
BY DEF RetryPending, WorkerState, Increment

\* An idle worker contends for nothing.
LEMMA IdleAdvances ==
  ASSUME NEW w \in Worker, Becomes(w, Idle)
  PROVE  Advances(w, Idle)
<1>1. Idle.pc = "idle"
  BY DEF Idle
<1> QED
  BY <1>1, IdleWorker DEF Advances, Unhurried, Contends, Inside

\* Preparing the email, sending it, and the ways in which that ends.
LEMMA SendingAdvances ==
  ASSUME TwiceInv, NEW w \in Worker,
         \/ FilterOptouts(w) \/ PrepareRaises(w) \/ OpenConnection(w)
         \/ EmailSent(w) \/ EmailFails(w) \/ RateLimited(w)
         \/ TransientError(w) \/ BulkFailure(w) \/ AllProcessed(w)
  PROVE  \E wk : Advances(w, wk)
<1> PICK old \in WorkerState : old = worker[w] /\ Consistent(old) /\ Unhurried(old)
  BY DEF TwiceInv, WorkerConsistent
<1>1. /\ old.pc \in {"filter", "open", "send"}
      /\ Inside(old) /\ Contends(old)
      /\ ~Done(old.status)
  BY DEF FilterOptouts, PrepareRaises, OpenConnection, EmailSent, EmailFails,
         RateLimited, TransientError, BulkFailure, AllProcessed, At, Inside,
         Contends, Consistent
<1>2. ASSUME NEW wk \in WorkerState, Becomes(w, wk), Consistent(wk), wk.sub = old.sub,
             \/ wk.pc \in {"open", "send", "close"}
             \/ wk.pc = "update" /\ wk.tries = 0
      PROVE  \E k : Advances(w, k)
  BY <1>1, <1>2 DEF Advances, Unhurried
<1>3. CASE FilterOptouts(w)
  <2>1. PICK opt \in Optouts(old) : Becomes(w, Filtered(old, opt))
    BY <1>3 DEF FilterOptouts
  <2>2. /\ Filtered(old, opt) \in WorkerState
        /\ Filtered(old, opt).pc = "open"
        /\ Filtered(old, opt).sub = old.sub
        /\ Filtered(old, opt).status.state = old.status.state
    BY FilteredWorker
  <2>3. Consistent(Filtered(old, opt))
    BY <1>1, <2>2 DEF Consistent, Done
  <2> QED
    BY <1>2, <2>1, <2>2, <2>3
<1>4. CASE PrepareRaises(w)
  <2>1. PICK opt \in Optouts(old) : Becomes(w, FailedUnexpectedly(Filtered(old, opt)))
    BY <1>4 DEF PrepareRaises
  <2>2. Filtered(old, opt) \in WorkerState /\ Filtered(old, opt).sub = old.sub
    BY FilteredWorker
  <2> QED
    BY <1>2, <2>1, <2>2, FailedUnexpectedlyWorker, FailedUnexpectedlyOutside
<1>5. CASE OpenConnection(w)
  <2> DEFINE wk == [old EXCEPT !.pc = "send"]
  <2>1. Becomes(w, wk)
    BY <1>5 DEF OpenConnection
  <2>2. wk \in WorkerState
    BY DEF WorkerState, PC
  <2>3. wk.pc = "send" /\ wk.sub = old.sub /\ wk.status = old.status
    BY DEF WorkerState
  <2> HIDE DEF wk
  <2>4. Consistent(wk)
    BY <1>1, <2>3 DEF Consistent
  <2> QED
    BY <1>2, <2>1, <2>2, <2>3, <2>4
<1>6. CASE EmailSent(w) \/ EmailFails(w)
  <2>1. PICK d \in {Succeeded(1), Failed(1)} :
          Becomes(w, Popped(old, d)) /\ old.pc = "send" /\ old.to_list # {}
    BY <1>6 DEF EmailSent, EmailFails, At
  <2>2. d \in [succeeded : Nat, failed : Nat, skipped : Nat,
               retried_nomax : Nat, retried_withmax : Nat]
    BY DeltaType
  <2> QED
    BY <1>2, <2>1, <2>2, PoppedWorker
<1>7. CASE RateLimited(w) \/ TransientError(w)
  <2>1. PICK limit \in {"withmax", "nomax"}, d \in {RetriedNoMax, RetriedWithMax} :
          Becomes(w, RetryPending(old, d, limit))
    BY <1>7 DEF RateLimited, TransientError
  <2>2. d \in [succeeded : Nat, failed : Nat, skipped : Nat,
               retried_nomax : Nat, retried_withmax : Nat]
    BY DEF RetriedNoMax, RetriedWithMax, Nothing
  <2> QED
    BY <1>2, <2>1, <2>2, RetryPendingWorker, RetryPendingInside
<1>8. CASE BulkFailure(w)
  BY <1>2, <1>8, GivenUpWorker, GivenUpOutside DEF BulkFailure
<1>9. CASE AllProcessed(w)
  <2> DEFINE st == Increment(old.status, Nothing, "SUCCESS")
             wk == [old EXCEPT !.pc = "close", !.status = st]
  <2>1. st \in Status /\ st.state = "SUCCESS"
    <3>1. /\ Nothing \in [succeeded : Nat, failed : Nat, skipped : Nat,
                          retried_nomax : Nat, retried_withmax : Nat]
          /\ old.status \in Status
      BY DEF Nothing, WorkerState
    <3> QED
      BY <3>1, IncrementType DEF SubtaskState
  <2>2. Becomes(w, wk)
    BY <1>9 DEF AllProcessed
  <2> HIDE DEF st
  <2>3. wk \in WorkerState
    BY <2>1 DEF WorkerState, PC
  <2>4. wk.pc = "close" /\ wk.sub = old.sub /\ wk.status = st
    BY DEF WorkerState
  <2> HIDE DEF wk
  <2>5. Consistent(wk)
    BY <2>1, <2>4 DEF Consistent
  <2> QED
    BY <1>2, <2>2, <2>3, <2>4, <2>5
<1> QED
  BY <1>3, <1>4, <1>5, <1>6, <1>7, <1>8, <1>9

\* The check, and what follows the sending.
LEMMA EndingAdvances ==
  ASSUME TwiceInv, NEW w \in Worker,
         \/ CheckRow(w) \/ UpdateCommits(w) \/ RetryFails(w)
         \/ CloseConnection(w) \/ WorkerDies(w)
  PROVE  \E wk : Advances(w, wk)
<1> PICK old \in WorkerState : old = worker[w] /\ Consistent(old) /\ Unhurried(old)
  BY DEF TwiceInv, WorkerConsistent
<1>1. ASSUME NEW wk \in WorkerState, Becomes(w, wk),
             wk.sub = old.sub, Consistent(wk), Unhurried(wk), Contends(old),
             Inside(wk) => Inside(old)
      PROVE  Advances(w, wk)
  BY <1>1 DEF Advances
<1>2. CASE Becomes(w, Idle)
  BY <1>2, IdleAdvances
<1>3. CASE CheckRow(w) /\ ~Becomes(w, Idle)
  <2> DEFINE wk == [old EXCEPT !.pc = "lock"]
  <2>1. Becomes(w, wk) /\ old.pc = "check"
    BY <1>3 DEF CheckRow, At
  <2>2. wk \in WorkerState
    BY DEF WorkerState, PC
  <2>3. wk.pc = "lock" /\ wk.sub = old.sub /\ wk.status = old.status
    BY DEF WorkerState
  <2> HIDE DEF wk
  <2> QED
    BY <1>1, <2>1, <2>2, <2>3 DEF Consistent, Unhurried, Contends, Inside
<1>4. CASE UpdateCommits(w)
  <2> DEFINE wk == [old EXCEPT !.pc = "release", !.releases = 1]
  <2>1. /\ Becomes(w, [old EXCEPT !.pc = "release", !.releases = old.tries + 1])
        /\ old.pc = "update"
    BY <1>4 DEF UpdateCommits, At
  <2>2. old.tries + 1 = 1
    BY <2>1 DEF Unhurried
  <2>3. Becomes(w, wk)
    BY <2>1, <2>2
  <2>4. wk \in WorkerState
    BY DEF WorkerState, PC
  <2>5. /\ wk.pc = "release" /\ wk.releases = 1 /\ wk.tries = old.tries
        /\ wk.sub = old.sub /\ wk.status = old.status
    BY DEF WorkerState
  <2> HIDE DEF wk
  <2>6. Consistent(wk)
    BY <2>1, <2>2, <2>5 DEF Consistent
  <2>7. Unhurried(wk) /\ Contends(old) /\ (Inside(wk) => Inside(old))
    BY <2>1, <2>5 DEF Unhurried, Contends, Inside
  <2> QED
    BY <1>1, <2>3, <2>4, <2>5, <2>6, <2>7
<1>5. CASE RetryFails(w)
  <2>1. Becomes(w, GivenUp(old)) /\ old.pc = "retry"
    BY <1>5 DEF RetryFails, At
  <2>2. Contends(old)
    BY <2>1 DEF Contends
  <2> QED
    BY <2>1, <2>2, GivenUpWorker, GivenUpOutside DEF Advances, Unhurried, Inside
<1>6. CASE CloseConnection(w) /\ ~Becomes(w, Idle)
  <2>1. PICK wk : /\ Becomes(w, wk) /\ wk = [old EXCEPT !.pc = "update", !.tries = 0]
                  /\ old.pc = "close" /\ old.status.state # "RETRY"
    BY <1>6 DEF CloseConnection, At
  <2>2. wk \in WorkerState
    BY <2>1 DEF WorkerState, PC
  <2>3. /\ wk.pc = "update" /\ wk.tries = 0
        /\ wk.sub = old.sub /\ wk.status = old.status
    BY <2>1 DEF WorkerState
  <2> QED
    BY <1>1, <2>1, <2>2, <2>3 DEF Consistent, Unhurried, Contends, Inside
<1> QED
  BY <1>2, <1>3, <1>4, <1>5, <1>6 DEF WorkerDies

\* What a step of w does to the contenders and to those inside, but for w.
LEMMA OneWorkerMoves ==
  ASSUME TwiceInv, NEW w \in Worker, NEW wk \in WorkerState, Becomes(w, wk)
  PROVE  /\ worker' \in [Worker -> WorkerState]
         /\ worker'[w] = wk
         /\ \A v \in Worker : v # w => worker'[v] = worker[v]
         /\ \A s : \A v \in Worker : v # w => (InsideOf(v, s)' <=> InsideOf(v, s))
         /\ \A s : InsideOf(w, s)' <=> Inside(wk) /\ wk.sub = s
<1>1. /\ worker' \in [Worker -> WorkerState]
      /\ worker'[w] = wk
      /\ \A v \in Worker : v # w => worker'[v] = worker[v]
  BY DEF TwiceInv, Becomes
<1> QED
  BY <1>1 DEF InsideOf, Inside

\* Whoever gets the lock finds nobody inside: the key was gone, so a worker
\* inside would be alone.
LEMMA AcquireKeepsLock ==
  ASSUME TwiceInv, NEW w \in Worker, AcquireLock(w)
  PROVE  TwiceInv'
<1> PICK old \in WorkerState : old = worker[w] /\ Consistent(old) /\ Unhurried(old)
  BY DEF TwiceInv, WorkerConsistent
<1> PICK s : s = old.sub
  OBVIOUS
<1>1. /\ old.pc = "lock" /\ UNCHANGED <<queue, redelivered>>
      /\ locked' = locked \cup {s}
      /\ Becomes(w, IF s \in locked THEN Idle ELSE [old EXCEPT !.pc = "filter"])
  BY DEF AcquireLock, At
<1>2. CASE s \in locked
  <2>1. locked' = locked
    BY <1>1, <1>2
  <2> QED
    BY <1>1, <1>2, <2>1, IdleAdvances, AdvanceKeepsLock
<1>3. CASE s \notin locked
  <2> DEFINE wk == [old EXCEPT !.pc = "filter"]
  <2>1. Becomes(w, wk)
    BY <1>1, <1>3
  <2>2. wk \in WorkerState
    BY DEF WorkerState, PC
  <2>3. wk.pc = "filter" /\ wk.sub = s /\ wk.status = old.status
    BY DEF WorkerState
  <2> HIDE DEF wk
  <2>4. Consistent(wk) /\ Unhurried(wk) /\ Contends(old) /\ ~Inside(old)
    BY <1>1, <2>3 DEF Consistent, Unhurried, Contends, Inside
  <2>5. /\ worker' \in [Worker -> WorkerState]
        /\ worker'[w] = wk
        /\ \A v \in Worker : v # w => worker'[v] = worker[v]
        /\ \A t : \A v \in Worker : v # w => (InsideOf(v, t)' <=> InsideOf(v, t))
        /\ \A t : InsideOf(w, t)' <=> Inside(wk) /\ wk.sub = t
    BY <2>1, <2>2, OneWorkerMoves
  <2>6. WorkerConsistent' /\ \A v \in Worker : Unhurried(worker'[v])
    BY <1>1, <2>4, <2>5 DEF TwiceInv, WorkerConsistent
  <2>7. ASSUME NEW v \in Worker, Contends(worker'[v])
        PROVE  Contends(worker[v]) /\ worker'[v].sub = worker[v].sub
    BY <2>3, <2>4, <2>5, <2>7
  <2>8. \A v \in Worker : ~InsideOf(v, s)
    <3>1. s \in Subtask /\ <<"worker", w>> \in Contenders(s)
      BY <2>4, ContendersAre DEF WorkerState
    <3>2. ASSUME NEW v \in Worker, InsideOf(v, s)
          PROVE  FALSE
      <4>1. Contenders(s) \subseteq {<<"worker", v>>}
        BY <1>3, <3>1, <3>2 DEF TwiceInv, LockKept
      <4>2. v = w
        BY <3>1, <4>1
      <4> QED
        BY <2>4, <3>2, <4>2 DEF InsideOf
    <3> QED
      BY <3>2
  <2>9. ASSUME NEW t \in Subtask
        PROVE  Few(Contenders(t)', redelivered') /\ LockKept(t)'
    <3>1. Contenders(t)' \subseteq Contenders(t)
      BY <1>1, <2>7, ContendersAre, ContendersBecome
    <3>2. Few(Contenders(t)', redelivered')
      BY <1>1, <3>1 DEF TwiceInv, Few
    <3>3. CASE t = s
      <4>1. \A v \in Worker : InsideOf(v, t)' => v = w
        BY <2>5, <2>8, <3>3
      <4> QED
        BY <1>1, <3>2, <3>3, <4>1 DEF LockKept
    <3>4. CASE t # s
      <4>1. \A v \in Worker : InsideOf(v, t)' => InsideOf(v, t)
        BY <2>3, <2>5, <3>4
      <4>2. t \notin locked' => t \notin locked
        BY <1>1
      <4> QED
        BY <3>1, <3>2, <4>1, <4>2 DEF TwiceInv, LockKept
    <3> QED
      BY <3>3, <3>4
  <2>10. (\A t \in Subtask : Few(Contenders(t), redelivered) /\ LockKept(t))'
    BY <2>9
  <2> QED
    BY <1>1, <2>5, <2>6, <2>10 DEF TwiceInv, Unhurried
<1> QED
  BY <1>2, <1>3

\* Whoever deletes the key leaves with it, or was not inside: then it is the
\* one of at most two that is gone.
LEMMA ReleaseKeepsLock ==
  ASSUME TwiceInv, NEW w \in Worker, ReleaseLock(w)
  PROVE  TwiceInv'
<1> PICK old \in WorkerState : old = worker[w] /\ Consistent(old) /\ Unhurried(old)
  BY DEF TwiceInv, WorkerConsistent
<1> PICK s : s = old.sub
  OBVIOUS
<1> DEFINE dec == [old EXCEPT !.releases = @ - 1]
<1>1. /\ old.pc = "release" /\ old.releases = 1
      /\ UNCHANGED <<queue, redelivered>>
      /\ locked' = locked \ {s}
      /\ Becomes(w, IF dec.releases > 0 THEN dec ELSE AfterUpdate(dec))
  BY DEF ReleaseLock, At, Unhurried
<1>2. /\ dec.releases = 0 /\ dec.pc = "release" /\ dec.sub = s
      /\ dec.status = old.status /\ dec \in WorkerState
  BY <1>1 DEF WorkerState
<1>3. PICK wk \in WorkerState :
        /\ Becomes(w, wk) /\ Consistent(wk) /\ Unhurried(wk) /\ ~Inside(wk)
        /\ Contends(wk) => wk.sub = s /\ old.status.state = "RETRY"
  <2> HIDE DEF dec
  <2>1. Becomes(w, AfterUpdate(dec))
    BY <1>1, <1>2
  <2>2. CASE old.status.state # "RETRY"
    <3>1. AfterUpdate(dec) = Idle /\ Idle.pc = "idle"
      BY <1>2, <2>2 DEF AfterUpdate, Idle
    <3> QED
      BY <2>1, <3>1, IdleWorker DEF Unhurried, Inside, Contends
  <2>3. CASE old.status.state = "RETRY"
    <3> DEFINE wk == [dec EXCEPT !.pc = "retry"]
    <3>1. AfterUpdate(dec) = wk
      BY <1>2, <2>3 DEF AfterUpdate
    <3>2. wk \in WorkerState
      BY <1>2 DEF WorkerState, PC
    <3>3. wk.pc = "retry" /\ wk.sub = s /\ wk.status = old.status
      BY <1>2 DEF WorkerState
    <3> HIDE DEF wk
    <3> QED
      BY <2>1, <2>3, <3>1, <3>2, <3>3 DEF Consistent, Unhurried, Inside
  <2> QED
    BY <2>2, <2>3
<1> HIDE DEF dec
<1>4. /\ worker' \in [Worker -> WorkerState]
      /\ worker'[w] = wk
      /\ \A v \in Worker : v # w => worker'[v] = worker[v]
      /\ \A t : \A v \in Worker : v # w => (InsideOf(v, t)' <=> InsideOf(v, t))
      /\ \A t : InsideOf(w, t)' <=> Inside(wk) /\ wk.sub = t
  BY <1>3, OneWorkerMoves
<1>5. WorkerConsistent' /\ \A v \in Worker : Unhurried(worker'[v])
  BY <1>1, <1>3, <1>4 DEF TwiceInv, WorkerConsistent
<1>6. Contends(old) /\ (Inside(old) <=> old.status.state = "RETRY") /\ s \in Subtask
  BY <1>1 DEF Contends, Inside, WorkerState
<1>7. ASSUME NEW v \in Worker, Contends(worker'[v])
      PROVE  Contends(worker[v]) /\ worker'[v].sub = worker[v].sub
  BY <1>3, <1>4, <1>6, <1>7
<1>8. ASSUME NEW t \in Subtask
      PROVE  Few(Contenders(t)', redelivered') /\ LockKept(t)'
  <2>1. Contenders(t)' \subseteq Contenders(t)
    BY <1>1, <1>7, ContendersAre, ContendersBecome
  <2>2. Few(Contenders(t)', redelivered')
    BY <1>1, <2>1 DEF TwiceInv, Few
  <2>3. \A v \in Worker : InsideOf(v, t)' => v # w /\ InsideOf(v, t)
    BY <1>3, <1>4
  <2>4. CASE t # s
    <3>1. t \notin locked' => t \notin locked
      BY <1>1, <2>4
    <3> QED
      BY <2>1, <2>2, <2>3, <3>1 DEF TwiceInv, LockKept
  <2>5. CASE t = s
    <3> SUFFICES ASSUME NEW v \in Worker, InsideOf(v, s)'
                 PROVE  /\ \A u \in Worker : InsideOf(u, s)' => u = v
                        /\ Contenders(s)' \subseteq {<<"worker", v>>}
      BY <2>2, <2>5 DEF LockKept
    <3>1. InsideOf(v, s) /\ v # w
      BY <2>3, <2>5
    <3>2. \A u \in Worker : InsideOf(u, s) => u = v
      BY <1>6, <3>1 DEF TwiceInv, LockKept
    <3>3. ~Inside(old)
      BY <3>1, <3>2 DEF InsideOf
    <3>4. ~Contends(worker'[w])
      BY <1>3, <1>4, <1>6, <3>3
    <3>5. /\ <<"worker", v>> \in Contenders(s) /\ <<"worker", w>> \in Contenders(s)
          /\ <<"worker", v>> # <<"worker", w>>
      BY <1>6, <3>1, ContendersAre, InsideContends DEF InsideOf
    <3>6. <<"worker", w>> \notin Contenders(s)'
      BY <3>4, ContendersBecome
    <3>7. Contenders(s)' \subseteq {<<"worker", v>>}
      BY <1>6, <2>1, <2>5, <3>5, <3>6 DEF TwiceInv, Few
    <3> QED
      BY <2>3, <2>5, <3>2, <3>7
  <2> QED
    BY <2>4, <2>5
<1>9. (\A t \in Subtask : Few(Contenders(t), redelivered) /\ LockKept(t))'
  BY <1>8
<1> QED
  BY <1>1, <1>4, <1>5, <1>9 DEF TwiceInv, Unhurried

\* A worker that takes a message contends in its place, or beside it if the
\* broker is to deliver the message again: it was alone until then.
LEMMA DeliveryKeepsLock ==
  ASSUME TwiceInv, MaxRedeliver <= 1, NEW w \in Worker, Deliver(w) \/ DeliverTwice(w)
  PROVE  TwiceInv'
<1> PICK m \in queue : Becomes(w, Begun(m)) /\ (Deliver(w) => queue' = queue \ {m})
  BY DEF Deliver, DeliverTwice
<1>1. /\ worker[w].pc = "idle" /\ locked' = locked
      /\ Deliver(w) => redelivered' = redelivered
      /\ ~Deliver(w) => redelivered = 0 /\ redelivered' = 1 /\ queue' = queue
      /\ queue' \in SUBSET queue
  <2>1. /\ worker[w].pc = "idle" /\ locked' = locked
        /\ Deliver(w) => redelivered' = redelivered
        /\ ~Deliver(w) => /\ redelivered < MaxRedeliver
                          /\ redelivered' = redelivered + 1 /\ queue' = queue
    BY DEF Deliver, DeliverTwice, At
  <2>2. redelivered \in {0, 1}
    BY DEF TwiceInv
  <2>3. redelivered < MaxRedeliver => redelivered = 0
    BY <2>2, RedeliverAssumption
  <2> QED
    BY <2>1, <2>3
<1>2. /\ m \in Message /\ m.sub \in Subtask /\ m.to_list \in SUBSET Recipient
      /\ m.status \in Status /\ m.retries \in Nat /\ ~Done(m.status)
  BY DEF TwiceInv, Message, WorkerConsistent
<1> DEFINE wk == Begun(m)
<1>3. wk \in WorkerState /\ wk.pc = "check" /\ wk.sub = m.sub /\ wk.status = m.status
  BY <1>2, IdleWorker, ListLength DEF Begun, WorkerState, PC
<1>4. Becomes(w, wk)
  OBVIOUS
<1> HIDE DEF wk
<1>5. Consistent(wk) /\ Unhurried(wk) /\ ~Inside(wk)
  BY <1>2, <1>3 DEF Consistent, Unhurried, Inside
<1>6. ~Inside(worker[w]) /\ ~Contends(worker[w])
  BY <1>1 DEF Inside, Contends
<1>7. /\ worker' \in [Worker -> WorkerState]
      /\ worker'[w] = wk
      /\ \A v \in Worker : v # w => worker'[v] = worker[v]
      /\ \A t : \A v \in Worker : v # w => (InsideOf(v, t)' <=> InsideOf(v, t))
      /\ \A t : InsideOf(w, t)' <=> Inside(wk) /\ wk.sub = t
  BY <1>3, <1>4, OneWorkerMoves
<1>8. \A t : \A v \in Worker : InsideOf(v, t)' => InsideOf(v, t)
  BY <1>5, <1>7
<1>9. WorkerConsistent' /\ \A v \in Worker : Unhurried(worker'[v])
  BY <1>1, <1>5, <1>7 DEF TwiceInv, WorkerConsistent
<1>10. ASSUME NEW t \in Subtask
       PROVE  Few(Contenders(t)', redelivered') /\ LockKept(t)'
  <2>1. \A a : a \in Contenders(t)' =>
           \/ a \in Contenders(t)
           \/ a = <<"worker", w>> /\ m.sub = t
    BY <1>1, <1>3, <1>7, ContendersAre, ContendersBecome
  <2>2. CASE m.sub # t
    <3>1. Contenders(t)' \subseteq Contenders(t)
      BY <2>1, <2>2
    <3>2. Few(Contenders(t)', redelivered')
      BY <1>1, <3>1 DEF TwiceInv, Few
    <3> QED
      BY <1>1, <1>8, <3>1, <3>2 DEF TwiceInv, LockKept
  <2>3. CASE m.sub = t
    <3>1. <<"message", m>> \in Contenders(t)
      BY <2>3, ContendersAre
    <3>2. ASSUME NEW v \in Worker, InsideOf(v, t)
          PROVE  t \in locked
      <4>1. <<"message", m>> # <<"worker", v>>
        OBVIOUS
      <4> QED
        BY <3>1, <3>2, <4>1 DEF TwiceInv, LockKept
    <3>3. LockKept(t)'
      BY <1>1, <1>8, <3>2 DEF TwiceInv, LockKept
    <3>4. CASE Deliver(w)
      <4>1. <<"message", m>> \notin Contenders(t)'
        <5>1. m \notin queue'
          BY <3>4
        <5>2. \A n : <<"message", m>> = <<"message", n>> => n = m
          OBVIOUS
        <5>3. \A v \in Worker : <<"message", m>> # <<"worker", v>>
          OBVIOUS
        <5> QED
          BY <5>1, <5>2, <5>3, ContendersBecome
      <4>2. \A a \in Contenders(t)' :
               \/ a \in Contenders(t) /\ a # <<"message", m>>
               \/ a = <<"worker", w>>
        BY <2>1, <4>1
      <4>3. Few(Contenders(t), redelivered) /\ redelivered' = redelivered
        BY <1>1, <3>4 DEF TwiceInv
      <4>4. Few(Contenders(t)', redelivered')
        BY <3>1, <4>2, <4>3 DEF Few
      <4> QED
        BY <3>3, <4>4
    <3>5. CASE ~Deliver(w)
      <4>1. redelivered = 0 /\ redelivered' = 1
        BY <1>1, <3>5
      <4>2. \A a, b \in Contenders(t) : a = b
        BY <4>1 DEF TwiceInv, Few
      <4>3. Few(Contenders(t)', redelivered')
        BY <2>1, <4>1, <4>2 DEF Few
      <4> QED
        BY <3>3, <4>3
    <3> QED
      BY <3>4, <3>5
  <2> QED
    BY <2>2, <2>3
<1>11. (\A t \in Subtask : Few(Contenders(t), redelivered) /\ LockKept(t))'
  BY <1>10
<1>12. queue' \in SUBSET Message /\ redelivered' \in {0, 1}
  BY <1>1 DEF TwiceInv
<1> QED
  BY <1>7, <1>9, <1>11, <1>12 DEF TwiceInv, Unhurried

\* A published retry contends in the place of the worker, who is outside.
LEMMA PublishingKeepsLock ==
  ASSUME TwiceInv, NEW w \in Worker, RetryPublished(w)
  PROVE  TwiceInv'
<1> PICK old \in WorkerState : old = worker[w] /\ Consistent(old)
  BY DEF TwiceInv, WorkerConsistent
<1> DEFINE n == RetryMessage(old)
           k == [old EXCEPT !.pc = "close"]
<1>1. /\ queue' = queue \cup {n} /\ Becomes(w, k)
      /\ UNCHANGED <<locked, redelivered>>
      /\ old.pc = "retry" /\ old.status.state = "RETRY"
  BY DEF RetryPublished, At, Consistent
<1>2. n \in Message /\ n.sub = old.sub /\ n.status = old.status
  BY DEF RetryMessage, Message, WorkerState
<1>3. k \in WorkerState /\ k.pc = "close" /\ k.sub = old.sub /\ k.status = old.status
  BY DEF WorkerState, PC
<1> PICK m, wk : m = n /\ wk = k
  OBVIOUS
<1> HIDE DEF n, k
<1>4. /\ Consistent(wk) /\ Unhurried(wk) /\ ~Contends(wk) /\ ~Inside(wk)
      /\ ~Done(m.status) /\ Contends(old) /\ ~Inside(old)
  BY <1>1, <1>2, <1>3 DEF Consistent, Unhurried, Contends, Inside, Done, READY_STATES
<1>5. /\ worker' \in [Worker -> WorkerState]
      /\ worker'[w] = wk
      /\ \A v \in Worker : v # w => worker'[v] = worker[v]
      /\ \A t : \A v \in Worker : v # w => (InsideOf(v, t)' <=> InsideOf(v, t))
      /\ \A t : InsideOf(w, t)' <=> Inside(wk) /\ wk.sub = t
  BY <1>1, <1>3, OneWorkerMoves
<1>6. WorkerConsistent' /\ \A v \in Worker : Unhurried(worker'[v])
  BY <1>1, <1>4, <1>5 DEF TwiceInv, WorkerConsistent
<1>7. \A t : \A v \in Worker : InsideOf(v, t)' => InsideOf(v, t)
  BY <1>4, <1>5
<1>8. ASSUME NEW t \in Subtask
      PROVE  Few(Contenders(t)', redelivered') /\ LockKept(t)'
  <2>1. \A a : a \in Contenders(t)' =>
           \/ a \in Contenders(t) /\ a # <<"worker", w>>
           \/ a = <<"message", m>> /\ old.sub = t
    <3>1. \A v \in Worker : /\ Contends(worker'[v]) => v # w /\ worker'[v] = worker[v]
                            /\ v # w => <<"worker", v>> # <<"worker", w>>
      BY <1>4, <1>5
    <3>2. \A o : <<"message", o>> # <<"worker", w>>
      OBVIOUS
    <3> QED
      BY <1>1, <1>2, <3>1, <3>2, ContendersAre, ContendersBecome
  <2>2. CASE old.sub # t
    <3>1. Contenders(t)' \subseteq Contenders(t)
      BY <2>1, <2>2
    <3>2. Few(Contenders(t)', redelivered')
      BY <1>1, <3>1 DEF TwiceInv, Few
    <3> QED
      BY <1>1, <1>7, <3>1, <3>2 DEF TwiceInv, LockKept
  <2>3. CASE old.sub = t
    <3>1. <<"worker", w>> \in Contenders(t)
      BY <1>4, <2>3, ContendersAre
    <3>2. ASSUME NEW v \in Worker, InsideOf(v, t)
          PROVE  t \in locked
      <4>1. <<"worker", w>> # <<"worker", v>>
        BY <1>4, <3>2 DEF InsideOf
      <4> QED
        BY <3>1, <3>2, <4>1 DEF TwiceInv, LockKept
    <3>3. LockKept(t)'
      BY <1>1, <1>7, <3>2 DEF TwiceInv, LockKept
    <3>4. Few(Contenders(t), redelivered) /\ redelivered' = redelivered
      BY <1>1 DEF TwiceInv
    <3>5. Few(Contenders(t)', redelivered')
      BY <2>1, <3>1, <3>4 DEF Few
    <3> QED
      BY <3>3, <3>5
  <2> QED
    BY <2>2, <2>3
<1>9. (\A t \in Subtask : Few(Contenders(t), redelivered) /\ LockKept(t))'
  BY <1>8
<1>10. queue' \in SUBSET Message
  BY <1>1, <1>2 DEF TwiceInv
<1> QED
  BY <1>1, <1>5, <1>6, <1>9, <1>10 DEF TwiceInv, Unhurried

\* No two workers process the recipients of one subtask at the same time
\* (_acquire_subtask_lock, _release_subtask_lock), whatever becomes of the
\* workers and of their retries, as long as the key neither expires nor is
\* deleted between two tries of an update, and one message at most is
\* delivered a second time.
THEOREM OneWorkerAtATime ==
  ASSUME MaxRedeliver <= 1
  PROVE  SpecTwice => []OneWorkerPerSubtask
<1>1. Init => TwiceInv
  <2> SUFFICES ASSUME Init PROVE TwiceInv
    OBVIOUS
  <2>1. /\ worker = [w \in Worker |-> Idle] /\ Idle.pc = "idle"
        /\ queue = {[sub |-> s, to_list |-> Recipient, status |-> NewStatus,
                     retries |-> 0] : s \in Subtask}
        /\ redelivered = 0
    BY DEF Init, Idle
  <2>2. worker \in [Worker -> WorkerState]
    BY <2>1, IdleWorker
  <2>3. NewStatus \in Status /\ ~Done(NewStatus)
    BY DEF NewStatus, Status, SubtaskState, Done, READY_STATES
  <2>4. queue \in SUBSET Message /\ WorkerConsistent
    BY <2>1, <2>3, IdleWorker DEF Message, WorkerConsistent
  <2>5. \A w \in Worker : Unhurried(worker[w]) /\ ~Contends(worker[w]) /\ ~Inside(worker[w])
    BY <2>1 DEF Unhurried, Contends, Inside
  <2>6. ASSUME NEW s \in Subtask
        PROVE  Few(Contenders(s), redelivered) /\ LockKept(s)
    <3>1. \A m, n \in queue : m.sub = s /\ n.sub = s => m = n
      BY <2>1
    <3>2. \A a, b \in Contenders(s) : a = b
      BY <2>5, <3>1, ContendersAre
    <3> QED
      BY <2>5, <3>2 DEF Few, LockKept, InsideOf
  <2> QED
    BY <2>1, <2>2, <2>4, <2>5, <2>6 DEF TwiceInv
<1>2. TwiceInv /\ [\E w \in Worker : \/ Step(w) \/ WorkerDies(w)
                                     \/ DeliverTwice(w)]_vars
        => TwiceInv'
  <2> SUFFICES ASSUME TwiceInv,
                      [\E w \in Worker : \/ Step(w) \/ WorkerDies(w)
                                         \/ DeliverTwice(w)]_vars
               PROVE  TwiceInv'
    OBVIOUS
  <2>1. ASSUME NEW w \in Worker, Step(w) \/ WorkerDies(w) \/ DeliverTwice(w)
        PROVE  TwiceInv'
    <3>1. ASSUME \E wk : Advances(w, wk), UNCHANGED <<queue, locked, redelivered>>
          PROVE  TwiceInv'
      BY <3>1, AdvanceKeepsLock
    <3>2. CASE \/ FilterOptouts(w) \/ PrepareRaises(w) \/ OpenConnection(w)
               \/ EmailSent(w) \/ EmailFails(w) \/ RateLimited(w)
               \/ TransientError(w) \/ BulkFailure(w) \/ AllProcessed(w)
      <4>1. UNCHANGED <<queue, locked, redelivered>>
        BY <3>2 DEF FilterOptouts, PrepareRaises, OpenConnection, EmailSent, EmailFails,
             RateLimited, TransientError, BulkFailure, AllProcessed
      <4> QED
        BY <3>1, <3>2, <4>1, SendingAdvances
    <3>3. CASE \/ CheckRow(w) \/ UpdateCommits(w) \/ RetryFails(w)
               \/ CloseConnection(w) \/ WorkerDies(w)
      <4>1. UNCHANGED <<queue, locked, redelivered>>
        BY <3>3 DEF CheckRow, UpdateCommits, RetryFails, CloseConnection, WorkerDies
      <4> QED
        BY <3>1, <3>3, <4>1, EndingAdvances
    <3> QED
      BY <2>1, <3>2, <3>3, AcquireKeepsLock, ReleaseKeepsLock, DeliveryKeepsLock,
         PublishingKeepsLock DEF Step
  <2>2. CASE UNCHANGED vars
    <3>1. UNCHANGED <<queue, locked, worker, redelivered>>
      BY <2>2 DEF vars
    <3>2. \A s : Contenders(s)' = Contenders(s)
      BY <3>1 DEF Contenders, Contends
    <3>3. \A s : \A v \in Worker : InsideOf(v, s)' <=> InsideOf(v, s)
      BY <3>1 DEF InsideOf, Inside
    <3>4. \A s \in Subtask : LockKept(s)'
      BY <3>1, <3>2, <3>3 DEF TwiceInv, LockKept
    <3> QED
      BY <3>1, <3>2, <3>4 DEF TwiceInv, WorkerConsistent, Unhurried
  <2> QED
    BY <2>1, <2>2
<1>3. TwiceInv => OneWorkerPerSubtask
  <2> SUFFICES ASSUME TwiceInv, NEW v \in Worker, NEW w \in Worker,
                      worker[v].pc \in {"filter", "open", "send"},
                      worker[w].pc \in {"filter", "open", "send"},
                      worker[v].sub = worker[w].sub
               PROVE  v = w
    BY DEF OneWorkerPerSubtask
  <2> PICK s : s = worker[v].sub
    OBVIOUS
  <2>1. s \in Subtask
    BY DEF TwiceInv, WorkerState
  <2>2. InsideOf(v, s) /\ InsideOf(w, s)
    BY DEF InsideOf, Inside
  <2>3. LockKept(s)
    BY <2>1 DEF TwiceInv
  <2> QED
    BY <2>2, <2>3 DEF LockKept
<1> QED
  BY <1>1, <1>2, <1>3, PTL DEF SpecTwice
=============================================================================
