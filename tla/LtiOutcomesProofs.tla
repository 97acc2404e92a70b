--------------------------- MODULE LtiOutcomesProofs ---------------------------
(***************************************************************************)
(* Theorems about LtiOutcomes: types, that the campus LMS ends with the    *)
(* score of the database, and, while no two requests count up from the     *)
(* same version, that what is sent is current and never older than what    *)
(* was sent.                                                               *)
(***************************************************************************)
EXTENDS LtiOutcomes, TLAPS

(***************************************************************************)
(* The inductive invariant.  A task of the last request that changed the   *)
(* score of an assignment, Due, waits for everybody who may still send an  *)
(* older score; once it has started, nobody has an older score any more.   *)
(***************************************************************************)

\* Worker w is at work on assignment a.
On(w, a) == worker[w] # Idle /\ worker[w].task.of = a

\* Worker w has computed a score of a that is no longer that of the database.
Stale(w, a) ==
  /\ On(w, a)
  /\ worker[w].pc \in {"recheck", "post"}
  /\ worker[w].score # Within(scored, a)

\* Task t will find its version, and waits for all stale workers.
Due(t, a) ==
  /\ t.of = a
  /\ t.version = version[a]
  /\ \A w \in Worker : Stale(w, a) => NameOf(worker[w].task) \in t.after

\* Worker w will get as far as sending its score.
Reaching(w, a) ==
  /\ On(w, a)
  /\ worker[w].pc # "post" => worker[w].task.version = version[a]

Covered(a) ==
  \/ \E t \in tasks : Due(t, a)
  \/ /\ \A w \in Worker : ~Stale(w, a)
     /\ campus[a] = Within(scored, a) \/ \E w \in Worker : Reaching(w, a)

AllCovered == \A a \in Announced \ (Leaf \cup lost) : Covered(a)

\* The tasks of an open request are still in the queue, with its versions.
OpenKeepsTasks ==
  /\ \A t \in tasks : t.of \notin Leaf /\ t.req \in Open => t.req \in t.after
  /\ \A r \in Open : \A a \in request[r].told \ Leaf :
       \E t \in tasks : /\ t.req = r
                        /\ t.of = a
                        /\ t.version = request[r].read[a] + 1

\* Rows that requests, tasks and workers know of have been created.
RowsExist ==
  /\ \A r \in Request : /\ request[r].found \subseteq launched
                        /\ request[r].saved \subseteq request[r].found
                        /\ request[r].told \subseteq request[r].saved
                        /\ request[r].pc \in {"new", "read"}
                             => request[r].saved = {} /\ request[r].told = {}
                        /\ r \in scored => request[r].pc = "committed"
  /\ \A t \in tasks : t.of \in launched /\ t.of \in request[t.req].told
  /\ \A w \in Worker : worker[w] # Idle => worker[w].task.of \in launched

\* Request r looked for rows before that of a was created.
Missed(r, a) ==
  /\ request[r].pc = "open"
  /\ a \in launched \ (Leaf \cup request[r].found)
  /\ ProblemOf[r] \in Contains[a]

\* Then all tasks for a wait for r.
MissedWaits ==
  \A r \in Request, a \in Assignment : Missed(r, a) =>
    /\ \A w \in Worker : ~On(w, a)
    /\ \A t \in tasks : t.of = a => t.req \in Open \/ r \in t.after
    /\ a \in Announced => \E t \in tasks : t.of = a /\ t.version = version[a]

IInv == TypeOK /\ OpenKeepsTasks /\ RowsExist /\ MissedWaits /\ AllCovered
-----------------------------------------------------------------------------
(***************************************************************************)
(* Types.                                                                  *)
(***************************************************************************)

\* A worker that is not idle has a task.
LEMMA BusyWorker ==
  ASSUME TypeOK, NEW w \in Worker, worker[w] # Idle
  PROVE  /\ worker[w] \in [pc : {"compute", "recheck", "post"}, task : Task,
                           score : SUBSET Request]
         /\ worker[w].task \in Task
  BY DEF TypeOK, WorkerState

\* A worker that is in a step of a task is not idle.
LEMMA AtBusy ==
  ASSUME NEW w \in Worker, NEW pc \in {"compute", "recheck", "post"}, At(w, pc)
  PROVE  worker[w] # Idle
  BY DEF At, Idle

\* Running tasks have names.
LEMMA NamesOfTasks ==
  ASSUME TypeOK
  PROVE  Running \subseteq Name
<1>1. \A t \in Task : NameOf(t) \in Name
  BY DEF NameOf, Name, Task
<1> QED
  BY <1>1, BusyWorker DEF Running

\* What Delayed does to a task.
LEMMA DelayedTasks ==
  ASSUME TypeOK, NEW r \in Request
  PROVE  /\ Delayed(r) \subseteq Task
         /\ \A t \in tasks : \E u \in Delayed(r) :
              /\ u.req = t.req /\ u.of = t.of /\ u.version = t.version
              /\ \/ u = t /\ (t.req # r \/ t.of \in Leaf)
                 \/ t.req = r /\ t.of \notin Leaf /\ u.after = (Open \ {r}) \cup Running
         /\ \A u \in Delayed(r) : \E t \in tasks :
              /\ u.req = t.req /\ u.of = t.of /\ u.version = t.version
              /\ \/ u = t /\ (t.req # r \/ t.of \in Leaf)
                 \/ t.req = r /\ t.of \notin Leaf /\ u.after = (Open \ {r}) \cup Running
<1> DEFINE After == (Open \ {r}) \cup Running
           New(t) == IF t.req = r /\ t.of \notin Leaf THEN [t EXCEPT !.after = After] ELSE t
<1>1. After \subseteq Request \cup Name
  BY NamesOfTasks DEF Open
<1>2. \A t \in tasks :
        /\ New(t) \in Task
        /\ New(t).req = t.req /\ New(t).of = t.of /\ New(t).version = t.version
        /\ \/ New(t) = t /\ (t.req # r \/ t.of \in Leaf)
           \/ t.req = r /\ t.of \notin Leaf /\ New(t).after = After
  BY <1>1 DEF TypeOK, Task
<1>3. Delayed(r) = {New(t) : t \in tasks}
  BY DEF Delayed
<1> QED
  BY <1>2, <1>3

\* What a request puts into the queue is a task.
LEMMA MessageType ==
  ASSUME TypeOK, NEW r \in Request, NEW a \in Assignment
  PROVE  Message(r, a) \in Task
<1>1. /\ request[r].read[a] \in Nat
      /\ Within(scored, a) \cup {r} \subseteq Request
  BY DEF TypeOK, RequestState, Within
<1> QED
  BY <1>1 DEF Message, Task

\* A step that replaces the state of one request.
LEMMA RequestType ==
  ASSUME TypeOK, NEW r \in Request, NEW q \in RequestState,
         request' = [request EXCEPT ![r] = q]
  PROVE  request' \in [Request -> RequestState]
  BY DEF TypeOK

\* Every step keeps the types.
LEMMA TypeStep ==
  ASSUME TypeOK, [Next]_vars
  PROVE  TypeOK'
<1>0. /\ \A r \in Request : request[r] \in RequestState
      /\ launched \subseteq Assignment
      /\ version \in [Assignment -> Nat]
  BY DEF TypeOK
<1> USE DEF TypeOK
<1>1. ASSUME NEW a \in Assignment, store_outcome_parameters(a)
      PROVE  TypeOK'
  BY <1>1 DEF store_outcome_parameters
<1>2. ASSUME NEW r \in Request, SetScore(r)
      PROVE  TypeOK'
  <2> DEFINE q == [request[r] EXCEPT !.pc = "read"]
  <2>1. q \in RequestState
    BY <1>0 DEF RequestState
  <2>2. request' = [request EXCEPT ![r] = q]
    BY <1>2 DEF SetScore
  <2> HIDE DEF q
  <2> QED
    BY <1>2, <2>1, <2>2, RequestType DEF SetScore
<1>3. ASSUME NEW r \in Request, ReadVersions(r)
      PROVE  TypeOK'
  <2> DEFINE q == [request[r] EXCEPT !.pc = "open", !.found = Affected(r), !.read = version]
  <2>1. q \in RequestState
    BY <1>0 DEF RequestState, Affected
  <2>2. request' = [request EXCEPT ![r] = q]
    BY <1>3 DEF ReadVersions
  <2> HIDE DEF q
  <2> QED
    BY <1>3, <2>1, <2>2, RequestType DEF ReadVersions
<1>4. ASSUME NEW r \in Request, NEW a \in Assignment, SaveVersion(r, a)
      PROVE  TypeOK'
  <2> DEFINE q == [request[r] EXCEPT !.saved = request[r].saved \cup {a}]
  <2>1. q \in RequestState
    BY <1>0 DEF RequestState
  <2>2. request' = [request EXCEPT ![r] = q]
    BY <1>4 DEF SaveVersion
  <2> HIDE DEF q
  <2> QED
    BY <1>4, <2>1, <2>2, RequestType DEF SaveVersion
<1>5. ASSUME NEW r \in Request, NEW a \in Assignment, Publish(r, a)
      PROVE  TypeOK'
  <2> DEFINE q == [request[r] EXCEPT !.told = request[r].told \cup {a}]
  <2>1. q \in RequestState
    BY <1>0 DEF RequestState
  <2>2. request' = [request EXCEPT ![r] = q]
    BY <1>5 DEF Publish
  <2> HIDE DEF q
  <2> QED
    BY <1>5, <2>1, <2>2, RequestType, MessageType DEF Publish
<1>6. ASSUME NEW r \in Request, Commit(r)
      PROVE  TypeOK'
  <2>1. Delayed(r) \subseteq Task
    BY DelayedTasks
  <2>2. \A a \in Assignment : request[r].read[a] + 1 \in Nat
    BY DEF RequestState
  <2> DEFINE q == [request[r] EXCEPT !.pc = "committed"]
  <2>3. q \in RequestState
    BY DEF RequestState
  <2>4. request' = [request EXCEPT ![r] = q]
    BY <1>6 DEF Commit
  <2> HIDE DEF q
  <2>5. request' \in [Request -> RequestState]
    BY <2>3, <2>4, RequestType
  <2>6. version' \in [Assignment -> Nat]
    BY <1>6, <2>2 DEF Commit
  <2> QED
    BY <1>6, <2>1, <2>5, <2>6 DEF Commit
<1>7. ASSUME NEW r \in Request, Abort(r)
      PROVE  TypeOK'
  <2>1. Delayed(r) \subseteq Task
    BY DelayedTasks
  <2> DEFINE q == [request[r] EXCEPT !.pc = "aborted"]
  <2>2. q \in RequestState
    BY DEF RequestState
  <2>3. request' = [request EXCEPT ![r] = q]
    BY <1>7 DEF Abort
  <2> HIDE DEF q
  <2> QED
    BY <1>7, <2>1, <2>2, <2>3, RequestType DEF Abort
<1>8. ASSUME NEW w \in Worker, StartLeaf(w)
      PROVE  TypeOK'
  BY <1>8 DEF StartLeaf, WorkerState, Task
<1>9. ASSUME NEW w \in Worker, StartComposite(w)
      PROVE  TypeOK'
  BY <1>9 DEF StartComposite, WorkerState
<1>10. ASSUME NEW w \in Worker, ComputeScore(w)
       PROVE  TypeOK'
  BY <1>10, AtBusy, BusyWorker DEF ComputeScore, WorkerState, Within
<1>11. ASSUME NEW w \in Worker, Recheck(w)
       PROVE  TypeOK'
  BY <1>11, AtBusy, BusyWorker DEF Recheck, WorkerState
<1>12. ASSUME NEW w \in Worker, ScoreArrives(w)
       PROVE  TypeOK'
  BY <1>12, AtBusy, BusyWorker DEF ScoreArrives, WorkerState
<1>13. ASSUME NEW w \in Worker, TaskFails(w)
       PROVE  TypeOK'
  BY <1>13, BusyWorker DEF TaskFails, WorkerState, Task
<1>14. CASE UNCHANGED vars
  BY <1>14 DEF vars
<1> QED
  BY <1>1, <1>2, <1>3, <1>4, <1>5, <1>6, <1>7, <1>8, <1>9, <1>10, <1>11, <1>12,
     <1>13, <1>14 DEF Next

\* The variables keep their types.
THEOREM TypeCorrect == Spec => []TypeOK
<1>1. Init => TypeOK
  BY DEF Init, TypeOK, RequestState, WorkerState
<1> QED
  BY <1>1, TypeStep, PTL DEF Spec
-----------------------------------------------------------------------------
(***************************************************************************)
(* The other conjuncts of the inductive invariant, one lemma each.         *)
(***************************************************************************)

\* No step deletes a row, and none is used before it was read.
LEMMA RowsExistStep ==
  ASSUME TypeOK, RowsExist, [Next]_vars
  PROVE  RowsExist'
<1> USE DEF RowsExist
<1>0. \A r \in Request : request[r] \in RequestState
  BY DEF TypeOK
<1>1. ASSUME NEW a \in Assignment, store_outcome_parameters(a)
      PROVE  RowsExist'
  BY <1>1 DEF store_outcome_parameters
<1>2. ASSUME NEW r \in Request, SetScore(r)
      PROVE  RowsExist'
  BY <1>0, <1>2 DEF SetScore, TypeOK, RequestState
<1>3. ASSUME NEW r \in Request, ReadVersions(r)
      PROVE  RowsExist'
  <2>1. /\ request'[r].pc = "open"
        /\ request'[r].found = Affected(r)
        /\ request'[r].saved = request[r].saved
        /\ request'[r].told = request[r].told
        /\ \A q \in Request \ {r} : request'[q] = request[q]
    BY <1>0, <1>3 DEF ReadVersions, TypeOK, RequestState
  <2>2. /\ request[r].saved = {} /\ request[r].told = {}
        /\ \A t \in tasks : t.req \in Request
    BY <1>3 DEF ReadVersions, TypeOK, Task
  <2> QED
    BY <1>3, <2>1, <2>2, ZenonT(30) DEF ReadVersions, Affected
<1>4. ASSUME NEW r \in Request, NEW a \in Assignment, SaveVersion(r, a)
      PROVE  RowsExist'
  BY <1>0, <1>4 DEF SaveVersion, TypeOK, RequestState
<1>5. ASSUME NEW r \in Request, NEW a \in Assignment, Publish(r, a)
      PROVE  RowsExist'
  <2>0. \A t \in tasks : t.req \in Request
    BY DEF TypeOK, Task
  <2>1. /\ request'[r].pc = "open"
        /\ request'[r].found = request[r].found
        /\ request'[r].saved = request[r].saved
        /\ request'[r].told = request[r].told \cup {a}
        /\ \A q \in Request \ {r} : request'[q] = request[q]
    BY <1>0, <1>5 DEF Publish, TypeOK, RequestState
  <2>2. Message(r, a).of = a /\ Message(r, a).req = r /\ a \in request[r].found
    BY <1>5 DEF Publish, Message
  <2> QED
    BY <1>5, <2>0, <2>1, <2>2 DEF Publish
<1>6. ASSUME NEW r \in Request, Commit(r) \/ Abort(r)
      PROVE  RowsExist'
  <2>1. /\ request'[r].found = request[r].found
        /\ request'[r].saved = request[r].saved
        /\ request'[r].told = request[r].told
        /\ request'[r].pc \in {"committed", "aborted"}
        /\ Commit(r) => request'[r].pc = "committed"
        /\ \A q \in Request \ {r} : request'[q] = request[q]
    BY <1>0, <1>6 DEF Commit, Abort, TypeOK, RequestState
  <2>2. /\ tasks' = Delayed(r)
        /\ UNCHANGED <<launched, worker>>
        /\ scored' \subseteq scored \cup {r}
        /\ Abort(r) => scored' = scored /\ r \in Open
    BY <1>6 DEF Commit, Abort
  <2>3. \A t \in tasks' : t.of \in launched /\ t.of \in request'[t.req].told
    BY <2>1, <2>2, DelayedTasks DEF TypeOK, Task
  <2>4. Abort(r) => r \notin scored
    BY <2>2 DEF Open
  <2> QED
    BY <1>6, <2>1, <2>2, <2>3, <2>4
<1>7. ASSUME NEW w \in Worker, StartLeaf(w) \/ StartComposite(w)
      PROVE  RowsExist'
  BY <1>7 DEF StartLeaf, StartComposite, TypeOK, Idle
<1>8. ASSUME NEW w \in Worker,
             ComputeScore(w) \/ Recheck(w) \/ ScoreArrives(w) \/ TaskFails(w)
      PROVE  RowsExist'
  <2>1. /\ UNCHANGED <<scored, launched, request, tasks>>
        /\ \A v \in Worker \ {w} : worker'[v] = worker[v]
    BY <1>8 DEF ComputeScore, Recheck, ScoreArrives, TaskFails, TypeOK
  <2>2. worker'[w] = Idle \/ (worker'[w].task = worker[w].task /\ worker[w] # Idle)
    BY <1>8, AtBusy, BusyWorker DEF ComputeScore, Recheck, ScoreArrives, TaskFails, TypeOK
  <2> QED
    BY <2>1, <2>2
<1>9. CASE UNCHANGED vars
  BY <1>9 DEF vars
<1> QED
  BY <1>1, <1>2, <1>3, <1>4, <1>5, <1>6, <1>7, <1>8, <1>9 DEF Next
\* No worker starts a task of a request that has not committed.
LEMMA OpenKeepsTasksStep ==
  ASSUME TypeOK, RowsExist, OpenKeepsTasks, [Next]_vars
  PROVE  OpenKeepsTasks'
<1> USE DEF OpenKeepsTasks
<1>0. /\ \A r \in Request : request[r] \in RequestState
      /\ \A t \in tasks : t \in Task /\ t.req \in Request
  BY DEF TypeOK, Task
<1>1. ASSUME NEW a \in Assignment, store_outcome_parameters(a)
      PROVE  OpenKeepsTasks'
  BY <1>1 DEF store_outcome_parameters, Open
<1>2. ASSUME NEW r \in Request, SetScore(r) \/ ReadVersions(r)
      PROVE  OpenKeepsTasks'
  <2>1. /\ request'[r].told = request[r].told
        /\ request[r].pc \in {"new", "read"}
        /\ \A q \in Request \ {r} : request'[q] = request[q]
        /\ tasks' = tasks
    BY <1>0, <1>2 DEF SetScore, ReadVersions, TypeOK, RequestState
  <2>2. request[r].told = {} /\ \A t \in tasks : t.req # r
    BY <2>1 DEF RowsExist
  <2> QED
    BY <1>0, <2>1, <2>2 DEF Open
<1>3. ASSUME NEW r \in Request, NEW a \in Assignment, SaveVersion(r, a)
      PROVE  OpenKeepsTasks'
  <2>1. /\ request'[r].told = request[r].told
        /\ request'[r].read = request[r].read
        /\ request'[r].pc = request[r].pc
        /\ \A q \in Request \ {r} : request'[q] = request[q]
        /\ tasks' = tasks
    BY <1>0, <1>3 DEF SaveVersion, TypeOK, RequestState
  <2> QED
    BY <1>0, <2>1 DEF Open
<1>4. ASSUME NEW r \in Request, NEW a \in Assignment, Publish(r, a)
      PROVE  OpenKeepsTasks'
  <2>1. /\ request'[r].told = request[r].told \cup {a}
        /\ request'[r].read = request[r].read
        /\ request'[r].pc = request[r].pc
        /\ \A q \in Request \ {r} : request'[q] = request[q]
        /\ tasks' = tasks \cup {Message(r, a)}
    BY <1>0, <1>4 DEF Publish, TypeOK, RequestState
  <2>2. a \notin Leaf =>
          /\ Message(r, a).req = r
          /\ Message(r, a).of = a
          /\ Message(r, a).version = request[r].read[a] + 1
          /\ r \in Message(r, a).after
    BY DEF Message
  <2>3. Message(r, a).of = a /\ Message(r, a).req = r
    BY DEF Message
  <2> QED
    BY <1>0, <2>1, <2>2, <2>3 DEF Open
<1>5. ASSUME NEW r \in Request, Commit(r) \/ Abort(r)
      PROVE  OpenKeepsTasks'
  <2>1. /\ request'[r].pc \in {"committed", "aborted"}
        /\ \A q \in Request \ {r} : request'[q] = request[q]
        /\ tasks' = Delayed(r)
    BY <1>0, <1>5 DEF Commit, Abort, TypeOK, RequestState
  <2>2. Open' = Open \ {r}
    BY <2>1 DEF Open
  <2>3. \A t \in tasks' : t.of \notin Leaf /\ t.req \in Open' => t.req \in t.after
    BY <2>1, <2>2, DelayedTasks
  <2>4. ASSUME NEW q \in Open', NEW a \in request'[q].told \ Leaf
        PROVE  \E t \in tasks' : /\ t.req = q
                                 /\ t.of = a
                                 /\ t.version = request'[q].read[a] + 1
    <3>1. q \in Open /\ q \in Request \ {r} /\ request'[q] = request[q]
      BY <2>1, <2>2 DEF Open
    <3>2. PICK t \in tasks : /\ t.req = q
                             /\ t.of = a
                             /\ t.version = request[q].read[a] + 1
      BY <3>1
    <3> QED
      BY <2>1, <3>1, <3>2, DelayedTasks
  <2> QED
    BY <2>3, <2>4
<1>6. ASSUME NEW w \in Worker, StartLeaf(w) \/ StartComposite(w)
      PROVE  OpenKeepsTasks'
  <2>1. PICK t \in tasks : /\ tasks' = tasks \ {t}
                           /\ request' = request
                           /\ t.of \in Leaf \/ t.after \cap Open = {}
    BY <1>6 DEF StartLeaf, StartComposite
  <2>2. t.of \in Leaf \/ t.req \notin Open
    BY <2>1
  <2> QED
    BY <2>1, <2>2 DEF Open
<1>7. ASSUME NEW w \in Worker,
             ComputeScore(w) \/ Recheck(w) \/ ScoreArrives(w) \/ TaskFails(w)
      PROVE  OpenKeepsTasks'
  BY <1>7 DEF ComputeScore, Recheck, ScoreArrives, TaskFails, Open
<1>8. CASE UNCHANGED vars
  BY <1>8 DEF vars, Open
<1> QED
  BY <1>1, <1>2, <1>3, <1>4, <1>5, <1>6, <1>7, <1>8 DEF Next
\* A request that missed a row holds back the tasks for it.
LEMMA MissedWaitsStep ==
  ASSUME TypeOK, RowsExist, OpenKeepsTasks, MissedWaits, [Next]_vars,
         NEW r \in Request, NEW a \in Assignment, Missed(r, a)'
  PROVE  /\ \A w \in Worker : ~On(w, a)'
         /\ \A t \in tasks' : t.of = a => t.req \in Open' \/ r \in t.after
         /\ a \in Announced' => \E t \in tasks' : t.of = a /\ t.version = version'[a]
<1> DEFINE Waits == /\ \A w \in Worker : ~On(w, a)
                    /\ \A t \in tasks : t.of = a => t.req \in Open \/ r \in t.after
                    /\ a \in Announced => \E t \in tasks : t.of = a /\ t.version = version[a]
<1>0. /\ \A q \in Request : request[q] \in RequestState
      /\ \A t \in tasks : t \in Task /\ t.req \in Request
      /\ Missed(r, a) => Waits
      /\ \A q \in Open : q \notin scored
  BY DEF TypeOK, Task, MissedWaits, Open, RowsExist
<1>1. ASSUME NEW b \in Assignment, store_outcome_parameters(b)
      PROVE  Waits'
  <2>1. /\ launched' = launched \cup {b} /\ b \notin launched
        /\ UNCHANGED <<scored, version, request, tasks, worker>>
    BY <1>1 DEF store_outcome_parameters
  <2>2. CASE a = b
    <3>1. a \notin Announced
      BY <2>1, <2>2 DEF Announced, RowsExist, TypeOK
    <3> QED
      BY <2>1, <2>2, <3>1 DEF RowsExist, On, Announced
  <2>3. CASE a # b
    <3>1. Missed(r, a)
      BY <2>1, <2>3 DEF Missed
    <3> QED
      BY <1>0, <2>1, <3>1 DEF On, Announced, Open
  <2> QED
    BY <2>2, <2>3
<1>2. ASSUME NEW q \in Request, SetScore(q) \/ ReadVersions(q)
      PROVE  Waits'
  <2>1. /\ request'[q].told = request[q].told
        /\ request[q].pc \in {"new", "read"}
        /\ request'[q].pc \in {"read", "open"}
        /\ request'[q].pc = "open" => request'[q].found = Affected(q)
        /\ \A p \in Request \ {q} : request'[p] = request[p]
        /\ UNCHANGED <<scored, launched, version, tasks, worker>>
    BY <1>0, <1>2 DEF SetScore, ReadVersions, TypeOK, RequestState
  <2>2. r # q /\ Missed(r, a)
    BY <2>1 DEF Missed, Affected
  <2>3. Open \subseteq Open' /\ Announced' = Announced
    <3>1. \A p \in scored : p \in Request /\ request'[p].told = request[p].told
      BY <2>1 DEF TypeOK
    <3> QED
      BY <2>1, <3>1 DEF Open, Announced
  <2> QED
    BY <1>0, <2>1, <2>2, <2>3 DEF On
<1>3. ASSUME NEW q \in Request, NEW b \in Assignment, SaveVersion(q, b) \/ Publish(q, b)
      PROVE  Waits'
  <2>1. /\ request'[q].pc = "open" /\ request[q].pc = "open"
        /\ request'[q].found = request[q].found
        /\ \A p \in Request \ {q} : request'[p] = request[p]
        /\ UNCHANGED <<scored, launched, version, worker>>
        /\ tasks \subseteq tasks'
        /\ \A t \in tasks' \ tasks : t.req = q
    BY <1>0, <1>3 DEF SaveVersion, Publish, Message, TypeOK, RequestState
  <2>2. Open' = Open /\ q \in Open
    BY <2>1 DEF Open
  <2>3. Announced' = Announced
    <3>1. \A p \in scored : p \in Request /\ request'[p].told = request[p].told
      BY <1>0, <2>1, <2>2 DEF TypeOK
    <3> QED
      BY <2>1, <3>1 DEF Announced
  <2>4. Missed(r, a)
    BY <2>1 DEF Missed
  <2> QED
    BY <1>0, <2>1, <2>2, <2>3, <2>4 DEF On
<1>4. ASSUME NEW q \in Request, Commit(q) \/ Abort(q)
      PROVE  Waits'
  <2>1. /\ request'[q].pc \in {"committed", "aborted"}
        /\ request'[q].told = request[q].told
        /\ \A p \in Request \ {q} : request'[p] = request[p]
        /\ tasks' = Delayed(q)
        /\ UNCHANGED <<launched, worker>>
    BY <1>0, <1>4 DEF Commit, Abort, TypeOK, RequestState
  <2>2. Open' = Open \ {q}
    BY <2>1 DEF Open
  <2>3. /\ Missed(r, a) /\ r # q
        /\ r \in Open \ {q} /\ a \notin Leaf
    BY <2>1 DEF Missed, Open
  <2>4. \A w \in Worker : ~On(w, a)'
    BY <1>0, <2>1, <2>3 DEF On
  <2>5. \A t \in tasks' : t.of = a => t.req \in Open' \/ r \in t.after
    <3> SUFFICES ASSUME NEW u \in tasks', u.of = a
                 PROVE  u.req \in Open' \/ r \in u.after
      OBVIOUS
    <3>0. u \in Delayed(q)
      BY <2>1
    <3>1. PICK t \in tasks :
            /\ u.req = t.req /\ u.of = t.of /\ u.version = t.version
            /\ \/ u = t /\ (t.req # q \/ t.of \in Leaf)
               \/ t.req = q /\ t.of \notin Leaf /\ u.after = (Open \ {q}) \cup Running
      BY <3>0, DelayedTasks
    <3>2. t.req \in Open \/ r \in t.after
      BY <1>0, <2>3, <3>1
    <3> QED
      BY <2>2, <2>3, <3>1, <3>2
  <2>6. ASSUME a \in Announced'
        PROVE  \E t \in tasks' : t.of = a /\ t.version = version'[a]
    <3>1. CASE Commit(q) /\ a \in request[q].told
      <4>1. PICK t \in tasks : t.of = a /\ t.version = request[q].read[a] + 1
        BY <2>3, <3>1 DEF OpenKeepsTasks, Commit, Open
      <4>2. version'[a] = request[q].read[a] + 1
        BY <3>1 DEF Commit, RowsExist
      <4> QED
        BY <2>1, <4>1, <4>2, DelayedTasks
    <3>2. CASE ~(Commit(q) /\ a \in request[q].told)
      <4>1. version'[a] = version[a]
        BY <1>4, <3>2 DEF Commit, Abort, RowsExist, TypeOK
      <4>2. \A p \in scored' : /\ p \in Request
                               /\ request'[p].told = request[p].told
                               /\ p \in scored \/ (Commit(q) /\ p = q)
        BY <1>4, <2>1 DEF Commit, Abort, TypeOK
      <4>3. a \in Announced
        BY <2>6, <3>2, <4>2 DEF Announced
      <4> QED
        BY <1>0, <2>1, <2>3, <4>1, <4>3, DelayedTasks
    <3> QED
      BY <3>1, <3>2
  <2> QED
    BY <2>4, <2>5, <2>6
<1>5. ASSUME NEW v \in Worker, StartLeaf(v) \/ StartComposite(v)
      PROVE  Waits'
  <2>1. PICK t \in tasks : /\ tasks' = tasks \ {t}
                           /\ worker'[v] = Idle \/ worker'[v].task = t
                           /\ \A w \in Worker \ {v} : worker'[w] = worker[w]
                           /\ UNCHANGED <<scored, launched, version, request>>
                           /\ t.of \in Leaf \/ t.after \cap Open = {}
    BY <1>5 DEF StartLeaf, StartComposite, TypeOK
  <2>2. Missed(r, a) /\ r \in Open /\ a \notin Leaf
    BY <2>1 DEF Missed, Open
  <2>3. t.of # a
    BY <1>0, <2>1, <2>2 DEF OpenKeepsTasks
  <2>4. Open' = Open /\ Announced' = Announced
    BY <2>1 DEF Open, Announced
  <2> QED
    BY <1>0, <2>1, <2>2, <2>3, <2>4 DEF On
<1>6. ASSUME NEW v \in Worker,
             ComputeScore(v) \/ Recheck(v) \/ ScoreArrives(v) \/ TaskFails(v)
      PROVE  Waits'
  <2>1. /\ UNCHANGED <<scored, launched, version, request, tasks>>
        /\ \A w \in Worker \ {v} : worker'[w] = worker[w]
        /\ worker'[v] = Idle \/ (worker'[v].task = worker[v].task /\ worker[v] # Idle)
    BY <1>6, AtBusy, BusyWorker DEF ComputeScore, Recheck, ScoreArrives, TaskFails, TypeOK
  <2>2. Missed(r, a)
    BY <2>1 DEF Missed
  <2> QED
    BY <1>0, <2>1, <2>2 DEF On, Open, Announced
<1>7. CASE UNCHANGED vars
  <2>1. Missed(r, a)
    BY <1>7 DEF vars, Missed
  <2> QED
    BY <1>0, <1>7, <2>1 DEF vars, On, Open, Announced
<1> QED
  BY <1>1, <1>2, <1>3, <1>4, <1>5, <1>6, <1>7 DEF Next
\* Steps that leave the scores and the workers alone, and make no task wait
\* for less.
LEMMA CoveredFrame ==
  ASSUME NEW a \in Assignment, Covered(a),
         UNCHANGED <<scored, worker>>,
         version'[a] = version[a], campus'[a] = campus[a],
         \A t \in tasks : \E u \in tasks' :
           /\ u.of = t.of /\ u.version = t.version
           /\ t.after \subseteq u.after \/ Running \subseteq u.after
  PROVE  Covered(a)'
<1>1. Within(scored, a)' = Within(scored, a)
  BY DEF Within
<1>2. \A w \in Worker : Stale(w, a)' <=> Stale(w, a)
  BY <1>1 DEF Stale, On
<1>3. ASSUME NEW t \in tasks, Due(t, a)
      PROVE  \E u \in tasks' : Due(u, a)'
  <2>1. PICK u \in tasks' :
          /\ u.of = t.of /\ u.version = t.version
          /\ t.after \subseteq u.after \/ Running \subseteq u.after
    OBVIOUS
  <2>2. \A w \in Worker : Stale(w, a) => NameOf(worker[w].task) \in Running
    BY DEF Stale, On, Running
  <2>3. \A w \in Worker : Stale(w, a)' => NameOf(worker'[w].task) \in u.after
    BY <1>2, <1>3, <2>1, <2>2 DEF Due, NameOf
  <2> QED
    BY <1>3, <2>1, <2>3 DEF Due
<1>4. ASSUME NEW w \in Worker, Reaching(w, a)
      PROVE  Reaching(w, a)'
  BY <1>4 DEF Reaching, On
<1> QED
  BY <1>1, <1>2, <1>3, <1>4 DEF Covered

\* The end of a request that changed the score of a: its task is due.
LEMMA CommitCovers ==
  ASSUME TypeOK, RowsExist, OpenKeepsTasks,
         NEW r \in Request, Commit(r), NEW a \in request[r].told \ Leaf
  PROVE  Covered(a)'
<1>1. /\ request[r].pc = "open" /\ r \in Open
      /\ tasks' = Delayed(r)
      /\ worker' = worker
  BY DEF Commit, Open
<1>2. PICK t \in tasks : /\ t.req = r
                         /\ t.of = a
                         /\ t.version = request[r].read[a] + 1
  BY <1>1 DEF OpenKeepsTasks
<1>3. PICK u \in tasks' : /\ u.of = a
                          /\ u.version = request[r].read[a] + 1
                          /\ Running \subseteq u.after
  BY <1>1, <1>2, DelayedTasks
<1>4. version'[a] = request[r].read[a] + 1
  BY DEF Commit, RowsExist, TypeOK, RequestState
<1>5. \A w \in Worker : Stale(w, a)' => NameOf(worker'[w].task) \in u.after
  BY <1>1, <1>3 DEF Stale, On, Running, NameOf
<1> QED
  BY <1>3, <1>4, <1>5 DEF Covered, Due

\* The end of a request that has nothing to tell about a.
LEMMA CommitKeepsCovered ==
  ASSUME TypeOK, RowsExist, OpenKeepsTasks, MissedWaits,
         NEW r \in Request, Commit(r), NEW a \in Announced \ Leaf,
         a \notin request[r].told, Covered(a)
  PROVE  Covered(a)'
<1>0. a \in launched /\ a \in Assignment
  BY DEF Announced, RowsExist, TypeOK
<1>1. /\ request[r].pc = "open" /\ r \in Open
      /\ a \notin request[r].found
      /\ tasks' = Delayed(r)
      /\ UNCHANGED <<worker, campus>>
      /\ scored' = scored \cup {r}
  BY DEF Commit, Open
<1>2. version'[a] = version[a]
  BY <1>0, <1>1 DEF Commit, RowsExist, TypeOK
<1>3. CASE ProblemOf[r] \in Contains[a]
  <2>1. Missed(r, a)
    BY <1>0, <1>1, <1>3 DEF Missed
  <2>2. PICK t \in tasks : t.of = a /\ t.version = version[a]
    BY <1>0, <2>1 DEF MissedWaits
  <2>3. \A w \in Worker : ~Stale(w, a)'
    BY <1>0, <1>1, <2>1 DEF MissedWaits, Stale, On
  <2>4. PICK u \in tasks' : u.of = a /\ u.version = version'[a]
    BY <1>1, <1>2, <2>2, DelayedTasks
  <2> QED
    BY <2>3, <2>4 DEF Covered, Due
<1>4. CASE ProblemOf[r] \notin Contains[a]
  <2>1. Within(scored, a)' = Within(scored, a)
    BY <1>1, <1>4 DEF Within
  <2>2. \A w \in Worker : Stale(w, a)' <=> Stale(w, a)
    BY <1>1, <2>1 DEF Stale, On
  <2>3. ASSUME NEW t \in tasks, Due(t, a)
        PROVE  \E u \in tasks' : Due(u, a)'
    <3>1. PICK u \in tasks' : /\ u.of = t.of /\ u.version = t.version
                              /\ u = t \/ Running \subseteq u.after
      BY <1>1, DelayedTasks
    <3>2. \A w \in Worker : Stale(w, a) => NameOf(worker[w].task) \in Running
      BY DEF Stale, On, Running
    <3>3. \A w \in Worker : Stale(w, a)' => NameOf(worker'[w].task) \in u.after
      BY <1>1, <2>2, <2>3, <3>1, <3>2 DEF Due, NameOf
    <3> QED
      BY <1>2, <2>3, <3>1, <3>3 DEF Due
  <2>4. ASSUME NEW w \in Worker, Reaching(w, a)
        PROVE  Reaching(w, a)'
    BY <1>1, <1>2, <2>4 DEF Reaching, On
  <2> QED
    BY <1>1, <2>1, <2>2, <2>3, <2>4 DEF Covered
<1> QED
  BY <1>3, <1>4
\* Steps of a worker that is not made stale by them.
LEMMA CoveredByWorker ==
  ASSUME NEW a \in Assignment, Covered(a), NEW w \in Worker,
         UNCHANGED <<scored, version, tasks>>,
         \A v \in Worker \ {w} : worker'[v] = worker[v],
         Stale(w, a)' => Stale(w, a) /\ worker'[w].task = worker[w].task,
         (\A v \in Worker : ~Stale(v, a)) =>
           \/ campus'[a] = Within(scored, a)
           \/ campus'[a] = campus[a] /\ (Reaching(w, a) => Reaching(w, a)')
  PROVE  Covered(a)'
<1>1. Within(scored, a)' = Within(scored, a)
  BY DEF Within
<1>2. \A v \in Worker :
        Stale(v, a)' => Stale(v, a) /\ worker'[v].task = worker[v].task
  BY <1>1 DEF Stale, On
<1>3. \A t \in tasks : Due(t, a) => Due(t, a)'
  BY <1>2 DEF Due, NameOf
<1>4. \A v \in Worker \ {w} : Reaching(v, a) => Reaching(v, a)'
  BY DEF Reaching, On
<1> QED
  BY <1>1, <1>2, <1>3, <1>4 DEF Covered

\* A task of a composite assignment starts.
LEMMA StartCovers ==
  ASSUME TypeOK, NEW a \in Assignment, Covered(a), NEW w \in Worker, StartComposite(w)
  PROVE  Covered(a)'
<1>1. PICK t \in tasks :
        /\ t.after \cap Running = {}
        /\ tasks' = tasks \ {t}
        /\ worker'[w] = IF version[t.of] = t.version
                        THEN [pc |-> "compute", task |-> t, score |-> {}]
                        ELSE Idle
  BY DEF StartComposite, TypeOK
<1>2. /\ worker[w] = Idle
      /\ UNCHANGED <<scored, version, campus>>
      /\ \A v \in Worker \ {w} : worker'[v] = worker[v]
  BY DEF StartComposite, TypeOK
<1>3. Within(scored, a)' = Within(scored, a)
  BY <1>2 DEF Within
<1>4. \A v \in Worker :
        Stale(v, a)' => v # w /\ Stale(v, a) /\ worker'[v].task = worker[v].task
  BY <1>1, <1>2, <1>3 DEF Stale, On, Idle
<1>5. \A v \in Worker : Stale(v, a) => NameOf(worker[v].task) \in Running
  BY DEF Stale, On, Running
<1>6. CASE \E u \in tasks : u # t /\ Due(u, a)
  BY <1>1, <1>2, <1>4, <1>6 DEF Covered, Due, NameOf
<1>7. CASE Due(t, a)
  <2>1. \A v \in Worker : ~Stale(v, a)
    BY <1>1, <1>5, <1>7 DEF Due
  <2>2. worker'[w] = [pc |-> "compute", task |-> t, score |-> {}]
    BY <1>1, <1>7 DEF Due
  <2>3. Reaching(w, a)'
    BY <1>2, <1>7, <2>2 DEF Reaching, On, Due, Idle
  <2> QED
    BY <1>4, <2>1, <2>3 DEF Covered
<1>8. CASE ~\E u \in tasks : Due(u, a)
  <2>1. \A v \in Worker : Reaching(v, a) => Reaching(v, a)'
    BY <1>2 DEF Reaching, On
  <2> QED
    BY <1>2, <1>3, <1>4, <1>8, <2>1 DEF Covered
<1> QED
  BY <1>6, <1>7, <1>8

\* A task of a leaf starts.
LEMMA StartLeafCovers ==
  ASSUME TypeOK, NEW a \in Assignment \ Leaf, Covered(a), NEW w \in Worker, StartLeaf(w)
  PROVE  Covered(a)'
<1>1. PICK t \in tasks : /\ t.of \in Leaf
                         /\ tasks' = tasks \ {t}
                         /\ worker'[w] = [pc |-> "post", task |-> t, score |-> t.score]
  BY DEF StartLeaf, TypeOK
<1>2. /\ worker[w] = Idle
      /\ UNCHANGED <<scored, version, campus>>
      /\ \A v \in Worker \ {w} : worker'[v] = worker[v]
  BY DEF StartLeaf, TypeOK
<1>3. Within(scored, a)' = Within(scored, a)
  BY <1>2 DEF Within
<1>4. \A v \in Worker :
        Stale(v, a)' => Stale(v, a) /\ worker'[v].task = worker[v].task
  BY <1>1, <1>2, <1>3 DEF Stale, On
<1>5. \A u \in tasks : Due(u, a) => u \in tasks' /\ Due(u, a)'
  BY <1>1, <1>2, <1>4 DEF Due, NameOf
<1>6. \A v \in Worker : Reaching(v, a) => Reaching(v, a)'
  BY <1>2 DEF Reaching, On
<1> QED
  BY <1>2, <1>3, <1>4, <1>5, <1>6 DEF Covered

\* Every step leaves a task or a worker that will send the score.
LEMMA AllCoveredStep ==
  ASSUME TypeOK, RowsExist, OpenKeepsTasks, MissedWaits, AllCovered, [Next]_vars
  PROVE  AllCovered'
<1> SUFFICES ASSUME NEW a \in Announced' \ (Leaf \cup lost')
             PROVE  Covered(a)'
  BY DEF AllCovered
<1>0. /\ \A q \in Request : request[q] \in RequestState
      /\ \A t \in tasks : t \in Task
      /\ \A q \in Open : q \notin scored
      /\ scored \subseteq Request
      /\ a \in Announced \ (Leaf \cup lost) => a \in Assignment /\ Covered(a)
  BY DEF TypeOK, Open, RowsExist, AllCovered, Announced, RequestState
\* Requests that tell nobody anything new.
<1>1. ASSUME \A q \in scored : request'[q].told = request[q].told, scored' = scored
      PROVE  a \in Announced
  BY <1>0, <1>1 DEF Announced
<1>2. ASSUME NEW b \in Assignment, store_outcome_parameters(b)
      PROVE  Covered(a)'
  BY <1>0, <1>1, <1>2, CoveredFrame DEF store_outcome_parameters
<1>3. ASSUME NEW q \in Request,
             \/ SetScore(q)
             \/ ReadVersions(q)
             \/ \E b \in Assignment : SaveVersion(q, b) \/ Publish(q, b)
             \/ Abort(q)
      PROVE  Covered(a)'
  <2>1. /\ UNCHANGED <<scored, version, worker, campus, lost>>
        /\ \A p \in Request \ {q} : request'[p] = request[p]
        /\ request[q].pc \in {"new", "read", "open"}
    BY <1>0, <1>3 DEF SetScore, ReadVersions, SaveVersion, Publish, Abort, Open, TypeOK
  <2>2. q \notin scored
    BY <2>1 DEF RowsExist
  <2>3. a \in Announced
    BY <1>0, <1>1, <2>1, <2>2
  <2>4. \A t \in tasks : \E u \in tasks' :
          /\ u.of = t.of /\ u.version = t.version
          /\ t.after \subseteq u.after \/ Running \subseteq u.after
    <3>1. CASE Abort(q)
      BY <3>1, DelayedTasks DEF Abort
    <3>2. CASE tasks \subseteq tasks'
      BY <3>2
    <3> QED
      BY <1>3, <3>1, <3>2 DEF SetScore, ReadVersions, SaveVersion, Publish
  <2> QED
    BY <1>0, <2>1, <2>3, <2>4, CoveredFrame
<1>4. ASSUME NEW q \in Request, Commit(q)
      PROVE  Covered(a)'
  <2>1. /\ request'[q].told = request[q].told
        /\ \A p \in Request \ {q} : request'[p] = request[p]
        /\ scored' = scored \cup {q}
        /\ lost' = lost
    BY <1>0, <1>4 DEF Commit, TypeOK, RequestState
  <2>2. a \in Announced \/ a \in request[q].told
    BY <1>0, <2>1 DEF Announced
  <2> QED
    BY <1>0, <1>4, <2>1, <2>2, CommitCovers, CommitKeepsCovered
<1>5. ASSUME NEW w \in Worker, StartLeaf(w) \/ StartComposite(w)
      PROVE  Covered(a)'
  <2>1. UNCHANGED <<scored, request, lost>>
    BY <1>5 DEF StartLeaf, StartComposite
  <2> QED
    BY <1>0, <1>1, <1>5, <2>1, StartLeafCovers, StartCovers
<1>6. ASSUME NEW w \in Worker,
             ComputeScore(w) \/ Recheck(w) \/ ScoreArrives(w) \/ TaskFails(w)
      PROVE  Covered(a)'
  <2>1. /\ UNCHANGED <<scored, version, request, tasks>>
        /\ \A v \in Worker \ {w} : worker'[v] = worker[v]
        /\ lost \subseteq lost'
    BY <1>6 DEF ComputeScore, Recheck, ScoreArrives, TaskFails, TypeOK
  <2>2. a \in Assignment /\ a \notin lost' /\ Covered(a)
    BY <1>0, <1>1, <2>1
  <2>3. Within(scored, a)' = Within(scored, a)
    BY <2>1 DEF Within
  <2>4. CASE ComputeScore(w)
    <3>1. /\ worker'[w] = [pc |-> "recheck", task |-> worker[w].task,
                           score |-> Within(scored, worker[w].task.of)]
          /\ campus' = campus
          /\ worker[w].pc = "compute"
      BY <2>4 DEF ComputeScore, At, TypeOK
    <3>2. ~Stale(w, a)'
      BY <2>3, <3>1 DEF Stale, On
    <3>3. Reaching(w, a) => Reaching(w, a)'
      BY <2>1, <3>1 DEF Reaching, On, Idle
    <3> QED
      BY <2>1, <2>2, <3>1, <3>2, <3>3, CoveredByWorker
  <2>5. CASE Recheck(w)
    <3>1. /\ worker[w].pc = "recheck"
          /\ campus' = campus
          /\ worker[w] \in [pc : {"compute", "recheck", "post"}, task : Task,
                            score : SUBSET Request]
      BY <2>5, AtBusy, BusyWorker DEF Recheck, At
    <3>2. worker'[w] = IF version[worker[w].task.of] = worker[w].task.version
                       THEN [worker[w] EXCEPT !.pc = "post"] ELSE Idle
      BY <2>5 DEF Recheck, TypeOK
    <3>3. Stale(w, a)' => Stale(w, a) /\ worker'[w].task = worker[w].task
      BY <2>3, <3>1, <3>2 DEF Stale, On, Idle
    <3>4. Reaching(w, a) => Reaching(w, a)'
      BY <2>1, <3>1, <3>2 DEF Reaching, On, Idle
    <3> QED
      BY <2>1, <2>2, <3>1, <3>3, <3>4, CoveredByWorker
  <2>6. CASE ScoreArrives(w)
    <3>1. /\ worker[w].pc = "post" /\ worker[w] # Idle
          /\ worker'[w] = Idle
          /\ campus'[a] = IF worker[w].task.of = a THEN worker[w].score ELSE campus[a]
      BY <2>2, <2>6 DEF ScoreArrives, At, Idle, TypeOK
    <3>2. ~Stale(w, a)'
      BY <3>1 DEF Stale, On, Idle
    <3>3. ASSUME ~Stale(w, a)
          PROVE  \/ campus'[a] = Within(scored, a)
                 \/ campus'[a] = campus[a] /\ ~Reaching(w, a)
      BY <3>1, <3>3 DEF Stale, Reaching, On
    <3> QED
      BY <2>1, <2>2, <3>2, <3>3, CoveredByWorker
  <2>7. CASE TaskFails(w)
    <3>1. /\ worker'[w] = Idle
          /\ campus' = campus
          /\ worker[w].task.of # a
      BY <2>2, <2>7 DEF TaskFails, TypeOK
    <3>2. ~Stale(w, a)' /\ ~Reaching(w, a)
      BY <3>1 DEF Stale, Reaching, On, Idle
    <3> QED
      BY <2>1, <2>2, <3>1, <3>2, CoveredByWorker
  <2> QED
    BY <1>6, <2>4, <2>5, <2>6, <2>7
<1>7. CASE UNCHANGED vars
  BY <1>0, <1>1, <1>7, CoveredFrame DEF vars
<1> QED
  BY <1>2, <1>3, <1>4, <1>5, <1>6, <1>7 DEF Next
-----------------------------------------------------------------------------
\* The invariant holds of all behaviours.
THEOREM Invariant == Spec => []IInv
<1>1. Init => IInv
  BY DEF Init, IInv, TypeOK, RequestState, WorkerState, OpenKeepsTasks, RowsExist,
         MissedWaits, Missed, AllCovered, Announced, Open
<1>2. IInv /\ [Next]_vars => IInv'
  <2> SUFFICES ASSUME IInv, [Next]_vars PROVE IInv'
    OBVIOUS
  <2>1. TypeOK' /\ RowsExist' /\ OpenKeepsTasks' /\ AllCovered'
    BY TypeStep, RowsExistStep, OpenKeepsTasksStep, AllCoveredStep DEF IInv
  <2>2. MissedWaits'
    BY MissedWaitsStep DEF IInv, MissedWaits
  <2> QED
    BY <2>1, <2>2 DEF IInv
<1> QED
  BY <1>1, <1>2, PTL DEF Spec

\* When no request is open, no task queued and no worker busy, the campus LMS
\* holds the score of the database for every assignment that a committed request
\* announced a change of, unless a task failed to send it.
THEOREM CampusEndsCurrent == Spec => []CampusIsCurrent
<1>1. IInv => CampusIsCurrent
  <2> SUFFICES ASSUME IInv, Quiet, NEW a \in Announced \ (Leaf \cup lost)
               PROVE  campus[a] = Within(scored, a)
    BY DEF CampusIsCurrent
  <2>1. Covered(a)
    BY DEF IInv, AllCovered
  <2> QED
    BY <2>1 DEF Covered, Quiet, Reaching, On
<1> QED
  BY <1>1, Invariant, PTL
-----------------------------------------------------------------------------
(***************************************************************************)
(* What is sent while no two requests count up from the same version.  A   *)
(* version is then written by one request, so the tasks of a version are   *)
(* those of one request and no version comes back: a worker that finds its *)
(* version has the score of the database, and the next version's task was  *)
(* delayed until that worker is done.                                      *)
(***************************************************************************)

\* Task t was queued by its request, a composite one with the version saved.
Told(t) == /\ t.of \in request[t.req].told
           /\ t.of \notin Leaf => t.version = request[t.req].read[t.of] + 1

TasksTold ==
  /\ \A t \in tasks : Told(t)
  /\ \A w \in Worker : worker[w] # Idle =>
       /\ Told(worker[w].task)
       /\ worker[w].task.of \notin Leaf => worker[w].task.req \notin Open
       /\ worker[w].pc # "post" => worker[w].task.of \notin Leaf

\* A task is queued once and started once.
OneOfAName ==
  /\ \A s, t \in tasks : NameOf(s) = NameOf(t) => s = t
  /\ \A w \in Worker : worker[w] # Idle =>
       /\ \A t \in tasks : NameOf(t) # NameOf(worker[w].task)
       /\ \A v \in Worker :
            worker[v] # Idle /\ NameOf(worker[v].task) = NameOf(worker[w].task) => v = w

\* No composite score has what is not committed.
OnlyCommitted(a) ==
  /\ campus[a] \subseteq Within(scored, a)
  /\ \A w \in Worker : On(w, a) => worker[w].score \subseteq Within(scored, a)

\* A task that can find its version waits for all who are at work on a.
Waits(t, a) == \A w \in Worker : On(w, a) => NameOf(worker[w].task) \in t.after

InOrder(a) ==
  /\ \A t \in tasks :
       t.of = a /\ t.version = version[a] /\ t.req \notin Open => Waits(t, a)
  /\ \A v, w \in Worker : Reaching(v, a) /\ Reaching(w, a) => v = w
  /\ \A w \in Worker : Reaching(w, a) =>
       /\ worker[w].pc # "compute" => campus[a] \subseteq worker[w].score
       /\ worker[w].pc = "recheck" => worker[w].score = Within(scored, a)

OrderInv ==
  /\ TasksTold
  /\ OneOfAName
  /\ \A a \in Assignment \ Leaf :
       OnlyCommitted(a) /\ (VersionsDiffer(a) => InOrder(a))

\* What a request has saved and told stays, with the versions it has read.
LEMMA RequestsGrow ==
  ASSUME TypeOK, RowsExist, [Next]_vars, NEW q \in Request
  PROVE  /\ request[q].saved \subseteq request'[q].saved
         /\ request[q].told \subseteq request'[q].told
         /\ request[q].saved # {} => request'[q].read = request[q].read
         /\ request[q].told # {} /\ q \in Open' => q \in Open
<1>0. /\ \A r \in Request : request[r] \in RequestState
      /\ \A r \in Request : request[r].pc \in {"new", "read"} =>
           request[r].saved = {} /\ request[r].told = {}
  BY DEF TypeOK, RowsExist
<1>1. CASE request' = request
  BY <1>1 DEF Open
<1>2. ASSUME NEW r \in Request, SetScore(r) \/ ReadVersions(r)
      PROVE  /\ request'[r].saved = request[r].saved
             /\ request'[r].told = request[r].told
             /\ request[r].pc \in {"new", "read"}
             /\ \A p \in Request \ {r} : request'[p] = request[p]
  BY <1>0, <1>2 DEF SetScore, ReadVersions, TypeOK, RequestState
<1>3. ASSUME NEW r \in Request,
             \/ \E a \in Assignment : SaveVersion(r, a) \/ Publish(r, a)
             \/ Commit(r) \/ Abort(r)
      PROVE  /\ request[r].saved \subseteq request'[r].saved
             /\ request[r].told \subseteq request'[r].told
             /\ request'[r].read = request[r].read
             /\ request'[r].pc = request[r].pc \/ request'[r].pc \in {"committed", "aborted"}
             /\ \A p \in Request \ {r} : request'[p] = request[p]
  <2>1. ASSUME NEW a \in Assignment, SaveVersion(r, a)
        PROVE  request' = [request EXCEPT ![r].saved = @ \cup {a}]
    BY <2>1 DEF SaveVersion
  <2>2. ASSUME NEW a \in Assignment, Publish(r, a)
        PROVE  request' = [request EXCEPT ![r].told = @ \cup {a}]
    BY <2>2 DEF Publish
  <2>3. ASSUME Commit(r) \/ Abort(r)
        PROVE  \E e \in {"committed", "aborted"} : request' = [request EXCEPT ![r].pc = e]
    BY <2>3 DEF Commit, Abort
  <2>4. request \in [Request -> RequestState]
    BY DEF TypeOK
  <2>5. CASE \E a \in Assignment : SaveVersion(r, a)
    BY <2>1, <2>4, <2>5 DEF RequestState
  <2>6. CASE \E a \in Assignment : Publish(r, a)
    BY <2>2, <2>4, <2>6 DEF RequestState
  <2>7. CASE Commit(r) \/ Abort(r)
    BY <2>3, <2>4, <2>7 DEF RequestState
  <2> QED
    BY <1>3, <2>5, <2>6, <2>7
<1>4. ASSUME NEW r \in Request, SetScore(r) \/ ReadVersions(r)
      PROVE  /\ request[q].saved \subseteq request'[q].saved
             /\ request[q].told \subseteq request'[q].told
             /\ request[q].saved # {} => request'[q].read = request[q].read
             /\ request[q].told # {} /\ q \in Open' => q \in Open
  BY <1>0, <1>2, <1>4 DEF Open
<1>5. ASSUME NEW r \in Request,
             \/ \E a \in Assignment : SaveVersion(r, a) \/ Publish(r, a)
             \/ Commit(r) \/ Abort(r)
      PROVE  /\ request[q].saved \subseteq request'[q].saved
             /\ request[q].told \subseteq request'[q].told
             /\ request[q].saved # {} => request'[q].read = request[q].read
             /\ request[q].told # {} /\ q \in Open' => q \in Open
  BY <1>3, <1>5 DEF Open
<1>6. ASSUME NEW a \in Assignment, store_outcome_parameters(a)
      PROVE  request' = request
  BY <1>6 DEF store_outcome_parameters
<1>7. ASSUME NEW w \in Worker, \/ StartLeaf(w) \/ StartComposite(w) \/ ComputeScore(w)
                               \/ Recheck(w) \/ ScoreArrives(w) \/ TaskFails(w)
      PROVE  request' = request
  BY <1>7 DEF StartLeaf, StartComposite, ComputeScore, Recheck, ScoreArrives, TaskFails
<1>8. CASE UNCHANGED vars
  BY <1>1, <1>8 DEF vars
<1> QED
  BY <1>1, <1>4, <1>5, <1>6, <1>7, <1>8 DEF Next

\* Versions that differ now have always differed.
LEMMA DifferedBefore ==
  ASSUME TypeOK, RowsExist, [Next]_vars, NEW a \in Assignment, VersionsDiffer(a)'
  PROVE  VersionsDiffer(a)
<1> SUFFICES ASSUME NEW q \in Request, NEW r \in Request,
                    a \in request[q].saved, a \in request[r].saved,
                    request[q].read[a] = request[r].read[a]
             PROVE  q = r
  BY DEF VersionsDiffer
<1>1. /\ a \in request'[q].saved /\ a \in request'[r].saved
      /\ request'[q].read = request[q].read /\ request'[r].read = request[r].read
  BY RequestsGrow
<1>2. request'[q].read[a] = request'[r].read[a]
  BY <1>1
<1> QED
  BY <1>1, <1>2 DEF VersionsDiffer

\* What a step leaves of the workers' tasks.
LEMMA WorkerKeepsTask ==
  ASSUME TypeOK, [Next]_vars, NEW w \in Worker, worker'[w] # Idle
  PROVE  \/ /\ worker[w] # Idle
            /\ worker'[w].task = worker[w].task
            /\ worker'[w].pc # "post" => worker[w].pc # "post"
         \/ /\ worker[w] = Idle
            /\ worker'[w].task \in tasks \ tasks'
            /\ StartLeaf(w) \/ StartComposite(w)
            /\ worker'[w].task.of \in Leaf \/ worker'[w].pc = "compute"
<1>1. CASE UNCHANGED worker
  BY <1>1
<1>2. ASSUME NEW v \in Worker, v # w,
             \/ StartLeaf(v) \/ StartComposite(v) \/ ComputeScore(v)
             \/ Recheck(v) \/ ScoreArrives(v) \/ TaskFails(v)
      PROVE  worker'[w] = worker[w]
  BY <1>2 DEF StartLeaf, StartComposite, ComputeScore, Recheck, ScoreArrives, TaskFails, TypeOK
<1>3. CASE StartLeaf(w) \/ StartComposite(w)
  <2>1. PICK t \in tasks : /\ tasks' = tasks \ {t}
                           /\ worker[w] = Idle
                           /\ worker'[w].task = t
                           /\ t.of \in Leaf \/ worker'[w].pc = "compute"
    BY <1>3 DEF StartLeaf, StartComposite, TypeOK
  <2> QED
    BY <1>3, <2>1
<1>4. CASE ComputeScore(w) \/ Recheck(w) \/ ScoreArrives(w) \/ TaskFails(w)
  <2>1. worker[w] # Idle
    BY <1>4, AtBusy DEF ComputeScore, Recheck, ScoreArrives, TaskFails
  <2>2. /\ worker'[w].task = worker[w].task
        /\ worker'[w].pc # "post" => worker[w].pc # "post"
    BY <1>4, <2>1, BusyWorker DEF ComputeScore, Recheck, ScoreArrives, TaskFails, At, TypeOK
  <2> QED
    BY <2>1, <2>2
<1>5. \/ UNCHANGED worker
      \/ \E v \in Worker : \/ StartLeaf(v) \/ StartComposite(v) \/ ComputeScore(v)
                           \/ Recheck(v) \/ ScoreArrives(v) \/ TaskFails(v)
  BY DEF Next, vars, store_outcome_parameters, SetScore, ReadVersions, SaveVersion, Publish,
         Commit, Abort
<1> QED
  BY <1>1, <1>2, <1>3, <1>4, <1>5

\* What a step leaves of the tasks in the queue.
LEMMA QueueKeepsTasks ==
  ASSUME TypeOK, [Next]_vars, NEW u \in tasks'
  PROVE  \/ \E t \in tasks : /\ u.req = t.req /\ u.of = t.of /\ u.version = t.version
                             /\ NameOf(u) = NameOf(t)
         \/ \E r \in Request, a \in Assignment : Publish(r, a) /\ u = Message(r, a)
<1>1. \/ tasks' \subseteq tasks
      \/ \E r \in Request : tasks' = Delayed(r)
      \/ \E r \in Request, a \in Assignment :
           Publish(r, a) /\ tasks' = tasks \cup {Message(r, a)}
  BY DEF Next, vars, store_outcome_parameters, SetScore, ReadVersions, SaveVersion, Publish,
         Commit, Abort, StartLeaf, StartComposite, ComputeScore, Recheck, ScoreArrives, TaskFails
<1>2. ASSUME NEW r \in Request, tasks' = Delayed(r)
      PROVE  \E t \in tasks : /\ u.req = t.req /\ u.of = t.of /\ u.version = t.version
                              /\ NameOf(u) = NameOf(t)
  BY <1>2, DelayedTasks DEF NameOf
<1> QED
  BY <1>1, <1>2

\* Requests remember what they told, and a request that has ended stays so.
LEMMA TasksToldStep ==
  ASSUME TypeOK, RowsExist, OpenKeepsTasks, TasksTold, [Next]_vars
  PROVE  TasksTold'
<1>0. /\ \A r \in Request : request[r] \in RequestState
      /\ \A r \in Request : request[r].told \subseteq request[r].saved
      /\ \A t \in tasks : t \in Task
  BY DEF TypeOK, RowsExist
<1>1. ASSUME NEW t \in Task, Told(t), NEW u, u.req = t.req, u.of = t.of, u.version = t.version
      PROVE  Told(u)' /\ (u.req \in Open' => t.req \in Open)
  <2>1. t.req \in Request
    BY DEF Task
  <2>2. PICK q \in Request : q = t.req
    BY <2>1
  <2>3. t.of \in request[q].told /\ request[q].told # {} /\ request[q].saved # {}
    BY <1>0, <1>1, <2>2 DEF Told
  <2>4. /\ t.of \in request'[q].told /\ request'[q].read = request[q].read
        /\ q \in Open' => q \in Open
    BY <2>3, RequestsGrow
  <2> QED
    BY <1>1, <2>2, <2>4 DEF Told
<1>2. ASSUME NEW r \in Request, NEW a \in Assignment, Publish(r, a), NEW u, u = Message(r, a)
      PROVE  Told(u)'
  <2>1. /\ u.req = r /\ u.of = a
        /\ a \notin Leaf => u.version = request[r].read[a] + 1
    BY <1>2 DEF Message
  <2>2. request'[r].told = request[r].told \cup {a} /\ request'[r].read = request[r].read
    BY <1>0, <1>2 DEF Publish, TypeOK, RequestState
  <2> QED
    BY <2>1, <2>2 DEF Told
<1>3. ASSUME NEW u \in tasks'
      PROVE  Told(u)'
  BY <1>0, <1>1, <1>2, QueueKeepsTasks DEF TasksTold
<1>4. ASSUME NEW w \in Worker, worker'[w] # Idle
      PROVE  /\ Told(worker[w].task)'
             /\ worker'[w].task.of \notin Leaf => worker'[w].task.req \notin Open'
             /\ worker'[w].pc # "post" => worker'[w].task.of \notin Leaf
  <2> PICK u : u = worker'[w].task
    OBVIOUS
  <2>1. CASE /\ worker[w] # Idle
             /\ u = worker[w].task
             /\ worker'[w].pc # "post" => worker[w].pc # "post"
    <3>1. u \in Task /\ Told(u) /\ u.of \notin Leaf => u.req \notin Open
      BY <2>1, BusyWorker DEF TasksTold
    <3>2. Told(u)' /\ (u.req \in Open' => u.req \in Open)
      BY <1>1, <2>1, BusyWorker DEF TasksTold
    <3> QED
      BY <2>1, <3>1, <3>2 DEF TasksTold, Told
  <2>2. CASE u \in tasks /\ (StartLeaf(w) \/ StartComposite(w))
             /\ (u.of \in Leaf \/ worker'[w].pc = "compute")
    <3>1. PICK t \in tasks : /\ worker'[w].task = t
                             /\ Open' = Open
                             /\ \/ t.of \in Leaf /\ worker'[w].pc = "post"
                                \/ t.of \notin Leaf /\ t.after \cap Open = {}
      BY <1>4, <2>2 DEF StartLeaf, StartComposite, TypeOK, Open
    <3>2. t.of \notin Leaf => t.req \notin Open
      BY <3>1 DEF OpenKeepsTasks
    <3>3. Told(u)'
      BY <1>0, <1>1, <2>2 DEF TasksTold
    <3> QED
      BY <3>1, <3>2, <3>3 DEF Told
  <2> QED
    BY <1>4, <2>1, <2>2, WorkerKeepsTask
<1> QED
  BY <1>3, <1>4 DEF TasksTold, Idle

\* A request tells each of its assignments once, and who starts a task takes it
\* out of the queue.
LEMMA OneOfANameStep ==
  ASSUME TypeOK, TasksTold, OneOfAName, [Next]_vars
  PROVE  OneOfAName'
<1> DEFINE Busy(w) == worker[w] # Idle
<1>1. ASSUME NEW r \in Request, NEW a \in Assignment, Publish(r, a), NEW u, u = Message(r, a)
      PROVE  /\ UNCHANGED worker
             /\ tasks' = tasks \cup {u}
             /\ \A t \in tasks : NameOf(t) # NameOf(u)
             /\ \A w \in Worker : Busy(w) => NameOf(worker[w].task) # NameOf(u)
  <2>1. a \notin request[r].told /\ UNCHANGED worker /\ tasks' = tasks \cup {u}
    BY <1>1 DEF Publish
  <2>2. u.req = r /\ u.of = a
    BY <1>1 DEF Message
  <2> QED
    BY <2>1, <2>2 DEF TasksTold, Told, NameOf
<1>2. ASSUME NEW s \in tasks', NEW t \in tasks', NameOf(s) = NameOf(t)
      PROVE  s = t
  <2>1. CASE tasks' \subseteq tasks
    BY <1>2, <2>1 DEF OneOfAName
  <2>2. ASSUME NEW r \in Request, tasks' = Delayed(r)
        PROVE  s = t
    <3> DEFINE New(x) == IF x.req = r /\ x.of \notin Leaf
                         THEN [x EXCEPT !.after = (Open \ {r}) \cup Running] ELSE x
    <3>1. \A x \in tasks : New(x).req = x.req /\ New(x).of = x.of
      BY DEF TypeOK, Task
    <3>2. PICK x \in tasks, y \in tasks : s = New(x) /\ t = New(y)
      BY <2>2 DEF Delayed
    <3>3. NameOf(x) = NameOf(s) /\ NameOf(y) = NameOf(t)
      BY <3>1, <3>2 DEF NameOf
    <3> HIDE DEF New
    <3> QED
      BY <1>2, <3>2, <3>3 DEF OneOfAName
  <2>3. ASSUME NEW r \in Request, NEW a \in Assignment, Publish(r, a)
        PROVE  s = t
    BY <1>1, <1>2, <2>3 DEF OneOfAName
  <2>4. \/ tasks' \subseteq tasks
        \/ \E r \in Request : tasks' = Delayed(r)
        \/ \E r \in Request, a \in Assignment : Publish(r, a)
    BY DEF Next, vars, store_outcome_parameters, SetScore, ReadVersions, SaveVersion, Commit,
           Abort, StartLeaf, StartComposite, ComputeScore, Recheck, ScoreArrives, TaskFails
  <2> QED
    BY <2>1, <2>2, <2>3, <2>4
<1>3. ASSUME NEW w \in Worker, worker'[w] # Idle
      PROVE  \/ Busy(w) /\ worker'[w].task = worker[w].task
             \/ /\ StartLeaf(w) \/ StartComposite(w)
                /\ worker'[w].task \in tasks \ tasks'
                /\ \A v \in Worker \ {w} : worker'[v] = worker[v]
                /\ tasks' \subseteq tasks
  BY <1>3, WorkerKeepsTask DEF StartLeaf, StartComposite, TypeOK
<1>4. ASSUME NEW w \in Worker, worker'[w] # Idle, NEW u \in tasks'
      PROVE  NameOf(u) # NameOf(worker'[w].task)
  <2>1. CASE Busy(w) /\ worker'[w].task = worker[w].task
    BY <1>1, <2>1, QueueKeepsTasks DEF OneOfAName
  <2>2. CASE worker'[w].task \in tasks \ tasks' /\ tasks' \subseteq tasks
    BY <2>2 DEF OneOfAName
  <2> QED
    BY <1>3, <1>4, <2>1, <2>2
<1>5. ASSUME NEW v \in Worker, NEW w \in Worker, worker'[v] # Idle, worker'[w] # Idle,
             NameOf(worker'[v].task) = NameOf(worker'[w].task)
      PROVE  v = w
  <2> SUFFICES ASSUME v # w PROVE FALSE
    OBVIOUS
  <2>1. CASE /\ Busy(v) /\ worker'[v].task = worker[v].task
             /\ Busy(w) /\ worker'[w].task = worker[w].task
    BY <1>5, <2>1 DEF OneOfAName
  <2>2. ASSUME NEW x \in {v, w}, NEW y \in {v, w}, x # y,
               worker'[x].task \in tasks, worker'[y] = worker[y]
        PROVE  FALSE
    BY <1>5, <2>2 DEF OneOfAName
  <2> QED
    BY <1>3, <1>5, <2>1, <2>2
<1>6. \A w \in Worker : worker'[w] # Idle => 
        /\ \A t \in tasks' : NameOf(t) # NameOf(worker'[w].task)
        /\ \A v \in Worker :
             worker'[v] # Idle /\ NameOf(worker'[v].task) = NameOf(worker'[w].task) => v = w
  BY <1>4, <1>5
<1> QED
  BY <1>2, <1>6 DEF OneOfAName, NameOf, Idle

\* A score is computed from what is committed, and nothing is taken back.
LEMMA OnlyCommittedStep ==
  ASSUME TypeOK, [Next]_vars, NEW a \in Assignment \ Leaf, OnlyCommitted(a)
  PROVE  OnlyCommitted(a)'
<1>1. Within(scored, a) \subseteq Within(scored, a)'
  <2>1. scored \subseteq scored'
    BY DEF Next, vars, store_outcome_parameters, SetScore, ReadVersions, SaveVersion, Publish,
           Commit, Abort, StartLeaf, StartComposite, ComputeScore, Recheck, ScoreArrives,
           TaskFails
  <2> QED
    BY <2>1 DEF Within
<1>2. ASSUME UNCHANGED <<worker, campus>>
      PROVE  OnlyCommitted(a)'
  BY <1>1, <1>2 DEF OnlyCommitted, On
<1>3. ASSUME NEW w \in Worker, UNCHANGED campus,
             \A v \in Worker \ {w} : worker'[v] = worker[v],
             On(w, a)' => worker'[w].score \subseteq Within(scored, a)'
      PROVE  OnlyCommitted(a)'
  <2>1. \A v \in Worker \ {w} : On(v, a)' => On(v, a) /\ worker'[v].score = worker[v].score
    BY <1>3 DEF On
  <2> QED
    BY <1>1, <1>3, <2>1 DEF OnlyCommitted
<1>4. ASSUME NEW w \in Worker, StartLeaf(w) \/ StartComposite(w)
      PROVE  OnlyCommitted(a)'
  <2>1. /\ UNCHANGED campus
        /\ \A v \in Worker \ {w} : worker'[v] = worker[v]
        /\ \/ worker'[w] = Idle
           \/ worker'[w].task.of \in Leaf
           \/ worker'[w].score = {}
    BY <1>4 DEF StartLeaf, StartComposite, TypeOK
  <2> QED
    BY <1>3, <2>1 DEF On, Idle
<1>5. ASSUME NEW w \in Worker, ComputeScore(w)
      PROVE  OnlyCommitted(a)'
  <2>1. /\ UNCHANGED <<scored, campus>>
        /\ \A v \in Worker \ {w} : worker'[v] = worker[v]
        /\ worker'[w].task = worker[w].task
        /\ worker'[w].score = Within(scored, worker[w].task.of)
    BY <1>5 DEF ComputeScore, TypeOK
  <2>2. On(w, a)' => worker'[w].score \subseteq Within(scored, a)'
    BY <2>1 DEF On, Within
  <2> QED
    BY <1>3, <2>1, <2>2
<1>6. ASSUME NEW w \in Worker, Recheck(w) \/ TaskFails(w)
      PROVE  OnlyCommitted(a)'
  <2>1. worker[w] # Idle
    BY <1>6, AtBusy DEF Recheck, TaskFails
  <2>2. /\ UNCHANGED campus
        /\ \A v \in Worker \ {w} : worker'[v] = worker[v]
        /\ \/ worker'[w] = Idle
           \/ worker'[w].task = worker[w].task /\ worker'[w].score = worker[w].score
    BY <1>6, <2>1, BusyWorker DEF Recheck, TaskFails, TypeOK
  <2>3. On(w, a)' => worker'[w].score \subseteq Within(scored, a)'
    BY <1>1, <2>1, <2>2 DEF On, OnlyCommitted
  <2> QED
    BY <1>3, <2>2, <2>3
<1>7. ASSUME NEW w \in Worker, ScoreArrives(w)
      PROVE  OnlyCommitted(a)'
  <2>1. /\ worker[w] # Idle
        /\ \A v \in Worker \ {w} : worker'[v] = worker[v]
        /\ worker'[w] = Idle
        /\ campus'[a] = IF worker[w].task.of = a THEN worker[w].score ELSE campus[a]
    BY <1>7, AtBusy DEF ScoreArrives, TypeOK
  <2>2. campus'[a] \subseteq Within(scored, a)'
    BY <1>1, <2>1 DEF OnlyCommitted, On
  <2>3. \A v \in Worker : On(v, a)' => On(v, a) /\ worker'[v].score = worker[v].score
    BY <2>1 DEF On
  <2> QED
    BY <1>1, <2>2, <2>3 DEF OnlyCommitted
<1>8. \/ UNCHANGED <<worker, campus>>
      \/ \E w \in Worker : \/ StartLeaf(w) \/ StartComposite(w) \/ ComputeScore(w)
                           \/ Recheck(w) \/ ScoreArrives(w) \/ TaskFails(w)
  BY DEF Next, vars, store_outcome_parameters, SetScore, ReadVersions, SaveVersion, Publish,
         Commit, Abort
<1> QED
  BY <1>2, <1>4, <1>5, <1>6, <1>7, <1>8

\* Tasks of the same version are of the same request.
LEMMA SameVersion ==
  ASSUME TypeOK, RowsExist, NEW a \in Assignment \ Leaf, VersionsDiffer(a),
         NEW s \in Task, Told(s), s.of = a,
         NEW r \in Request, a \in request[r].saved, s.version = request[r].read[a] + 1
  PROVE  s.req = r
<1> PICK q \in Request : q = s.req
  BY DEF Task
<1>1. a \in request[q].saved
  BY DEF Told, RowsExist
<1>2. s.version = request[q].read[a] + 1
  BY DEF Told
<1>3. request[q].read[a] \in Nat /\ request[r].read[a] \in Nat
  BY DEF TypeOK, RequestState
<1>4. request[q].read[a] = request[r].read[a]
  BY <1>2, <1>3
<1> QED
  BY <1>1, <1>4 DEF VersionsDiffer

\* So two such tasks are the same.
LEMMA SameTask ==
  ASSUME TypeOK, RowsExist, NEW a \in Assignment \ Leaf, VersionsDiffer(a),
         NEW s \in Task, Told(s), s.of = a, NEW t \in Task, Told(t), t.of = a,
         s.version = t.version
  PROVE  NameOf(s) = NameOf(t)
<1> PICK r \in Request : r = t.req
  BY DEF Task
<1>1. a \in request[r].saved /\ t.version = request[r].read[a] + 1
  BY DEF Told, RowsExist
<1>2. s.req = r
  BY <1>1, SameVersion
<1> QED
  BY <1>2 DEF NameOf

\* A step of a request before its end.
LEMMA RequestInOrder ==
  ASSUME TypeOK, RowsExist, TasksTold, NEW a \in Assignment \ Leaf, InOrder(a), [Next]_vars,
         UNCHANGED <<scored, version, worker, campus>>,
         \/ UNCHANGED tasks
         \/ \E r \in Request, b \in Assignment : Publish(r, b),
         \A r \in Open : r \in Open'
  PROVE  InOrder(a)'
<1>1. /\ \A w \in Worker : On(w, a)' <=> On(w, a)
      /\ \A w \in Worker : Reaching(w, a)' <=> Reaching(w, a)
      /\ Within(scored, a)' = Within(scored, a)
  BY DEF On, Reaching, Within
<1>2. ASSUME NEW t \in tasks', t.of = a, t.version = version[a], t.req \notin Open'
      PROVE  Waits(t, a)'
  <2>1. t \in tasks
    <3>1. ASSUME NEW r \in Request, NEW b \in Assignment, Publish(r, b)
          PROVE  tasks' = tasks \cup {Message(r, b)} /\ Message(r, b).req \in Open
      BY <3>1 DEF Publish, Message, Open
    <3> QED
      BY <1>2, <3>1
  <2>2. Waits(t, a)
    BY <1>2, <2>1 DEF InOrder
  <2> QED
    BY <2>2 DEF Waits, On, NameOf
<1> QED
  BY <1>1, <1>2 DEF InOrder

\* The end of a request: its task is delayed until the running ones are done,
\* and no version comes back.
LEMMA EndInOrder ==
  ASSUME TypeOK, RowsExist, OpenKeepsTasks, MissedWaits, TasksTold,
         NEW a \in Assignment \ Leaf, VersionsDiffer(a), InOrder(a),
         NEW r \in Request, Commit(r) \/ Abort(r)
  PROVE  InOrder(a)'
<1>0. /\ r \in Open
      /\ \A q \in Request : request[q] \in RequestState
      /\ UNCHANGED <<launched, worker, campus>>
      /\ tasks' = Delayed(r)
  BY DEF Commit, Abort, Open, TypeOK
<1>1. Open' = Open \ {r}
  BY <1>0 DEF Commit, Abort, Open, TypeOK, RequestState
\* The version of a changes only to that of r.
<1>2. \/ version'[a] = version[a] /\ (a \notin request[r].saved \/ Abort(r))
      \/ version'[a] = request[r].read[a] + 1 /\ a \in request[r].saved
  BY DEF Commit, Abort, TypeOK
<1>3. \A w \in Worker : On(w, a)' <=> On(w, a)
  BY <1>0 DEF On
<1>4. ASSUME NEW w \in Worker, On(w, a)
      PROVE  /\ worker[w].task \in Task /\ Told(worker[w].task)
             /\ worker[w].task.of = a /\ worker[w].task.req # r
  BY <1>0, <1>4, BusyWorker DEF On, TasksTold
<1>5. ASSUME NEW w \in Worker, Reaching(w, a)'
      PROVE  /\ Reaching(w, a)
             /\ worker[w].pc # "post" => version'[a] = version[a]
                                         /\ (a \notin request[r].saved \/ Abort(r))
  <2>1. On(w, a) /\ (worker[w].pc # "post" => worker[w].task.version = version'[a])
    BY <1>0, <1>3, <1>5 DEF Reaching
  <2>2. ASSUME worker[w].pc # "post"
        PROVE  version'[a] = version[a] /\ (a \notin request[r].saved \/ Abort(r))
    BY <1>2, <1>4, <2>1, <2>2, SameVersion
  <2> QED
    BY <2>1, <2>2 DEF Reaching
<1>6. ASSUME NEW u \in tasks', u.of = a, u.version = version'[a], u.req \notin Open'
      PROVE  Waits(u, a)'
  <2>1. PICK t \in tasks : /\ u.req = t.req /\ u.of = t.of /\ u.version = t.version
                           /\ \/ u = t /\ (t.req # r \/ t.of \in Leaf)
                              \/ t.req = r /\ u.after = (Open \ {r}) \cup Running
    BY <1>0, DelayedTasks
  <2>2. CASE t.req = r
    <3>1. u.after = (Open \ {r}) \cup Running
      BY <1>6, <2>1, <2>2
    <3>2. \A w \in Worker : On(w, a) => NameOf(worker[w].task) \in u.after
      BY <3>1 DEF Running, On
    <3> QED
      BY <1>0, <3>2 DEF Waits, On, NameOf
  <2>3. CASE t.req # r
    <3>1. u = t /\ t.req \notin Open /\ t \in Task /\ Told(t)
      BY <1>1, <1>6, <2>1, <2>3 DEF TypeOK, TasksTold
    <3>2. t.version = version[a]
      BY <1>2, <1>6, <2>1, <2>3, <3>1, SameVersion
    <3>3. Waits(t, a)
      BY <1>6, <2>1, <3>1, <3>2 DEF InOrder
    <3> QED
      BY <1>0, <3>1, <3>3 DEF Waits, On, NameOf
  <2> QED
    BY <2>2, <2>3
\* What a worker has computed is still the score of the database.
<1>7. ASSUME NEW w \in Worker, Reaching(w, a)', worker[w].pc = "recheck"
      PROVE  Within(scored, a)' = Within(scored, a)
  <2>1. On(w, a) /\ (a \notin request[r].saved \/ Abort(r))
    BY <1>5, <1>7 DEF Reaching
  <2>2. CASE Abort(r)
    BY <2>2 DEF Abort, Within
  <2>3. CASE Commit(r) /\ a \notin request[r].saved
    <3>1. /\ scored' = scored \cup {r} /\ request[r].pc = "open"
          /\ a \notin request[r].found
      BY <2>3 DEF Commit, RowsExist
    <3>2. a \in launched
      BY <2>1 DEF On, RowsExist
    <3>3. ProblemOf[r] \notin Contains[a]
      BY <2>1, <3>1, <3>2 DEF MissedWaits, Missed
    <3> QED
      BY <3>1, <3>3 DEF Within
  <2> QED
    BY <2>1, <2>2, <2>3
<1>8. \A v, w \in Worker : Reaching(v, a)' /\ Reaching(w, a)' => v = w
  BY <1>5 DEF InOrder
<1>9. ASSUME NEW w \in Worker, Reaching(w, a)'
      PROVE  /\ worker'[w].pc # "compute" => campus'[a] \subseteq worker'[w].score
             /\ worker'[w].pc = "recheck" => worker'[w].score = Within(scored, a)'
  BY <1>0, <1>5, <1>7, <1>9 DEF InOrder
<1> QED
  BY <1>6, <1>8, <1>9 DEF InOrder

\* A worker starts on a task that waited for all others: it is alone.
LEMMA StartInOrder ==
  ASSUME TypeOK, RowsExist, OpenKeepsTasks, TasksTold, OneOfAName,
         NEW a \in Assignment \ Leaf, VersionsDiffer(a), InOrder(a),
         NEW w \in Worker, StartLeaf(w) \/ StartComposite(w)
  PROVE  InOrder(a)'
<1>1. PICK t \in tasks :
        /\ tasks' = tasks \ {t}
        /\ worker[w] = Idle
        /\ \A v \in Worker \ {w} : worker'[v] = worker[v]
        /\ \/ worker'[w] = Idle
           \/ t.of \in Leaf /\ worker'[w].task = t
           \/ /\ t.after \cap (Open \cup Running) = {} /\ t.version = version[t.of]
              /\ t.of \notin Leaf /\ worker'[w].task = t /\ worker'[w].pc = "compute"
  BY DEF StartLeaf, StartComposite, TypeOK
<1>2. /\ UNCHANGED <<scored, version, request, campus>>
      /\ Open' = Open /\ Within(scored, a)' = Within(scored, a)
  BY DEF StartLeaf, StartComposite, Open, Within
<1>3. \A v \in Worker \ {w} : /\ On(v, a)' <=> On(v, a)
                              /\ Reaching(v, a)' <=> Reaching(v, a)
  BY <1>1, <1>2 DEF On, Reaching
<1>4. ~On(w, a)
  BY <1>1 DEF On
<1>5. CASE ~On(w, a)'
  <2>1. ~Reaching(w, a)'
    BY <1>5 DEF Reaching, On
  <2>2. \A v \in Worker : Reaching(v, a)' => Reaching(v, a) /\ worker'[v] = worker[v]
    BY <1>1, <1>3, <2>1
  <2>3. ASSUME NEW u \in tasks', u.of = a, u.version = version'[a], u.req \notin Open'
        PROVE  Waits(u, a)'
    <3>1. Waits(u, a)
      BY <1>1, <1>2, <2>3 DEF InOrder
    <3> QED
      BY <1>1, <1>3, <1>5, <3>1 DEF Waits, On, NameOf
  <2> QED
    BY <1>2, <2>2, <2>3 DEF InOrder
<1>6. CASE On(w, a)'
  <2>1. /\ t.of = a /\ t.version = version[a]
        /\ t.after \cap (Open \cup Running) = {}
        /\ worker'[w].pc = "compute" /\ worker'[w].task = t
    BY <1>1, <1>6 DEF On
  <2>2. t.req \notin Open
    BY <2>1 DEF OpenKeepsTasks
  <2>3. Waits(t, a)
    BY <2>1, <2>2 DEF InOrder
  <2>4. \A v \in Worker : ~On(v, a)
    BY <2>1, <2>3 DEF Waits, Running, On
  <2>5. \A v \in Worker : Reaching(v, a)' => v = w
    BY <1>3, <2>4 DEF Reaching
  <2>6. ASSUME NEW u \in tasks', u.of = a, u.version = version'[a]
        PROVE  FALSE
    <3>1. u \in tasks /\ u # t /\ u.version = t.version
      BY <1>1, <1>2, <2>1, <2>6
    <3>2. u \in Task /\ t \in Task /\ Told(u) /\ Told(t)
      BY <3>1 DEF TypeOK, TasksTold
    <3>3. NameOf(u) = NameOf(t)
      BY <2>1, <2>6, <3>1, <3>2, SameTask
    <3> QED
      BY <3>1, <3>3 DEF OneOfAName
  <2>7. \A v \in Worker : Reaching(v, a)' => worker'[v].pc = "compute"
    BY <2>1, <2>5
  <2> QED
    BY <2>5, <2>6, <2>7 DEF InOrder
<1> QED
  BY <1>5, <1>6

\* A worker computes, looks again, sends or fails.
LEMMA WorkInOrder ==
  ASSUME TypeOK, TasksTold, NEW a \in Assignment \ Leaf, OnlyCommitted(a), InOrder(a),
         NEW w \in Worker, ComputeScore(w) \/ Recheck(w) \/ ScoreArrives(w) \/ TaskFails(w)
  PROVE  InOrder(a)'
<1>0. worker[w] # Idle
  BY AtBusy DEF ComputeScore, Recheck, ScoreArrives, TaskFails
<1>1. /\ UNCHANGED <<scored, version, request, tasks>>
      /\ Open' = Open /\ Within(scored, a)' = Within(scored, a)
      /\ \A v \in Worker \ {w} : worker'[v] = worker[v]
  BY DEF ComputeScore, Recheck, ScoreArrives, TaskFails, TypeOK, Open, Within
<1>2. \A v \in Worker \ {w} : /\ On(v, a)' <=> On(v, a)
                              /\ Reaching(v, a)' <=> Reaching(v, a)
  BY <1>1 DEF On, Reaching
<1>3. worker'[w] # Idle => worker'[w].task = worker[w].task
  BY <1>0, BusyWorker DEF ComputeScore, Recheck, ScoreArrives, TaskFails, TypeOK
<1>4. On(w, a)' => On(w, a)
  BY <1>0, <1>3 DEF On, Idle
<1>5. \A u \in tasks : Waits(u, a) => Waits(u, a)'
  BY <1>1, <1>2, <1>3, <1>4 DEF Waits, On, NameOf, Idle
\* What w sends is as new as any other that may come.
<1>6. Reaching(w, a)' =>
        /\ Reaching(w, a)
        /\ worker'[w].pc # "compute" => campus'[a] \subseteq worker'[w].score
        /\ worker'[w].pc = "recheck" => worker'[w].score = Within(scored, a)
  <2>1. CASE ComputeScore(w)
    <3>1. /\ worker'[w].pc = "recheck" /\ worker[w].pc = "compute" /\ UNCHANGED campus
          /\ worker'[w].score = Within(scored, worker[w].task.of)
      BY <2>1 DEF ComputeScore, At, TypeOK
    <3> QED
      BY <1>1, <1>3, <1>4, <3>1 DEF Reaching, On, OnlyCommitted
  <2>2. CASE Recheck(w)
    <3>1. /\ worker[w].pc = "recheck" /\ UNCHANGED campus
          /\ worker'[w] = IF version[worker[w].task.of] = worker[w].task.version
                          THEN [worker[w] EXCEPT !.pc = "post"] ELSE Idle
      BY <2>2 DEF Recheck, At, TypeOK
    <3>2. ASSUME Reaching(w, a)'
          PROVE  /\ Reaching(w, a) /\ worker'[w].pc = "post"
                 /\ worker'[w].score = worker[w].score
      <4>1. worker'[w] # Idle /\ On(w, a)
        BY <1>4, <3>2 DEF Reaching, On
      <4>2. /\ version[worker[w].task.of] = worker[w].task.version
            /\ worker'[w] = [worker[w] EXCEPT !.pc = "post"]
        BY <3>1, <4>1
      <4> QED
        BY <1>0, <4>1, <4>2, BusyWorker DEF Reaching, On
    <3> QED
      BY <3>1, <3>2 DEF InOrder
  <2>3. CASE ScoreArrives(w) \/ TaskFails(w)
    <3>1. worker'[w] = Idle
      BY <2>3 DEF ScoreArrives, TaskFails, TypeOK
    <3> QED
      BY <3>1 DEF Reaching, On, Idle
  <2> QED
    BY <2>1, <2>2, <2>3
<1>7. ASSUME NEW v \in Worker \ {w}, Reaching(v, a)
      PROVE  campus'[a] = campus[a]
  <2>1. CASE ScoreArrives(w) /\ worker[w].task.of = a
    <3>1. Reaching(w, a)
      BY <1>0, <2>1 DEF ScoreArrives, At, Reaching, On
    <3> QED
      BY <1>7, <3>1 DEF InOrder
  <2>2. CASE ~(ScoreArrives(w) /\ worker[w].task.of = a)
    BY <2>2 DEF ComputeScore, Recheck, ScoreArrives, TaskFails, TypeOK
  <2> QED
    BY <2>1, <2>2
<1>8. \A u, v \in Worker : Reaching(u, a)' /\ Reaching(v, a)' => u = v
  BY <1>2, <1>6 DEF InOrder
<1>9. ASSUME NEW v \in Worker, Reaching(v, a)'
      PROVE  /\ worker'[v].pc # "compute" => campus'[a] \subseteq worker'[v].score
             /\ worker'[v].pc = "recheck" => worker'[v].score = Within(scored, a)'
  <2>1. CASE v = w
    BY <1>1, <1>6, <1>9, <2>1
  <2>2. CASE v # w
    BY <1>1, <1>2, <1>7, <1>9, <2>2 DEF InOrder
  <2> QED
    BY <2>1, <2>2
<1>10. \A u \in tasks' :
         u.of = a /\ u.version = version'[a] /\ u.req \notin Open' => Waits(u, a)'
  BY <1>1, <1>5 DEF InOrder
<1> QED
  BY <1>8, <1>9, <1>10 DEF InOrder

\* Every step, as long as versions differ.
LEMMA InOrderStep ==
  ASSUME IInv, OrderInv, [Next]_vars, NEW a \in Assignment \ Leaf, VersionsDiffer(a)'
  PROVE  InOrder(a)'
<1> USE DEF IInv
<1>1. VersionsDiffer(a)
  BY DifferedBefore
<1>2. InOrder(a) /\ TasksTold /\ OneOfAName /\ OnlyCommitted(a)
  BY <1>1 DEF OrderInv
<1>3. CASE UNCHANGED vars \/ \E b \in Assignment : store_outcome_parameters(b)
  <2>1. /\ UNCHANGED <<scored, version, worker, campus, tasks>>
        /\ \A r \in Open : r \in Open'
    BY <1>3 DEF vars, store_outcome_parameters, Open
  <2> QED
    BY <1>2, <2>1, RequestInOrder
<1>4. ASSUME NEW r \in Request, \/ SetScore(r) \/ ReadVersions(r)
                               \/ \E b \in Assignment : SaveVersion(r, b) \/ Publish(r, b)
      PROVE  InOrder(a)'
  <2>1. /\ UNCHANGED <<scored, version, worker, campus>>
        /\ UNCHANGED tasks \/ \E b \in Assignment : Publish(r, b)
    BY <1>4 DEF SetScore, ReadVersions, SaveVersion, Publish
  <2>2. \A q \in Open : q \in Open'
    <3>1. request \in [Request -> RequestState]
      BY DEF TypeOK
    <3>2. \A q \in Request \ {r} : request'[q] = request[q]
      BY <1>4, <3>1 DEF SetScore, ReadVersions, SaveVersion, Publish
    <3>3. CASE SetScore(r) \/ ReadVersions(r)
      <4>1. request'[r].pc \in {"read", "open"}
        BY <3>1, <3>3 DEF SetScore, ReadVersions, RequestState
      <4> QED
        BY <3>2, <4>1 DEF Open
    <3>4. CASE \E b \in Assignment : SaveVersion(r, b) \/ Publish(r, b)
      <4>1. request'[r].pc = request[r].pc
        BY <3>1, <3>4 DEF SaveVersion, Publish, RequestState
      <4> QED
        BY <3>2, <4>1 DEF Open
    <3> QED
      BY <1>4, <3>3, <3>4
  <2> QED
    BY <1>2, <2>1, <2>2, RequestInOrder
<1>5. ASSUME NEW r \in Request, Commit(r) \/ Abort(r)
      PROVE  InOrder(a)'
  BY <1>1, <1>2, <1>5, EndInOrder
<1>6. ASSUME NEW w \in Worker, StartLeaf(w) \/ StartComposite(w)
      PROVE  InOrder(a)'
  BY <1>1, <1>2, <1>6, StartInOrder
<1>7. ASSUME NEW w \in Worker,
             ComputeScore(w) \/ Recheck(w) \/ ScoreArrives(w) \/ TaskFails(w)
      PROVE  InOrder(a)'
  BY <1>2, <1>7, WorkInOrder
<1> QED
  BY <1>3, <1>4, <1>5, <1>6, <1>7 DEF Next

\* While no two requests counted up from the same version of an assignment, one
\* worker at most will get as far as sending its score.
THEOREM WorkersTakeTurns == Spec => []OrderInv
<1>1. Init => OrderInv
  BY DEF Init, OrderInv, TasksTold, OneOfAName, OnlyCommitted, InOrder, On, Reaching
<1>2. ASSUME IInv, OrderInv, [Next]_vars
      PROVE  OrderInv'
  <2>1. TasksTold' /\ OneOfAName'
    BY <1>2, TasksToldStep, OneOfANameStep DEF IInv, OrderInv
  <2>2. \A a \in Assignment \ Leaf : OnlyCommitted(a)'
    BY <1>2, OnlyCommittedStep DEF IInv, OrderInv
  <2>3. \A a \in Assignment \ Leaf : VersionsDiffer(a)' => InOrder(a)'
    BY <1>2, InOrderStep
  <2> QED
    BY <2>1, <2>2, <2>3 DEF OrderInv
<1> QED
  BY <1>1, <1>2, Invariant, PTL DEF Spec

\* The second look at the version (send_composite_outcome) lets a worker send
\* only what is the score of the database at that moment.
THEOREM CurrentScoreIsSent == Spec => SendsCurrentScore
<1>1. ASSUME IInv, OrderInv, [Next]_vars
      PROVE  [\A w \in Worker :
                (/\ At(w, "recheck")
                 /\ worker'[w].pc = "post"
                 /\ VersionsDiffer(worker[w].task.of))
                => worker[w].score = Within(scored, worker[w].task.of)]_vars
  <2> SUFFICES ASSUME NEW w \in Worker, At(w, "recheck"), worker'[w].pc = "post",
                      VersionsDiffer(worker[w].task.of)
               PROVE  worker[w].score = Within(scored, worker[w].task.of)
    OBVIOUS
  <2> PICK a : a = worker[w].task.of
    OBVIOUS
  <2>1. worker[w] # Idle /\ a \in Assignment \ Leaf
    BY <1>1, AtBusy, BusyWorker DEF IInv, OrderInv, TasksTold, At, Task
  <2>2. worker'[w] # worker[w]
    BY DEF At
  <2>3. Recheck(w)
    <3>1. ASSUME NEW v \in Worker,
                 \/ StartLeaf(v) \/ StartComposite(v) \/ ComputeScore(v)
                 \/ ScoreArrives(v) \/ TaskFails(v) \/ (Recheck(v) /\ v # w)
          PROVE  worker'[w] = worker[w] \/ worker'[w] = Idle
      BY <1>1, <2>1, <3>1 DEF StartLeaf, StartComposite, ComputeScore, ScoreArrives, TaskFails,
           Recheck, At, IInv, TypeOK
    <3>2. \/ UNCHANGED worker
          \/ \E v \in Worker : \/ StartLeaf(v) \/ StartComposite(v) \/ ComputeScore(v)
                               \/ Recheck(v) \/ ScoreArrives(v) \/ TaskFails(v)
      BY <1>1 DEF Next, vars, store_outcome_parameters, SetScore, ReadVersions, SaveVersion,
           Publish, Commit, Abort
    <3> QED
      BY <2>2, <3>1, <3>2 DEF Idle
  <2>4. version[a] = worker[w].task.version
    BY <1>1, <2>3 DEF Recheck, Idle, IInv, TypeOK
  <2>5. Reaching(w, a)
    BY <2>1, <2>4 DEF Reaching, On
  <2> QED
    BY <1>1, <2>1, <2>5 DEF OrderInv, InOrder, At
<1> QED
  BY <1>1, Invariant, WorkersTakeTurns, PTL DEF Spec, SendsCurrentScore

\* The campus LMS never has the score of an assignment replaced by an older one:
\* the countdown keeps a later task from running beside an earlier one.
THEOREM ScoresOnlyGrow == Spec => NoOlderScore
<1>1. ASSUME IInv, OrderInv, [Next]_vars
      PROVE  [\A a \in Assignment \ Leaf :
                VersionsDiffer(a) => campus[a] \subseteq campus'[a]]_vars
  <2> SUFFICES ASSUME NEW a \in Assignment \ Leaf, VersionsDiffer(a)
               PROVE  campus[a] \subseteq campus'[a]
    OBVIOUS
  <2>1. ASSUME NEW w \in Worker, ScoreArrives(w), worker[w].task.of = a
        PROVE  campus[a] \subseteq campus'[a]
    <3>1. Reaching(w, a) /\ worker[w].pc # "compute"
      BY <2>1, AtBusy DEF ScoreArrives, At, Reaching, On
    <3>2. campus'[a] = worker[w].score
      BY <1>1, <2>1 DEF ScoreArrives, IInv, TypeOK
    <3> QED
      BY <1>1, <3>1, <3>2 DEF OrderInv, InOrder
  <2>2. ASSUME NEW w \in Worker, ScoreArrives(w), worker[w].task.of # a
        PROVE  campus'[a] = campus[a]
    BY <1>1, <2>2 DEF ScoreArrives, IInv, TypeOK
  <2>3. UNCHANGED campus \/ \E w \in Worker : ScoreArrives(w)
    BY <1>1 DEF Next, vars, store_outcome_parameters, SetScore, ReadVersions, SaveVersion,
         Publish, Commit, Abort, StartLeaf, StartComposite, ComputeScore, Recheck, TaskFails
  <2> QED
    BY <2>1, <2>2, <2>3
<1> QED
  BY <1>1, Invariant, WorkersTakeTurns, PTL DEF Spec, NoOlderScore
=============================================================================
