------------------------------ MODULE LtiOutcomes ------------------------------
(***************************************************************************)
(* The LTI outcome service: a campus LMS that launched a block of the      *)
(* course (a graded assignment) is sent the learner's score whenever it    *)
(* changes.  A request that changes the score of one problem counts up the *)
(* version of every assignment that contains the problem and queues one    *)
(* task for each; all of that belongs to the transaction of the request    *)
(* (ATOMIC_REQUESTS), except for the messages to the broker.               *)
(*                                                                         *)
(* One learner.  Requests are those whose signal carries a course and      *)
(* points, which the handler requires.  The database shows a request what  *)
(* others have committed (READ COMMITTED, Django's default for MySQL).     *)
(* A score is represented by what it reflects: the set of the requests     *)
(* whose changes went into it.                                             *)
(***************************************************************************)
EXTENDS Naturals

CONSTANTS
  Request,      \* requests that change the score of a problem
  Problem,
  Assignment,   \* the rows of GradedAssignment of the learner
  Worker,       \* celery workers
  ProblemOf,    \* the problem whose score a request changes
  Contains,     \* the problems below the block of an assignment
  Leaf          \* the assignments whose block is a problem itself

ASSUME LtiAssumption ==
  /\ ProblemOf \in [Request -> Problem]
  /\ Contains \in [Assignment -> SUBSET Problem]
  /\ Leaf \subseteq Assignment
  /\ \A a \in Leaf : \E p \in Problem : Contains[a] = {p}

VARIABLES
  scored,    \* the requests whose changes are committed
  launched,  \* the assignments that have a row
  version,   \* version_number of each row, as committed
  request,   \* progress of each request
  tasks,     \* messages at the broker
  worker,    \* progress of each worker
  campus,    \* the score that the campus LMS holds for each assignment
  lost       \* history: assignments for which a task failed to send

vars == <<scored, launched, version, request, tasks, worker, campus, lost>>

\* What a score of assignment a reflects of some requests.
Within(reqs, a) == {r \in reqs : ProblemOf[r] \in Contains[a]}

\* The rows found on the way up from the problem.
Affected(r) == {a \in launched : ProblemOf[r] \in Contains[a]}

\* A task is named by the request that queued it and its assignment.
Name == Request \X Assignment
NameOf(t) == <<t.req, t.of>>

Task == [req : Request, of : Assignment, version : Nat,
         score : SUBSET Request, after : SUBSET (Request \cup Name)]

Open == {r \in Request : request[r].pc \in {"read", "open"}}

Idle == [pc |-> "idle"]

At(w, pc) == worker[w].pc = pc

Running == {NameOf(worker[w].task) : w \in {v \in Worker : worker[v] # Idle}}

Init ==
  /\ scored = {}
  /\ launched = {}
  /\ version = [a \in Assignment |-> 0]
  /\ request = [r \in Request |->
       [pc |-> "new", found |-> {}, read |-> [a \in Assignment |-> 0],
        saved |-> {}, told |-> {}]]
  /\ tasks = {}
  /\ worker = [w \in Worker |-> Idle]
  /\ campus = [a \in Assignment |-> {}]
  /\ lost = {}
-----------------------------------------------------------------------------
\* An LTI launch that expects a score creates the row.
store_outcome_parameters(a) ==
  /\ a \notin launched
  /\ launched' = launched \cup {a}
  /\ UNCHANGED <<scored, version, request, tasks, worker, campus, lost>>

(***************************************************************************)
(* The request.  What it writes is visible to others when it commits, and  *)
(* a row that it wrote is locked until then.                               *)
(***************************************************************************)

\* The score of the problem is saved (which locks its row), the signal sent.
SetScore(r) ==
  /\ request[r].pc = "new"
  /\ \A q \in Open : ProblemOf[q] # ProblemOf[r]
  /\ request' = [request EXCEPT ![r].pc = "read"]
  /\ UNCHANGED <<scored, launched, version, tasks, worker, campus, lost>>

\* The query of increment_assignment_versions, which sees committed rows.
ReadVersions(r) ==
  /\ request[r].pc = "read"
  /\ request' = [request EXCEPT ![r].pc = "open",
                                ![r].found = Affected(r),
                                ![r].read = version]
  /\ UNCHANGED <<scored, launched, version, tasks, worker, campus, lost>>

\* version_number += 1 and save(), once no other request has the row locked.
SaveVersion(r, a) ==
  /\ request[r].pc = "open"
  /\ a \in request[r].found \ request[r].saved
  /\ \A q \in Open \ {r} : a \notin request[q].saved
  /\ request' = [request EXCEPT ![r].saved = @ \cup {a}]
  /\ UNCHANGED <<scored, launched, version, tasks, worker, campus, lost>>

\* Mutant: the composite task is given the version from before the count.
MessageEarly(r, a) ==
  IF a \in Leaf
  THEN [req |-> r, of |-> a, version |-> 0, score |-> Within(scored, a) \cup {r},
        after |-> {}]
  ELSE [req |-> r, of |-> a, version |-> request[r].read[a], score |-> {},
        after |-> {r}]

\* A leaf is told the points themselves, a composite only its new version.
\* The broker has the message at once.
Message(r, a) ==
  IF a \in Leaf
  THEN [req |-> r, of |-> a, version |-> 0, score |-> Within(scored, a) \cup {r},
        after |-> {}]
  ELSE [req |-> r, of |-> a, version |-> request[r].read[a] + 1, score |-> {},
        after |-> {r}]

Publish(r, a) ==
  /\ request[r].pc = "open"
  /\ request[r].saved = request[r].found
  /\ a \in request[r].found \ request[r].told
  /\ request' = [request EXCEPT ![r].told = @ \cup {a}]
  /\ tasks' = tasks \cup {Message(r, a)}
  /\ UNCHANGED <<scored, launched, version, worker, campus, lost>>

\* Mutant: a countdown that only outlasts the request that queued the task.
DelayedBriefly(r) == tasks

\* The countdown of a composite task (LTI_AGGREGATE_SCORE_PASSBACK_DELAY, 15
\* minutes) is taken to outlast the request that queued it and whatever other
\* request or task is under way when that request ends.
Delayed(r) ==
  {IF t.req = r /\ t.of \notin Leaf
   THEN [t EXCEPT !.after = (Open \ {r}) \cup Running]
   ELSE t : t \in tasks}

Commit(r) ==
  /\ request[r].pc = "open"
  /\ request[r].told = request[r].found
  /\ request' = [request EXCEPT ![r].pc = "committed"]
  /\ scored' = scored \cup {r}
  /\ version' = [a \in Assignment |->
       IF a \in request[r].saved THEN request[r].read[a] + 1 ELSE version[a]]
  /\ tasks' = Delayed(r)
  /\ UNCHANGED <<launched, worker, campus, lost>>

\* Mutant: the versions are counted down again.
AbortCountsDown(r) ==
  /\ r \in Open
  /\ request' = [request EXCEPT ![r].pc = "aborted"]
  /\ version' = [a \in Assignment |->
       IF a \in request[r].saved THEN version[a] - 1 ELSE version[a]]
  /\ tasks' = Delayed(r)
  /\ UNCHANGED <<scored, launched, worker, campus, lost>>

\* An exception, the broker's or the database's included, undoes the request
\* but not what it has published.
Abort(r) ==
  /\ r \in Open
  /\ request' = [request EXCEPT ![r].pc = "aborted"]
  /\ tasks' = Delayed(r)
  /\ UNCHANGED <<scored, launched, version, worker, campus, lost>>
-----------------------------------------------------------------------------
(***************************************************************************)
(* The tasks.  They run outside of transactions: each access to the        *)
(* database is a step of its own.                                          *)
(***************************************************************************)

\* send_leaf_outcome: the points are in the message.
StartLeaf(w) ==
  /\ worker[w] = Idle
  /\ \E t \in tasks :
       /\ t.of \in Leaf
       /\ tasks' = tasks \ {t}
       /\ worker' = [worker EXCEPT ![w] =
                       [pc |-> "post", task |-> t, score |-> t.score]]
  /\ UNCHANGED <<scored, launched, version, request, campus, lost>>

\* send_composite_outcome up to its first look at the version.
StartComposite(w) ==
  /\ worker[w] = Idle
  /\ \E t \in tasks :
       /\ t.of \notin Leaf
       /\ t.after \cap (Open \cup Running) = {}
       /\ tasks' = tasks \ {t}
       /\ worker' = [worker EXCEPT ![w] =
            IF version[t.of] = t.version
            THEN [pc |-> "compute", task |-> t, score |-> {}]
            ELSE Idle]
  /\ UNCHANGED <<scored, launched, version, request, campus, lost>>

\* The course grade gives the scores that the database holds now.
ComputeScore(w) ==
  /\ At(w, "compute")
  /\ worker' = [worker EXCEPT ![w] =
       [pc |-> "recheck", task |-> worker[w].task,
        score |-> Within(scored, worker[w].task.of)]]
  /\ UNCHANGED <<scored, launched, version, request, tasks, campus, lost>>

\* Mutant: the score is sent without a second look at the version.
RecheckDropped(w) ==
  /\ At(w, "recheck")
  /\ worker' = [worker EXCEPT ![w].pc = "post"]
  /\ UNCHANGED <<scored, launched, version, request, tasks, campus, lost>>

\* The second look at the version, as late as can be.
Recheck(w) ==
  /\ At(w, "recheck")
  /\ worker' = [worker EXCEPT ![w] =
       IF version[worker[w].task.of] = worker[w].task.version
       THEN [worker[w] EXCEPT !.pc = "post"]
       ELSE Idle]
  /\ UNCHANGED <<scored, launched, version, request, tasks, campus, lost>>

\* The campus LMS takes the score.
ScoreArrives(w) ==
  /\ At(w, "post")
  /\ campus' = [campus EXCEPT ![worker[w].task.of] = worker[w].score]
  /\ worker' = [worker EXCEPT ![w] = Idle]
  /\ UNCHANGED <<scored, launched, version, request, tasks, lost>>

\* The call to the campus LMS fails, which is logged and not retried, or the
\* task dies on the way.
TaskFails(w) ==
  /\ worker[w] # Idle
  /\ lost' = lost \cup {worker[w].task.of}
  /\ worker' = [worker EXCEPT ![w] = Idle]
  /\ UNCHANGED <<scored, launched, version, request, tasks, campus>>
-----------------------------------------------------------------------------
Next ==
  \/ \E a \in Assignment : store_outcome_parameters(a)
  \/ \E r \in Request : \/ SetScore(r)
                        \/ ReadVersions(r)
                        \/ \E a \in Assignment : SaveVersion(r, a) \/ Publish(r, a)
                        \/ Commit(r)
                        \/ Abort(r)
  \/ \E w \in Worker : \/ StartLeaf(w)
                       \/ StartComposite(w)
                       \/ ComputeScore(w)
                       \/ Recheck(w)
                       \/ ScoreArrives(w)
                       \/ TaskFails(w)

Spec == Init /\ [][Next]_vars
-----------------------------------------------------------------------------
RequestState ==
  [pc : {"new", "read", "open", "committed", "aborted"},
   found : SUBSET Assignment, read : [Assignment -> Nat],
   saved : SUBSET Assignment, told : SUBSET Assignment]

WorkerState ==
  {Idle} \cup [pc : {"compute", "recheck", "post"}, task : Task, score : SUBSET Request]

\* The variables hold what their comments say.
TypeOK ==
  /\ scored \subseteq Request
  /\ launched \subseteq Assignment
  /\ version \in [Assignment -> Nat]
  /\ request \in [Request -> RequestState]
  /\ tasks \subseteq Task
  /\ worker \in [Worker -> WorkerState]
  /\ campus \in [Assignment -> SUBSET Request]
  /\ lost \subseteq Assignment

Quiet == Open = {} /\ tasks = {} /\ \A w \in Worker : worker[w] = Idle

\* The assignments for which a committed request queued a task.
Announced == UNION {request[r].told : r \in scored}

\* When all is done the campus LMS holds the score of the database for every
\* assignment it was to hear of, whatever became of the versions: two requests
\* may count up from the same version, a slow one may set it back, and one that
\* is rolled back leaves its tasks behind.
CampusIsCurrent ==
  Quiet => \A a \in Announced \ (Leaf \cup lost) : campus[a] = Within(scored, a)

\* No two requests have written the same version of a.
VersionsDiffer(a) ==
  \A q, r \in Request :
    (/\ a \in request[q].saved \cap request[r].saved
     /\ request[q].read[a] = request[r].read[a]) => q = r

\* A score is sent only if it is the score of the database at the time of the
\* second look at the version: the task exits if it was superseded.
SendsCurrentScore ==
  [][\A w \in Worker :
       (/\ At(w, "recheck")
        /\ worker'[w].pc = "post"
        /\ VersionsDiffer(worker[w].task.of))
       => worker[w].score = Within(scored, worker[w].task.of)]_vars

\* The campus LMS never has a score replaced by an older one.
NoOlderScore ==
  [][\A a \in Assignment \ Leaf : VersionsDiffer(a) => campus[a] \subseteq campus'[a]]_vars
=============================================================================
