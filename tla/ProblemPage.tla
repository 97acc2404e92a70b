---------------------------- MODULE ProblemPage ----------------------------
(***************************************************************************)
(* A sequence of the courseware in a learner's browser: the tabs           *)
(* (sequence/display.js), the problems on them (capa/display.js), the      *)
(* server that keeps their state (capa_base.py) and the external grader of *)
(* code problems.  The page and the server meet in ajax calls only, and    *)
(* each of these is served, and its callback run, in its own time.         *)
(***************************************************************************)
EXTENDS Integers, Sequences, FiniteSets, SequencesExt

CONSTANTS
  Problem,      \* the problems of the sequence
  CodeGraded,   \* those graded by the external grader
  NumTabs,      \* num_contents: the tabs of the sequence
  Tab,          \* the tab each problem is on
  Answer,       \* what a learner can enter
  Blank,        \* nothing entered
  MaxAttempts,  \* max_attempts of each problem
  MaxPolls,     \* polls before poll() gives up (6: 1000 * 2^6 ms is over a minute)
  MaxMoves,     \* bound: tabs opened
  MaxClicks,    \* bound: buttons of problems clicked
  Allows        \* what may happen that the page relies on not to happen

(* "hurry":   the learner does not wait for the answer of a check, save or *)
(*            reset before doing something else,                           *)
(* "reopen":  the tab that is open is clicked,                             *)
(* "lose":    a request or its answer is lost, or the server fails,        *)
(* "reorder": the answers to two calls of a problem overtake each other.   *)
Disorder == {"hurry", "reopen", "lose", "reorder"}

ASSUME PageAssumption ==
  /\ IsFiniteSet(Problem) /\ CodeGraded \subseteq Problem
  /\ NumTabs \in Nat \ {0} /\ Tab \in [Problem -> 1 .. NumTabs]
  /\ Blank \notin Answer
  /\ MaxAttempts \in Nat \ {0} /\ MaxPolls \in Nat \ {0}
  /\ MaxMoves \in Nat /\ MaxClicks \in Nat
  /\ Allows \subseteq Disorder

VARIABLES
  lcp,       \* server: the state of each problem
  grader,    \* submissions <<problem, queue key>> the external grader has
  position,  \* the tab shown
  latest,    \* what each problem is rendered from: data-content or updatedProblems
  view,      \* the problem on the page
  sent,      \* ajax calls the server has not served
  replies,   \* answers whose callback has not run, in the order of the server
  timers,    \* armed timeouts of pollers
  queuePollerID, \* window.queuePollerID: the id of a timeout, 0 if deleted
  lost,      \* problems a call of which has failed
  moves, clicks  \* bounded counters of what the learner did

vars == <<lcp, grader, position, latest, view, sent, replies, timers,
          queuePollerID, lost, moves, clicks>>

-----------------------------------------------------------------------------
(* The state of a problem on the server.  The HTML the server renders from *)
(* it stands for that state, so it is what the page shows as well.  `key'  *)
(* is the queue key of a submission that waits for the grader, or 0.       *)

Entry == Answer \cup {Blank}

Content == [attempts : 0 .. MaxAttempts, done : BOOLEAN, answer : Entry,
            saved : BOOLEAN, key : 0 .. MaxAttempts]

Untouched == [attempts |-> 0, done |-> FALSE, answer |-> Blank,
              saved |-> FALSE, key |-> 0]

closed(c) == c.attempts >= MaxAttempts
is_queued(c) == c.key # 0

Alert   == [kind |-> "alert"]
Failed  == [kind |-> "error"]
Html(c) == [kind |-> "html", content |-> c]

(* The queue key of a submission is new each time; so is its number.       *)
Submitted(p, a) ==
  [attempts |-> lcp[p].attempts + 1, done |-> TRUE, answer |-> a, saved |-> FALSE,
   key |-> IF p \in CodeGraded THEN lcp[p].attempts + 1 ELSE 0]

(* What a request may do to the state of p, and its answer.  A check that  *)
(* follows a queued one too soon is told to wait; an answer that cannot be *)
(* parsed (StudentInputError) is kept and not graded.                      *)
submit_problem(p, a) ==
  IF closed(lcp[p]) THEN { <<lcp[p], Failed>> }
  ELSE UNION { { <<Submitted(p, a), Html(Submitted(p, a))>> },
               IF is_queued(lcp[p]) THEN { <<lcp[p], Alert>> } ELSE {},
               IF p \in CodeGraded THEN {}
               ELSE { <<[lcp[p] EXCEPT !.answer = a, !.saved = FALSE], Alert>> } }

save_problem(p, a) ==
  LET s == [lcp[p] EXCEPT !.answer = a, !.saved = TRUE]
  IN IF closed(lcp[p]) THEN { <<lcp[p], Alert>> } ELSE { <<s, Html(s)>> }

reset_problem(p) ==
  LET s == [Untouched EXCEPT !.attempts = lcp[p].attempts]
  IN IF closed(lcp[p]) \/ ~lcp[p].done THEN { <<lcp[p], Alert>> } ELSE { <<s, Html(s)>> }

get_problem(p) == { <<lcp[p], Html(lcp[p])>> }

handle_ajax(c) ==
  CASE c.op = "problem_check" -> submit_problem(c.p, c.answer)
    [] c.op = "problem_save"  -> save_problem(c.p, c.answer)
    [] c.op = "problem_reset" -> reset_problem(c.p)
    [] c.op = "problem_get"   -> get_problem(c.p)

-----------------------------------------------------------------------------
(* The page.  A call is made by a Problem object: `live' says that this is *)
(* the object on the page, not one of a tab that was left; `submit' and    *)
(* `others', which buttons of the page the call disabled and is to enable  *)
(* again.  A poll has its number n.                                        *)

Call == [id : Nat, op : {"problem_check", "problem_save", "problem_reset", "problem_get"},
         p : Problem, live : BOOLEAN, answer : Entry, submit : BOOLEAN, others : BOOLEAN,
         n : 0 .. MaxPolls]

Timer == [id : Nat, p : Problem, live : BOOLEAN, n : 1 .. MaxPolls]

(* `told': the learner was told that grading is still running.             *)
View == [shown : Content, input : Entry, submit : BOOLEAN, others : BOOLEAN, told : BOOLEAN]

answered(p, a) == p \in CodeGraded \/ a # Blank

(* setHtml and bind: a fresh rendering, Submit enabled if there is         *)
(* something to submit.                                                    *)
Rendered(p, c) ==
  [shown |-> c, input |-> c.answer, submit |-> answered(p, c.answer) /\ ~closed(c),
   others |-> TRUE, told |-> FALSE]

Answered(p) == {r.call : r \in Range(replies[p])}
Pending == sent \cup UNION {Answered(p) : p \in Problem}
Running(p) == {c \in Pending : c.p = p /\ c.live /\ c.op # "problem_get"}

UsedIds == {c.id : c \in Pending} \cup {t.id : t \in timers} \cup {queuePollerID}
NewId == CHOOSE i \in 1 .. Cardinality(UsedIds) + 1 : i \notin UsedIds

(* What happens to a call when the buttons of its problem are rendered     *)
(* anew, and when another tab is opened.                                   *)
Redrawn(c) == [c EXCEPT !.others = FALSE]
Detached(c) == [c EXCEPT !.live = FALSE, !.submit = FALSE, !.others = FALSE]

Init ==
  /\ lcp = [p \in Problem |-> Untouched]
  /\ latest = lcp
  /\ grader = {}
  /\ position = 1
  /\ view = [p \in Problem |-> Rendered(p, latest[p])]
  /\ sent = {}
  /\ replies = [p \in Problem |-> <<>>]
  /\ timers = {}
  /\ queuePollerID = 0
  /\ lost = {}
  /\ moves = 0 /\ clicks = 0

-----------------------------------------------------------------------------
(* The server and the external grader.                                     *)

Respond(c, r) ==
  /\ sent' = sent \ {c}
  /\ replies' = [replies EXCEPT ![c.p] = Append(@, [call |-> c, reply |-> r])]
  /\ UNCHANGED <<position, latest, view, timers, queuePollerID, moves, clicks>>

(* The grader gets the submission while the request is served.             *)
Processed(c, s) ==
  /\ lcp' = [lcp EXCEPT ![c.p] = s]
  /\ grader' = grader \cup ({<<c.p, s.key>>} \ {<<c.p, lcp[c.p].key>>, <<c.p, 0>>})

Serve(c) ==
  \E o \in handle_ajax(c) : Processed(c, o[1]) /\ Respond(c, o[2]) /\ UNCHANGED lost

(* The call fails before or after the server has done its part.            *)
Lose(c) ==
  /\ "lose" \in Allows /\ c.p \notin lost
  /\ \/ UNCHANGED <<lcp, grader>>
     \/ \E o \in handle_ajax(c) : Processed(c, o[1])
  /\ lost' = lost \cup {c.p}
  /\ Respond(c, Failed)

(* update_score: only the grade of the newest submission counts.           *)
GraderReplies(g) ==
  /\ grader' = grader \ {g}
  /\ lcp' = [lcp EXCEPT ![g[1]].key = IF @ = g[2] THEN 0 ELSE @]
  /\ UNCHANGED <<position, latest, view, sent, replies, timers, queuePollerID, lost, moves, clicks>>

-----------------------------------------------------------------------------
(* The learner at a problem.                                               *)

Waits(p) == Running(p) # {} => "hurry" \in Allows

Type(p, a) ==
  /\ Tab[p] = position /\ Waits(p)
  /\ a # view[p].input
  /\ view' = [view EXCEPT ![p].input = a,
                          ![p].submit = IF p \in CodeGraded THEN @
                                        ELSE answered(p, a) /\ ~closed(view[p].shown)]
  /\ UNCHANGED <<lcp, grader, position, latest, sent, replies, timers, queuePollerID,
                 lost, moves, clicks>>

(* disableAllButtonsWhileRunning, which every operation goes through.      *)
\* Mutant: only Submit is disabled.
DisabledSubmit(v) == [v EXCEPT !.submit = FALSE]
Disabled(v) == [v EXCEPT !.submit = FALSE, !.others = FALSE]

Click(p, op) ==
  /\ Tab[p] = position /\ clicks < MaxClicks
  /\ p \in CodeGraded => Waits(p)
  /\ sent' = sent \cup {[id |-> NewId, op |-> op, p |-> p, live |-> TRUE,
                         answer |-> view[p].input, submit |-> view[p].submit,
                         others |-> view[p].others, n |-> 0]}
  /\ view' = [view EXCEPT ![p] = Disabled(@)]
  /\ clicks' = clicks + 1
  /\ UNCHANGED <<lcp, grader, position, latest, replies, timers, queuePollerID, lost, moves>>

submit(p) == view[p].submit /\ Click(p, "problem_check")
save(p)   == view[p].others /\ ~closed(view[p].shown) /\ Click(p, "problem_save")
reset(p)  == view[p].others /\ ~closed(view[p].shown) /\ Click(p, "problem_reset")

-----------------------------------------------------------------------------
(* Pollers of the problems that wait for the grader.                       *)

Poller(p, live, n) == [id |-> NewId, p |-> p, live |-> live, n |-> n]

\* Mutant: a poller that is there already is taken to be this one.
queueingOnce(p, live, c) ==
  IF is_queued(c) /\ queuePollerID = 0
  THEN timers' = timers \cup {Poller(p, live, 1)} /\ queuePollerID' = NewId
  ELSE UNCHANGED <<timers, queuePollerID>>

(* Every rendering ends with this: the timeout that window.queuePollerID   *)
(* names, whosever it is, gives way to one for this problem.               *)
queueing(p, live, c) ==
  IF is_queued(c)
  THEN /\ timers' = {t \in timers : t.id # queuePollerID} \cup {Poller(p, live, 1)}
       /\ queuePollerID' = NewId
  ELSE UNCHANGED <<timers, queuePollerID>>

TimerFires(t) ==
  /\ timers' = timers \ {t}
  /\ sent' = sent \cup {[id |-> t.id, op |-> "problem_get", p |-> t.p, live |-> t.live,
                         answer |-> Blank, submit |-> FALSE, others |-> FALSE, n |-> t.n]}
  /\ UNCHANGED <<lcp, grader, position, latest, view, replies, queuePollerID, lost, moves, clicks>>

-----------------------------------------------------------------------------
(* Callbacks.  The answer handled is the next one of its problem, or any   *)
(* if they overtake each other.                                            *)

Handles(p, i) ==
  /\ i \in DOMAIN replies[p]
  /\ i # 1 => "reorder" \in Allows
  /\ UNCHANGED <<lcp, grader, position, lost, moves, clicks>>

Rest(p, i) == RemoveAt(replies[p], i)

Unrendered(p, i) ==
  /\ replies' = [replies EXCEPT ![p] = Rest(p, i)]
  /\ UNCHANGED sent

(* The page renders content of p: the buttons that calls under way had     *)
(* disabled are gone.                                                      *)
Rerendered(p, i) ==
  /\ replies' = [replies EXCEPT ![p] =
       [j \in 1 .. Len(@) - 1 |-> [Rest(p, i)[j] EXCEPT !.call = Redrawn(@)]]]
  /\ sent' = {IF c.p = p THEN Redrawn(c) ELSE c : c \in sent}

(* .always(): the submit button of the page, and those other buttons that  *)
(* the operation had disabled, are enabled again.                          *)
Always(v, c) ==
  [v EXCEPT !.submit = @ \/ (c.submit /\ ~closed(v.shown)), !.others = @ \/ c.others]

\* Mutant: the sequence does not hear of it.
contentChangedUnhandled(p, c, s) == UNCHANGED latest

(* The sequence remembers the new content; the object of a tab that was    *)
(* left reaches no handler of the event.                                   *)
contentChanged(p, c, s) == latest' = IF c.live THEN [latest EXCEPT ![p] = s] ELSE latest

(* submit_internal and reset_internal: contentChanged, then render.        *)
ContentArrives(p, i) ==
  LET c == replies[p][i].call
      r == replies[p][i].reply
  IN /\ Handles(p, i)
     /\ c.op \in {"problem_check", "problem_reset"} /\ r.kind = "html"
     /\ contentChanged(p, c, r.content)
     /\ IF c.live
        THEN /\ view' = [view EXCEPT ![p] = Always(Rendered(p, r.content), c)]
             /\ Rerendered(p, i)
        ELSE UNCHANGED view /\ Unrendered(p, i)
     /\ queueing(p, c.live, r.content)

(* save_internal: contentChanged, and nothing is rendered.                 *)
SavedArrives(p, i) ==
  LET c == replies[p][i].call
      r == replies[p][i].reply
  IN /\ Handles(p, i) /\ c.op = "problem_save" /\ r.kind = "html"
     /\ contentChanged(p, c, r.content)
     /\ view' = IF c.live THEN [view EXCEPT ![p] = Always(@, c)] ELSE view
     /\ Unrendered(p, i)
     /\ UNCHANGED <<timers, queuePollerID>>

(* gentle_alert, or a failure, which has no callback but .always().        *)
RefusalArrives(p, i) ==
  LET c == replies[p][i].call
  IN /\ Handles(p, i) /\ c.op # "problem_get" /\ replies[p][i].reply.kind # "html"
     /\ view' = IF c.live THEN [view EXCEPT ![p] = Always(@, c)] ELSE view
     /\ Unrendered(p, i)
     /\ UNCHANGED <<latest, timers, queuePollerID>>

\* Mutant: the end of the wait is no change.
StatusChangedToQueued(v, s) == is_queued(s) /\ ~is_queued(v.shown)
StatusChanged(v, s) == is_queued(s) # is_queued(v.shown)

\* Mutant: polling never ends.
DueForever(n) == TRUE
Due(n) == n < MaxPolls

(* poll: the page is rendered if its status of being queued has changed,   *)
(* and the next poll is due in twice the time, if that is in a minute.     *)
PollArrives(p, i) ==
  LET c == replies[p][i].call
      s == replies[p][i].reply.content
      changed == c.live /\ StatusChanged(view[p], s)
      givesUp == is_queued(s) /\ ~Due(c.n)
      now == IF changed THEN Rendered(p, s) ELSE view[p]
  IN /\ Handles(p, i) /\ c.op = "problem_get" /\ replies[p][i].reply.kind = "html"
     /\ IF changed THEN Rerendered(p, i) ELSE Unrendered(p, i)
     /\ view' = [view EXCEPT ![p] = [now EXCEPT !.told = @ \/ (c.live /\ givesUp)]]
     /\ IF is_queued(s) /\ Due(c.n)
        THEN timers' = timers \cup {Poller(p, c.live, c.n + 1)} /\ queuePollerID' = NewId
        ELSE UNCHANGED timers /\ queuePollerID' = 0
     /\ UNCHANGED latest

(* A poll that fails has no callback: the poller is gone.                  *)
PollFails(p, i) ==
  /\ Handles(p, i)
  /\ replies[p][i].call.op = "problem_get" /\ replies[p][i].reply.kind = "error"
  /\ Unrendered(p, i)
  /\ UNCHANGED <<latest, view, timers, queuePollerID>>

Callback(p, i) ==
  \/ ContentArrives(p, i)
  \/ SavedArrives(p, i)
  \/ RefusalArrives(p, i)
  \/ PollArrives(p, i)
  \/ PollFails(p, i)

-----------------------------------------------------------------------------
(* The tabs of the sequence.                                               *)

(* Sequence.render: Problem objects of the tab are created from `latest',  *)
(* and of those that wait for the grader the last one has the timeout.     *)
(* The view of a problem that is not on the page is what it would show.    *)
Render(pos, ts, id) ==
  LET waiting == {p \in Problem : Tab[p] = pos /\ is_queued(latest[p])}
      kept == {[t EXCEPT !.live = FALSE] : t \in ts}
  IN /\ position' = pos
     /\ view' = [p \in Problem |-> Rendered(p, latest[p])]
     /\ sent' = {Detached(c) : c \in sent}
     /\ replies' = [p \in Problem |->
          [j \in DOMAIN replies[p] |-> [replies[p][j] EXCEPT !.call = Detached(@)]]]
     /\ IF waiting = {} THEN timers' = kept /\ queuePollerID' = id
        ELSE \E p \in waiting :
               /\ timers' = {t \in kept : t.id # id} \cup {Poller(p, TRUE, 1)}
               /\ queuePollerID' = NewId
     /\ moves' = moves + 1
     /\ UNCHANGED <<lcp, grader, latest, lost, clicks>>

Leaves == moves < MaxMoves /\ \A p \in Problem : Tab[p] = position => Waits(p)

(* A tab is clicked: the poller is stopped, and render does nothing if it  *)
(* is the tab that is open.                                                *)
goto(pos) ==
  LET ts == {t \in timers : t.id # queuePollerID}
  IN /\ Leaves
     /\ pos = position => "reopen" \in Allows
     /\ IF pos # position THEN Render(pos, ts, 0)
        ELSE /\ timers' = ts /\ queuePollerID' = 0 /\ moves' = moves + 1
             /\ UNCHANGED <<lcp, grader, position, latest, view, sent, replies, lost, clicks>>

(* The buttons Next and Previous.                                          *)
_change_sequential(pos) ==
  /\ Leaves
  /\ pos \in {position - 1, position + 1}
  /\ Render(pos, timers, queuePollerID)

-----------------------------------------------------------------------------
Next ==
  \/ \E c \in sent : Serve(c) \/ Lose(c)
  \/ \E g \in grader : GraderReplies(g)
  \/ \E p \in Problem : \/ \E a \in Entry : Type(p, a)
                        \/ submit(p)
                        \/ save(p)
                        \/ reset(p)
                        \/ \E i \in DOMAIN replies[p] : Callback(p, i)
  \/ \E t \in timers : TimerFires(t)
  \/ \E pos \in 1 .. NumTabs : goto(pos) \/ _change_sequential(pos)

(* Requests are answered in the end, callbacks and timers run.  Nothing is *)
(* assumed of the learner and of the external grader.                      *)
Fairness ==
  /\ WF_vars(\E c \in sent : Serve(c) \/ Lose(c))
  /\ \A p \in Problem : WF_vars(\E i \in DOMAIN replies[p] : Callback(p, i))
  /\ WF_vars(\E t \in timers : TimerFires(t))

Spec == Init /\ [][Next]_vars
FairSpec == Spec /\ Fairness
-----------------------------------------------------------------------------
Reply == {Alert, Failed} \cup {Html(c) : c \in Content}

TypeOK ==
  /\ lcp \in [Problem -> Content]
  /\ grader \subseteq Problem \X (1 .. MaxAttempts)
  /\ position \in 1 .. NumTabs
  /\ latest \in [Problem -> Content]
  /\ view \in [Problem -> View]
  /\ sent \subseteq Call
  /\ replies \in [Problem -> Seq([call : Call, reply : Reply])]
  /\ \A p \in Problem : \A i \in DOMAIN replies[p] : replies[p][i].call.p = p
  /\ timers \subseteq Timer
  /\ queuePollerID \in Nat
  /\ lost \subseteq Problem
  /\ moves \in 0 .. MaxMoves /\ clicks \in 0 .. MaxClicks

OnPage(p) == Tab[p] = position

(* The page agrees with the server on what has been handed in.             *)
Agrees(c, p) ==
  /\ c.attempts = lcp[p].attempts /\ c.done = lcp[p].done
  /\ lcp[p].key \in {0, c.key}

(* Opening the tab of a problem again shows what has become of it, and     *)
(* answers that were saved, unless an operation is under way.              *)
LatestIsCurrent ==
  \A p \in Problem \ lost : Running(p) = {} =>
    /\ Agrees(latest[p], p)
    /\ lcp[p].saved => latest[p].answer = lcp[p].answer

(* A problem that is shown as waiting for the grader is polled, or the     *)
(* learner was told to refresh the page.                                   *)
Polled(p) ==
  \/ \E t \in timers : t.p = p /\ t.live
  \/ \E c \in Pending : c.p = p /\ c.live /\ c.op = "problem_get"

QueuedIsPolled ==
  \A p \in Problem \ lost :
    OnPage(p) /\ is_queued(view[p].shown) => Polled(p) \/ view[p].told

(* The buttons of a problem start one operation at a time.                 *)
OneOperation == \A p \in Problem : Cardinality(Running(p)) <= 1

(* The page never goes back to an earlier attempt.                         *)
NeverOlder ==
  [][\A p \in Problem \ lost : view'[p].shown.attempts >= view[p].shown.attempts]_vars

(* In the end the page shows the state of the problem on the server, or    *)
(* has told the learner that it does not wait for it any more.             *)
Current(p) ==
  OnPage(p) /\ p \notin lost =>
    \/ Agrees(view[p].shown, p) /\ view[p].shown.key = lcp[p].key
    \/ view[p].told

ShownInTheEnd == \A p \in Problem : <>[]Current(p)
=============================================================================
